---------------------------- MODULE Speech_proofs ----------------------------
(* Proofs about what the speech services start from, Provisioning, for any   *)
(* set of programs in any roles, and about how the 300M engine cuts a text,  *)
(* TextSubdivision, for texts of any length and any limit.                   *)
EXTENDS Provisioning, TextSubdivision, FiniteSetTheorems, SequenceTheorems,
        WellFoundedInduction, TLAPS

-----------------------------------------------------------------------------
(* Provisioning.                                                            *)

(* The steps of a service behind config(), and those behind the validation. *)
Verified == {"probe", "exists", "create", "write", "validate", "runtime", "key", "load", "up"}
Validated == {"runtime", "key", "load", "up"}

Tables ==
    /\ pAt \in [Programs -> Steps0]
    /\ DOMAIN pToken = Programs
    /\ DOMAIN pLoaded = Programs

RolesKept ==
    \A p \in Programs :
       /\ pAt[p] \in {"derive"} \cup Preparing => Role[p] = "voice"
       /\ pAt[p] \in {"config", "probe", "runtime", "load"} => Role[p] = "service"
       /\ pAt[p] = "key" => Role[p] \in {"service", "monitor"}

(* The key is written at most once: by the one program whose create made    *)
(* the file, and every credential read since is the one in the file.        *)
KeyOnce ==
    /\ pKey \in {"absent", "empty"} \cup Programs
    /\ \A p \in Programs : pAt[p] = "write" => pKey = "empty"
    /\ \A p, q \in Programs : pAt[p] = "write" /\ pAt[q] = "write" => p = q
    /\ \A p \in Programs : Role[p] = "service" /\ pAt[p] \in Validated => pKey \in Programs
    /\ \A p \in Programs : pToken[p] \in {"none", "empty", pKey}
    /\ \A p \in Programs : pToken[p] # "absent"
    /\ \A p \in Programs : pToken[p] = "empty" => Role[p] = "monitor"

(* As long as the draft was one run's at a time, only what it compared is    *)
(* published, so that a pinned voice stays pinned.                          *)
VoicePinned ==
    /\ DOMAIN pFile = Programs
    /\ ~pOverlapped =>
          /\ \A p, q \in Programs : pAt[p] \in Preparing /\ pAt[q] \in Preparing => p = q
          /\ \A p \in Programs : pFile[p] = IF pAt[p] = "saving" THEN "draft" ELSE "none"
          /\ \A p \in Programs : pAt[p] = "publish" => pDraft = "pinned"
          /\ \A p \in Programs : Role[p] = "service" /\ pAt[p] \in Verified => pVoice = "pinned"
          /\ \A p \in Programs : pLoaded[p] # "other"

ProvisionInv == Tables /\ RolesKept /\ KeyOnce /\ VoicePinned

(* Init satisfies the invariant.                                            *)
LEMMA InitProvision == ProvisioningInit => ProvisionInv
  BY DEF ProvisioningInit, ProvisionInv, Tables, RolesKept, KeyOnce, VoicePinned, Steps0,
         Verified, Validated, Preparing

(* What a step leaves of the tables of a program it is not about.           *)
LEMMA ProceedsIsLocal ==
    ASSUME Tables, NEW p \in Programs, NEW step \in Steps0, Proceeds(p, step)
    PROVE  /\ Tables' /\ pAt'[p] = step /\ pToken' = pToken /\ pLoaded' = pLoaded
           /\ \A q \in Programs \ {p} : pAt'[q] = pAt[q]
  BY DEF Tables, Proceeds

(* A program that ends stands nowhere and holds nothing.                    *)
LEMMA QuitsIsLocal ==
    ASSUME Tables, NEW p \in Programs, Quits(p)
    PROVE  /\ Tables' /\ pAt'[p] = "off" /\ pToken'[p] = "none" /\ pLoaded'[p] = "none"
           /\ \A q \in Programs \ {p} : /\ pAt'[q] = pAt[q] /\ pToken'[q] = pToken[q]
                                        /\ pLoaded'[q] = pLoaded[q]
  BY DEF Tables, Quits, Steps0

(* A program that quits, at whatever step, breaks nothing of what holds.    *)
LEMMA QuitsKeeps ==
    ASSUME ProvisionInv, NEW p \in Programs, Quits(p), UNCHANGED <<pKey, pVoice, pOverlapped>>,
           DOMAIN pFile' = Programs,
           ~pOverlapped => /\ pFile'[p] = "none"
                           /\ \A q \in Programs \ {p} : pFile'[q] = pFile[q]
                           /\ \A q \in Programs \ {p} : pAt[q] = "publish" => UNCHANGED pDraft
    PROVE  ProvisionInv'
<1>1. /\ Tables' /\ pAt'[p] = "off" /\ pToken'[p] = "none" /\ pLoaded'[p] = "none"
      /\ \A q \in Programs \ {p} : /\ pAt'[q] = pAt[q] /\ pToken'[q] = pToken[q]
                                   /\ pLoaded'[q] = pLoaded[q]
  BY QuitsIsLocal DEF ProvisionInv
<1>2. RolesKept'
  BY <1>1 DEF ProvisionInv, RolesKept, Preparing
<1>3. KeyOnce'
  BY <1>1 DEF ProvisionInv, KeyOnce, Validated
<1>4. VoicePinned'
  BY <1>1 DEF ProvisionInv, VoicePinned, Verified, Preparing
<1> QED
  BY <1>1, <1>2, <1>3, <1>4 DEF ProvisionInv

(* A program that writes no file holds none; so it leaves none when it quits. *)
LEMMA QuitsUnwritten ==
    ASSUME ProvisionInv, NEW p \in Programs, Quits(p), UNCHANGED <<pKey, voiceVars>>,
           pAt[p] # "saving"
    PROVE  ProvisionInv'
  BY QuitsKeeps DEF voiceVars, ProvisionInv, VoicePinned

(* A step forward that touches no file keeps the invariant when the new     *)
(* step is one the program may stand at.                                    *)
LEMMA ProceedsKeeps ==
    ASSUME ProvisionInv, NEW p \in Programs, NEW step \in Steps0 \ {"off", "write", "saving"},
           Proceeds(p, step), UNCHANGED <<pKey, voiceVars>>, pAt[p] # "saving",
           step \in {"derive"} \cup Preparing => Role[p] = "voice",
           step \in Preparing => pAt[p] \in Preparing,
           step \in {"config", "probe", "runtime", "load"} => Role[p] = "service",
           step = "key" => Role[p] \in {"service", "monitor"},
           Role[p] = "service" /\ step \in Validated => pKey \in Programs,
           ~pOverlapped /\ Role[p] = "service" /\ step \in Verified => pVoice = "pinned",
           step = "publish" => pDraft = "pinned"
    PROVE  ProvisionInv'
<1>1. /\ Tables' /\ pAt'[p] = step /\ pToken' = pToken /\ pLoaded' = pLoaded
      /\ \A q \in Programs \ {p} : pAt'[q] = pAt[q]
  BY ProceedsIsLocal DEF ProvisionInv
<1>2. /\ pKey' = pKey /\ pVoice' = pVoice /\ pDraft' = pDraft /\ pFile' = pFile
      /\ pOverlapped' = pOverlapped
  BY DEF voiceVars
<1>3. RolesKept'
  BY <1>1 DEF ProvisionInv, RolesKept
<1>4. KeyOnce'
  BY <1>1, <1>2 DEF ProvisionInv, KeyOnce
<1>5. VoicePinned'
  BY <1>1, <1>2 DEF ProvisionInv, VoicePinned
<1> QED
  BY <1>1, <1>3, <1>4, <1>5 DEF ProvisionInv

(* Create and WriteKey: the only steps that change the key file.            *)
LEMMA KeyFileKeeps ==
    ASSUME ProvisionInv, NEW p \in Programs, Create(p) \/ WriteKey(p)
    PROVE  ProvisionInv'
<1>1. CASE Create(p) /\ pKey # "absent"
  BY <1>1, QuitsUnwritten DEF Create
<1>2. CASE Create(p) /\ pKey = "absent"
  <2>1. /\ Tables' /\ pAt'[p] = "write" /\ pToken' = pToken /\ pLoaded' = pLoaded
        /\ \A q \in Programs \ {p} : pAt'[q] = pAt[q]
    BY <1>2, ProceedsIsLocal DEF Create, ProvisionInv, Steps0
  <2>2. pAt[p] = "create" /\ pKey' = "empty" /\ UNCHANGED <<pVoice, pDraft, pFile, pOverlapped>>
    BY <1>2 DEF Create, voiceVars
  <2>3. RolesKept'
    BY <2>1, <2>2 DEF ProvisionInv, RolesKept, Preparing
  <2>4. KeyOnce'
    BY <1>2, <2>1, <2>2, ProvisioningAssumption DEF ProvisionInv, KeyOnce, Validated
  <2>5. VoicePinned'
    BY <2>1, <2>2 DEF ProvisionInv, VoicePinned, Verified, Preparing
  <2> QED
    BY <2>1, <2>3, <2>4, <2>5 DEF ProvisionInv
<1>3. CASE WriteKey(p)
  <2>1. /\ Tables' /\ pAt'[p] = "validate" /\ pToken' = pToken /\ pLoaded' = pLoaded
        /\ \A q \in Programs \ {p} : pAt'[q] = pAt[q]
    BY <1>3, ProceedsIsLocal DEF WriteKey, ProvisionInv, Steps0
  <2>2. pAt[p] = "write" /\ pKey' = p /\ UNCHANGED <<pVoice, pDraft, pFile, pOverlapped>>
    BY <1>3 DEF WriteKey, voiceVars
  <2>3. RolesKept'
    BY <2>1, <2>2 DEF ProvisionInv, RolesKept, Preparing
  <2>4. KeyOnce'
    BY <2>1, <2>2, ProvisioningAssumption DEF ProvisionInv, KeyOnce, Validated
  <2>5. VoicePinned'
    BY <2>1, <2>2 DEF ProvisionInv, VoicePinned, Verified, Preparing
  <2> QED
    BY <2>1, <2>3, <2>4, <2>5 DEF ProvisionInv
<1> QED
  BY <1>1, <1>2, <1>3

(* ReadKey and LoadEngine, and the gateway's Validate: what a program takes *)
(* from the files it keeps.                                                 *)
LEMMA TakingKeeps ==
    ASSUME ProvisionInv, NEW p \in Programs,
           ReadKey(p) \/ LoadEngine(p) \/ (Validate(p) /\ Role[p] = "gateway")
    PROVE  ProvisionInv'
<1> USE DEF ProvisionInv
<1>1. /\ UNCHANGED <<pKey, pVoice, pDraft, pFile, pOverlapped>>
      /\ \A q \in Programs \ {p} : /\ pAt'[q] = pAt[q] /\ pToken'[q] = pToken[q]
                                   /\ pLoaded'[q] = pLoaded[q]
  BY DEF ReadKey, LoadEngine, Validate, Tables, voiceVars
<1>2. /\ Tables' /\ pAt[p] \in {"key", "load", "validate"} /\ pAt'[p] \in {"load", "up"}
      /\ pAt'[p] = "load" => Role[p] = "service"
  BY DEF ReadKey, LoadEngine, Validate, Tables, Steps0
<1>3. pToken'[p] \in {pToken[p], pKey}
  BY DEF ReadKey, LoadEngine, Validate, Tables
<1>4. ~pOverlapped => pLoaded'[p] \in {pLoaded[p], "pinned"}
  BY DEF ReadKey, LoadEngine, Validate, Tables, RolesKept, VoicePinned, Verified
<1>5. Role[p] = "service" => pKey \in Programs /\ (~pOverlapped => pVoice = "pinned")
  BY DEF ReadKey, LoadEngine, Validate, KeyOnce, VoicePinned, Validated, Verified
<1>6. pToken'[p] = pToken[p] \/ (pKey # "absent" /\ (pKey = "empty" => Role[p] = "monitor"))
  <2>1. CASE ReadKey(p)
    BY <1>5, <2>1, ProvisioningAssumption DEF ReadKey, RolesKept
  <2>2. CASE LoadEngine(p)
    BY <2>2 DEF LoadEngine
  <2>3. CASE Validate(p)
    BY <2>3, ProvisioningAssumption DEF Validate
  <2> QED
    BY <2>1, <2>2, <2>3
<1>7. RolesKept'
  BY <1>1, <1>2 DEF RolesKept, Preparing
<1>8. KeyOnce'
  BY <1>1, <1>2, <1>3, <1>5, <1>6 DEF KeyOnce, Validated
<1>9. VoicePinned'
  BY <1>1, <1>2, <1>4, <1>5 DEF VoicePinned, Verified, Preparing
<1> QED
  BY <1>2, <1>7, <1>8, <1>9

(* The invariant where the draft was two runs' at once: then nothing is said *)
(* of the voice.                                                            *)
LEMMA OverlapKeeps ==
    ASSUME ProvisionInv, NEW p \in Programs, NEW step \in Preparing, Proceeds(p, step),
           UNCHANGED pKey, pAt[p] \in {"derive"} \cup Preparing,
           DOMAIN pFile' = Programs, VoicePinned'
    PROVE  ProvisionInv'
<1>1. /\ Tables' /\ pAt'[p] = step /\ pToken' = pToken /\ pLoaded' = pLoaded
      /\ \A q \in Programs \ {p} : pAt'[q] = pAt[q]
  BY ProceedsIsLocal DEF ProvisionInv, Steps0, Preparing
<1>2. RolesKept'
  BY <1>1 DEF ProvisionInv, RolesKept, Preparing
<1>3. KeyOnce'
  BY <1>1 DEF ProvisionInv, KeyOnce, Validated, Preparing
<1> QED
  BY <1>1, <1>2, <1>3 DEF ProvisionInv

(* prepare_voice(): without an overlap the draft is one run's from the moment *)
(* it opens it until it is published or gone.                               *)
LEMMA VoiceKeeps ==
    ASSUME ProvisionInv, NEW p \in Programs,
           Derive(p) \/ Save(p) \/ Compare(p) \/ Discard(p) \/ PublishVoice(p)
    PROVE  ProvisionInv'
<1> USE DEF ProvisionInv
<1>1. Role[p] = "voice" /\ pAt[p] \in {"derive"} \cup Preparing
  BY DEF Derive, Save, Compare, Discard, PublishVoice, RolesKept, Preparing
<1>2. ~pOverlapped /\ pAt[p] \in Preparing =>
         \A q \in Programs \ {p} : pAt[q] \notin Preparing /\ pFile[q] = "none"
  BY DEF VoicePinned, Preparing
<1>3. CASE Derive(p)
  <2>1. /\ Tables' /\ pAt'[p] = "saving" /\ pToken' = pToken /\ pLoaded' = pLoaded
        /\ \A q \in Programs \ {p} : pAt'[q] = pAt[q]
    BY <1>3, ProceedsIsLocal DEF Derive, Steps0
  <2>2. /\ pKey' = pKey /\ pVoice' = pVoice /\ DOMAIN pFile' = Programs
        /\ pFile'[p] = "draft" /\ \A q \in Programs \ {p} : pFile'[q] = pFile[q]
    BY <1>3 DEF Derive, VoicePinned
  <2>3. ~pOverlapped' => ~pOverlapped /\ \A q \in Programs : pAt[q] \notin Preparing
    BY <1>3 DEF Derive
  <2>4. VoicePinned'
    BY <1>1, <2>1, <2>2, <2>3 DEF VoicePinned, Verified, Preparing
  <2> QED
    BY <1>1, <1>3, <2>2, <2>4, OverlapKeeps DEF Derive, Preparing
<1>4. CASE Save(p)
  <2>1. /\ Tables' /\ pAt'[p] = "saved" /\ pToken' = pToken /\ pLoaded' = pLoaded
        /\ \A q \in Programs \ {p} : pAt'[q] = pAt[q]
    BY <1>4, ProceedsIsLocal DEF Save, Steps0
  <2>2. /\ pAt[p] = "saving" /\ pKey' = pKey /\ DOMAIN pFile' = Programs
        /\ pFile'[p] = "none" /\ \A q \in Programs \ {p} : pFile'[q] = pFile[q]
        /\ pOverlapped' = pOverlapped /\ (pFile[p] # "voice" => pVoice' = pVoice)
    BY <1>4 DEF Save, VoicePinned
  <2>3. VoicePinned'
    BY <1>1, <1>2, <2>1, <2>2 DEF VoicePinned, Verified, Preparing
  <2> QED
    BY <1>1, <1>4, <2>2, <2>3, OverlapKeeps DEF Save, Preparing
<1>5. CASE Compare(p)
  <2>1. pAt[p] = "saved" /\ UNCHANGED <<pKey, voiceVars>>
    BY <1>5 DEF Compare
  <2>2. CASE pDraft \in {"pinned", "other"}
    <3>1. PICK step \in {"publish", "discard"} :
             Proceeds(p, step) /\ (step = "publish" => pDraft = "pinned")
      BY <1>5, <2>2 DEF Compare
    <3> QED
      BY <1>1, <2>1, <3>1, ProceedsKeeps DEF Steps0, Verified, Validated, Preparing
  <2>3. CASE pDraft \notin {"pinned", "other"}
    <3>1. Quits(p)
      BY <1>5, <2>3 DEF Compare
    <3> QED
      BY <2>1, <3>1, QuitsUnwritten
  <2> QED
    BY <2>2, <2>3
<1>6. CASE Discard(p)
  <2>1. /\ pAt[p] = "discard" /\ Quits(p) /\ UNCHANGED <<pKey, pVoice, pOverlapped>>
        /\ pFile' = [q \in Programs |-> IF pFile[q] = "draft" THEN "gone" ELSE pFile[q]]
    BY <1>6 DEF Discard
  <2>2. ~pOverlapped => \A q \in Programs : pFile[q] = "none" /\ pFile'[q] = "none"
    BY <1>2, <2>1 DEF VoicePinned, Preparing
  <2>3. ~pOverlapped => \A q \in Programs \ {p} : pAt[q] # "publish"
    BY <1>2, <2>1 DEF Preparing
  <2> QED
    BY <2>1, <2>2, <2>3, QuitsKeeps
<1>7. CASE PublishVoice(p) /\ pDraft = "absent"
  BY <1>7, QuitsUnwritten DEF PublishVoice
<1>8. CASE PublishVoice(p) /\ pDraft # "absent"
  <2>1. /\ Tables' /\ pAt'[p] = "off" /\ pToken'[p] = "none" /\ pLoaded'[p] = "none"
        /\ \A q \in Programs \ {p} : /\ pAt'[q] = pAt[q] /\ pToken'[q] = pToken[q]
                                     /\ pLoaded'[q] = pLoaded[q]
    BY <1>8, QuitsIsLocal DEF PublishVoice
  <2>2. /\ pAt[p] = "publish" /\ pKey' = pKey /\ pVoice' = pDraft /\ pOverlapped' = pOverlapped
        /\ pFile' = [q \in Programs |-> CASE pFile[q] = "draft" -> "voice"
                                          [] pFile[q] = "voice" -> "gone"
                                          [] OTHER -> pFile[q]]
    BY <1>8 DEF PublishVoice
  <2>3. ~pOverlapped => \A q \in Programs : pFile[q] = "none" /\ pFile'[q] = "none"
    BY <1>2, <2>2 DEF VoicePinned, Preparing
  <2>4. ~pOverlapped => pDraft = "pinned" /\ \A q \in Programs \ {p} : pAt[q] \notin Preparing
    BY <1>2, <2>2 DEF VoicePinned, Preparing
  <2>5. RolesKept' /\ KeyOnce'
    BY <1>1, <2>1, <2>2 DEF RolesKept, KeyOnce, Validated, Preparing
  <2>6. VoicePinned'
    BY <2>1, <2>2, <2>3, <2>4 DEF VoicePinned, Verified, Preparing
  <2> QED
    BY <2>1, <2>5, <2>6
<1> QED
  BY <1>3, <1>4, <1>5, <1>6, <1>7, <1>8

(* Every other step only moves a program forward.                           *)
LEMMA ForwardKeeps ==
    ASSUME ProvisionInv, NEW p \in Programs,
           \/ Launch(p) \/ Config(p) \/ PortProbe(p) \/ KeyExists(p)
           \/ (Validate(p) /\ Role[p] = "service") \/ LoadRuntimeConfig(p)
    PROVE  ProvisionInv'
<1> USE DEF Steps0, Verified, Validated, Preparing
<1>1. CASE Launch(p)
  <2>1. /\ Proceeds(p, FirstStep[Role[p]]) /\ UNCHANGED <<pKey, voiceVars>> /\ pAt[p] = "off"
    BY <1>1 DEF Launch
  <2>2. \/ Role[p] = "service" /\ FirstStep[Role[p]] = "config"
        \/ Role[p] = "init" /\ FirstStep[Role[p]] = "exists"
        \/ Role[p] = "gateway" /\ FirstStep[Role[p]] = "validate"
        \/ Role[p] = "monitor" /\ FirstStep[Role[p]] = "key"
        \/ Role[p] = "voice" /\ FirstStep[Role[p]] = "derive"
    BY ProvisioningAssumption DEF FirstStep
  <2> HIDE DEF FirstStep
  <2> QED
    BY <2>1, <2>2, ProceedsKeeps
<1>2. CASE Config(p)
  BY <1>2, ProceedsKeeps DEF Config, ProvisionInv, RolesKept
<1>3. CASE PortProbe(p)
  BY <1>3, ProceedsKeeps DEF PortProbe, ProvisionInv, VoicePinned
<1>4. CASE KeyExists(p)
  <2>1. PICK step \in {"create", "validate"} : Proceeds(p, step)
    BY <1>4 DEF KeyExists
  <2> QED
    BY <1>4, <2>1, ProceedsKeeps DEF KeyExists, ProvisionInv, VoicePinned
<1>5. CASE Validate(p) /\ Role[p] = "service"
  BY <1>5, ProceedsKeeps DEF Validate, ProvisionInv, VoicePinned
<1>6. CASE LoadRuntimeConfig(p)
  BY <1>6, ProceedsKeeps DEF LoadRuntimeConfig, ProvisionInv, RolesKept, KeyOnce
<1> QED
  BY <1>1, <1>2, <1>3, <1>4, <1>5, <1>6

(* Every step keeps the invariant.                                          *)
LEMMA NextProvision == ProvisionInv /\ [ProvisioningNext]_provisioningVars => ProvisionInv'
<1> SUFFICES ASSUME ProvisionInv, [ProvisioningNext]_provisioningVars PROVE ProvisionInv'
  OBVIOUS
<1>1. CASE UNCHANGED provisioningVars
  BY <1>1 DEF provisioningVars, voiceVars, programVars, ProvisionInv, Tables, RolesKept, KeyOnce,
              VoicePinned
<1>2. ASSUME NEW p \in Programs, Ended(p) PROVE ProvisionInv'
  <2>1. /\ Quits(p) /\ UNCHANGED <<pKey, pVoice, pDraft, pOverlapped>>
        /\ pFile' = [pFile EXCEPT ![p] = "none"]
    BY <1>2 DEF Ended
  <2>2. /\ DOMAIN pFile' = Programs /\ pFile'[p] = "none"
        /\ \A q \in Programs \ {p} : pFile'[q] = pFile[q]
    BY <2>1 DEF ProvisionInv, VoicePinned
  <2> QED
    BY <2>1, <2>2, QuitsKeeps
<1>3. ASSUME NEW p \in Programs, Validate(p) PROVE ProvisionInv'
  <2>1. CASE Role[p] \in {"service", "gateway"}
    BY <1>3, <2>1, ForwardKeeps, TakingKeeps
  <2>2. CASE Role[p] \notin {"service", "gateway"}
    <3>1. Quits(p) /\ UNCHANGED <<pKey, voiceVars>> /\ pAt[p] # "saving"
      BY <1>3, <2>2 DEF Validate
    <3> QED
      BY <3>1, QuitsUnwritten
  <2> QED
    BY <2>1, <2>2
<1> QED
  BY <1>1, <1>2, <1>3, ForwardKeeps, KeyFileKeeps, TakingKeeps, VoiceKeeps DEF ProvisioningNext

(* However many programs of whatever roles create, check and read the files *)
(* at once, and whichever of them die, all credentials in use agree and no  *)
(* server and no gateway uses an empty one. Until two runs of prepare-voice *)
(* have the draft at once, which nothing in the code prevents, no server    *)
(* speaks with a voice other than the pinned one (prepare_voice, init_key). *)
THEOREM ProvisioningAgrees == ProvisioningSpec => []HoldersAgree
<1>1. ProvisionInv => HoldersAgree
  <2> SUFFICES ASSUME ProvisionInv PROVE HoldersAgree
    OBVIOUS
  <2> DEFINE held == {pToken[p] : p \in Programs} \ {"none", "empty"}
  <2>1. held \subseteq {pKey}
    BY DEF ProvisionInv, KeyOnce
  <2>2. IsFiniteSet({pKey}) /\ Cardinality({pKey}) = 1
    BY FS_Singleton
  <2>3. Cardinality(held) <= 1
    BY <2>1, <2>2, FS_Subset, FS_CardinalityType
  <2> QED
    BY <2>3 DEF HoldersAgree, ProvisionInv, KeyOnce, VoicePinned
<1> QED
  BY <1>1, InitProvision, NextProvision, PTL DEF ProvisioningSpec

-----------------------------------------------------------------------------
(* TextSubdivision. Its counts, searches and joins are recursive functions,  *)
(* so what follows is proved by induction over the numbers they recur on.    *)

(* A set of natural numbers that is not empty has a least element.          *)
LEMMA LeastElement ==
    ASSUME NEW T \in SUBSET Nat, T # {}
    PROVE  \E m \in T : \A k \in T : m <= k
<1> DEFINE Below == OpToRel(<, Nat)
<1>1. IsWellFoundedOn(Below, Nat)
  BY NatLessThanWellFounded
<1>2. Below = {p \in Nat \X Nat : p[1] < p[2]}
  BY DEF OpToRel
<1> HIDE DEF Below
<1>3. PICK m \in T : \A k \in T : <<k, m>> \notin Below
  BY <1>1, WFMin
<1>4. \A k \in T : m <= k
  <2> SUFFICES ASSUME NEW k \in T PROVE m <= k
    OBVIOUS
  <2>1. m \in Nat /\ k \in Nat
    OBVIOUS
  <2>2. ~(k < m)
    BY <1>2, <1>3, <2>1
  <2> QED
    BY <2>1, <2>2
<1> QED
  BY <1>4

(* A set with 0 and every successor of its numbers holds all of them.       *)
LEMMA SetInduction ==
    ASSUME NEW T, 0 \in T, \A n \in Nat : n \in T => n + 1 \in T
    PROVE  Nat \subseteq T
<1> SUFFICES ASSUME NEW n \in Nat, n \notin T PROVE FALSE
  OBVIOUS
<1> DEFINE U == {k \in Nat : k \notin T}
<1>1. U \in SUBSET Nat /\ U # {}
  OBVIOUS
<1>2. PICK m \in U : \A k \in U : m <= k
  BY <1>1, LeastElement
<1>3. m \in Nat \ {0}
  OBVIOUS
<1>4. m - 1 \in Nat /\ ~(m <= m - 1) /\ (m - 1) + 1 = m
  BY <1>3
<1>5. m - 1 \in T
  BY <1>2, <1>4
<1> QED
  BY <1>4, <1>5

-----------------------------------------------------------------------------
(* Slices of a text.                                                        *)

(* What is between two places of a text.                                    *)
Slice(text, a, b) == SubSeq(text, a + 1, b)

(* A slice, place by place.                                                 *)
LEMMA SliceParts ==
    ASSUME NEW S, NEW text \in Seq(S)
    PROVE  \A a, b \in Nat : a <= b /\ b <= Len(text) =>
              /\ Slice(text, a, b) \in Seq(S) /\ Len(Slice(text, a, b)) = b - a
              /\ \A k \in 1 .. b - a : Slice(text, a, b)[k] = text[a + k]
<1> SUFFICES ASSUME NEW a \in Nat, NEW b \in Nat, a <= b, b <= Len(text)
             PROVE  /\ Slice(text, a, b) \in Seq(S) /\ Len(Slice(text, a, b)) = b - a
                    /\ \A k \in 1 .. b - a : Slice(text, a, b)[k] = text[a + k]
  OBVIOUS
<1>1. \A k \in a + 1 .. b : text[k] \in S
  <2>1. Len(text) \in Nat
    BY LenProperties
  <2>2. \A k \in a + 1 .. b : k \in 1 .. Len(text)
    BY <2>1
  <2> QED
    BY <2>2, ElementOfSeq
<1>2. /\ SubSeq(text, a + 1, b) \in Seq(S)
      /\ Len(SubSeq(text, a + 1, b)) = IF a + 1 <= b THEN b - (a + 1) + 1 ELSE 0
      /\ \A k \in 1 .. b - (a + 1) + 1 : SubSeq(text, a + 1, b)[k] = text[a + 1 + k - 1]
  BY <1>1, SubSeqProperties
<1>3. (IF a + 1 <= b THEN b - (a + 1) + 1 ELSE 0) = b - a /\ b - (a + 1) + 1 = b - a
  OBVIOUS
<1>4. ASSUME NEW k \in 1 .. b - a
      PROVE  SubSeq(text, a + 1, b)[k] = text[a + k]
  BY <1>2, <1>3
<1> QED
  BY <1>2, <1>3, <1>4 DEF Slice

(* A slice of no length.                                                    *)
LEMMA EmptySlice ==
    ASSUME NEW S, NEW text \in Seq(S), NEW a \in Nat, a <= Len(text)
    PROVE  Slice(text, a, a) = << >>
<1>1. a <= a /\ a - a = 0
  OBVIOUS
<1>2. Slice(text, a, a) \in Seq(S) /\ Len(Slice(text, a, a)) = a - a
  BY <1>1, SliceParts
<1> QED
  BY <1>1, <1>2, EmptySeq, SeqEqual

(* Two slices, one behind the other, are one.                               *)
LEMMA SliceJoin ==
    ASSUME NEW S, NEW text \in Seq(S)
    PROVE  \A a, b, c \in Nat : a <= b /\ b <= c /\ c <= Len(text) =>
              Slice(text, a, b) \o Slice(text, b, c) = Slice(text, a, c)
<1> SUFFICES ASSUME NEW a \in Nat, NEW b \in Nat, NEW c \in Nat,
                    a <= b, b <= c, c <= Len(text)
             PROVE  Slice(text, a, b) \o Slice(text, b, c) = Slice(text, a, c)
  OBVIOUS
<1> DEFINE s == Slice(text, a, b)
           t == Slice(text, b, c)
           u == Slice(text, a, c)
<1>1. Len(text) \in Nat /\ b <= Len(text) /\ a <= c
  BY LenProperties
<1>2. /\ s \in Seq(S) /\ Len(s) = b - a /\ \A k \in 1 .. b - a : s[k] = text[a + k]
      /\ t \in Seq(S) /\ Len(t) = c - b /\ \A k \in 1 .. c - b : t[k] = text[b + k]
      /\ u \in Seq(S) /\ Len(u) = c - a /\ \A k \in 1 .. c - a : u[k] = text[a + k]
  <2> HIDE DEF s, t, u
  <2>1. s \in Seq(S) /\ Len(s) = b - a /\ \A k \in 1 .. b - a : s[k] = text[a + k]
    BY <1>1, SliceParts DEF s
  <2>2. t \in Seq(S) /\ Len(t) = c - b /\ \A k \in 1 .. c - b : t[k] = text[b + k]
    BY <1>1, SliceParts DEF t
  <2>3. u \in Seq(S) /\ Len(u) = c - a /\ \A k \in 1 .. c - a : u[k] = text[a + k]
    BY <1>1, SliceParts DEF u
  <2> QED
    BY <2>1, <2>2, <2>3
<1> HIDE DEF s, t, u
<1>3. /\ s \o t \in Seq(S) /\ Len(s \o t) = c - a
      /\ \A k \in 1 .. c - a : (s \o t)[k] = IF k <= b - a THEN s[k] ELSE t[k - (b - a)]
  <2>1. (b - a) + (c - b) = c - a
    OBVIOUS
  <2> QED
    BY <1>2, <2>1, ConcatProperties, SMTT(30)
<1>4. ASSUME NEW k \in 1 .. c - a PROVE (s \o t)[k] = u[k]
  <2>1. CASE k <= b - a
    <3>1. k \in 1 .. b - a
      BY <2>1
    <3>2. s[k] = text[a + k] /\ u[k] = text[a + k]
      BY <1>2, <3>1
    <3>3. (s \o t)[k] = s[k]
      BY <1>3, <2>1
    <3> QED
      BY <3>2, <3>3
  <2>2. CASE ~(k <= b - a)
    <3>1. k - (b - a) \in 1 .. c - b /\ b + (k - (b - a)) = a + k
      BY <2>2
    <3>2. t[k - (b - a)] = text[b + (k - (b - a))]
      BY <1>2, <3>1
    <3> QED
      BY <1>2, <1>3, <2>2, <3>1, <3>2
  <2> QED
    BY <2>1, <2>2
<1>5. s \o t = u
  BY <1>2, <1>3, <1>4, SeqEqual
<1> QED
  BY <1>5 DEF s, t, u

(* A slice of a slice is a slice.                                           *)
LEMMA SliceOfSlice ==
    ASSUME NEW S, NEW text \in Seq(S), NEW a \in Nat, NEW b \in Nat, a <= b, b <= Len(text),
           NEW c \in Nat, NEW d \in Nat, c <= d, d <= b - a
    PROVE  Slice(Slice(text, a, b), c, d) = Slice(text, a + c, a + d)
<1> DEFINE s == Slice(text, a, b)
           t == Slice(s, c, d)
           u == Slice(text, a + c, a + d)
<1>1. /\ Len(text) \in Nat /\ a + c \in Nat /\ a + d \in Nat /\ a + c <= a + d
      /\ a + d <= Len(text) /\ (a + d) - (a + c) = d - c
  BY LenProperties
<1>2. s \in Seq(S) /\ Len(s) = b - a /\ \A k \in 1 .. b - a : s[k] = text[a + k]
  BY SliceParts
<1>3. u \in Seq(S) /\ Len(u) = d - c /\ \A k \in 1 .. d - c : u[k] = text[a + c + k]
  <2> DEFINE e == a + c
             f == a + d
  <2>1. e \in Nat /\ f \in Nat /\ e <= f /\ f <= Len(text)
    BY <1>1
  <2> HIDE DEF s, t, e, f
  <2>2. /\ Slice(text, e, f) \in Seq(S) /\ Len(Slice(text, e, f)) = f - e
        /\ \A k \in 1 .. f - e : Slice(text, e, f)[k] = text[e + k]
    BY <2>1, SliceParts
  <2> QED
    BY <1>1, <2>2 DEF e, f, u
<1> HIDE DEF s, t, u
<1>4. t \in Seq(S) /\ Len(t) = d - c /\ \A k \in 1 .. d - c : t[k] = s[c + k]
  <2>1. s \in Seq(S) /\ d <= Len(s)
    BY <1>2
  <2>2. \A k, l \in Nat : k <= l /\ l <= Len(s) =>
           /\ Slice(s, k, l) \in Seq(S) /\ Len(Slice(s, k, l)) = l - k
           /\ \A n \in 1 .. l - k : Slice(s, k, l)[n] = s[k + n]
    BY <2>1, SliceParts
  <2> QED
    BY <2>1, <2>2 DEF t
<1>5. ASSUME NEW k \in 1 .. d - c PROVE t[k] = u[k]
  <2>1. c + k \in 1 .. b - a /\ a + (c + k) = a + c + k
    OBVIOUS
  <2>2. s[c + k] = text[a + (c + k)]
    BY <1>2, <2>1
  <2> QED
    BY <1>3, <1>4, <2>1, <2>2
<1>6. t = u
  BY <1>3, <1>4, <1>5, SeqEqual
<1> QED
  BY <1>6 DEF s, t, u

(* A slice and the next character.                                          *)
LEMMA SliceAppend ==
    ASSUME NEW S, NEW text \in Seq(S), NEW a \in Nat, NEW b \in Nat, a <= b, b < Len(text)
    PROVE  Append(Slice(text, a, b), text[b + 1]) = Slice(text, a, b + 1)
<1> DEFINE s == Slice(text, a, b)
           u == Slice(text, a, b + 1)
<1>1. /\ Len(text) \in Nat /\ b <= Len(text) /\ a <= b + 1 /\ b + 1 <= Len(text) /\ b + 1 \in Nat
      /\ b + 1 \in 1 .. Len(text)
  BY LenProperties
<1>2. /\ s \in Seq(S) /\ Len(s) = b - a /\ \A k \in 1 .. b - a : s[k] = text[a + k]
      /\ u \in Seq(S) /\ Len(u) = b + 1 - a /\ \A k \in 1 .. b + 1 - a : u[k] = text[a + k]
  <2> HIDE DEF s, u
  <2>1. s \in Seq(S) /\ Len(s) = b - a /\ \A k \in 1 .. b - a : s[k] = text[a + k]
    BY <1>1, SliceParts DEF s
  <2>2. u \in Seq(S) /\ Len(u) = b + 1 - a /\ \A k \in 1 .. b + 1 - a : u[k] = text[a + k]
    <3> DEFINE c == b + 1
    <3>1. c \in Nat /\ a <= c /\ c <= Len(text)
      BY <1>1
    <3> HIDE DEF c
    <3>2. /\ Slice(text, a, c) \in Seq(S) /\ Len(Slice(text, a, c)) = c - a
          /\ \A k \in 1 .. c - a : Slice(text, a, c)[k] = text[a + k]
      BY <3>1, SliceParts
    <3> QED
      BY <3>2 DEF c, u
  <2> QED
    BY <2>1, <2>2
<1>3. text[b + 1] \in S
  BY <1>1, ElementOfSeq
<1> HIDE DEF s, u
<1>4. /\ Append(s, text[b + 1]) \in Seq(S) /\ Len(Append(s, text[b + 1])) = b - a + 1
      /\ \A k \in 1 .. b - a : Append(s, text[b + 1])[k] = s[k]
      /\ Append(s, text[b + 1])[b - a + 1] = text[b + 1]
  <2> DEFINE x == text[b + 1]
  <2> HIDE DEF x
  <2>1. x \in S /\ s \in Seq(S)
    BY <1>2, <1>3 DEF x
  <2>2. /\ Append(s, x) \in Seq(S) /\ Len(Append(s, x)) = Len(s) + 1
        /\ \A k \in 1 .. Len(s) : Append(s, x)[k] = s[k]
        /\ Append(s, x)[Len(s) + 1] = x
    BY <2>1, AppendProperties
  <2> QED
    BY <1>2, <2>2 DEF x
<1>5. ASSUME NEW k \in 1 .. b - a + 1 PROVE Append(s, text[b + 1])[k] = u[k]
  <2>1. k \in 1 .. b + 1 - a
    OBVIOUS
  <2>2. CASE k \in 1 .. b - a
    BY <1>2, <1>4, <2>1, <2>2
  <2>3. CASE k = b - a + 1
    <3>1. a + k = b + 1
      BY <2>3
    <3> QED
      BY <1>2, <1>4, <2>1, <2>3, <3>1
  <2>4. k \in 1 .. b - a \/ k = b - a + 1
    OBVIOUS
  <2> QED
    BY <2>2, <2>3, <2>4
<1>6. b + 1 - a = b - a + 1
  OBVIOUS
<1>7. Append(s, text[b + 1]) = u
  BY <1>2, <1>4, <1>5, <1>6, SeqEqual
<1> QED
  BY <1>7 DEF s, u

(* The pieces between the places e[0], e[1], ... of a text.                 *)
Pieces(text, parts, e) ==
    /\ e \in [0 .. Len(parts) -> 0 .. Len(text)]
    /\ \A n \in 1 .. Len(parts) : e[n - 1] <= e[n] /\ parts[n] = Slice(text, e[n - 1], e[n])

(* The places only grow.                                                    *)
LEMMA PiecesOrdered ==
    ASSUME NEW S, NEW text \in Seq(S), NEW R, NEW parts \in Seq(R), NEW e, Pieces(text, parts, e)
    PROVE  \A n, m \in 0 .. Len(parts) : n <= m => e[n] <= e[m]
<1>1. Len(parts) \in Nat /\ Len(text) \in Nat
  BY LenProperties
<1>2. \A n \in 0 .. Len(parts) : e[n] \in Nat
  BY <1>1 DEF Pieces
<1> DEFINE T == {d \in Nat : \A n \in 0 .. Len(parts) :
                                n + d <= Len(parts) => e[n] <= e[n + d]}
<1>3. 0 \in T
  BY <1>1, <1>2
<1>4. ASSUME NEW d \in Nat, d \in T PROVE d + 1 \in T
  <2> SUFFICES ASSUME NEW n \in 0 .. Len(parts), n + (d + 1) <= Len(parts)
               PROVE  e[n] <= e[n + (d + 1)]
    OBVIOUS
  <2>1. /\ n + d \in 0 .. Len(parts) /\ n + d <= Len(parts)
        /\ n + (d + 1) \in 1 .. Len(parts) /\ (n + (d + 1)) - 1 = n + d
    BY <1>1
  <2>2. e[n] <= e[n + d]
    BY <1>4, <2>1
  <2>3. e[(n + (d + 1)) - 1] <= e[n + (d + 1)]
    BY <2>1 DEF Pieces
  <2>4. e[n] \in Nat /\ e[n + d] \in Nat /\ e[n + (d + 1)] \in Nat
    BY <1>2, <2>1
  <2> QED
    BY <2>1, <2>2, <2>3, <2>4
<1> HIDE DEF T
<1>5. Nat \subseteq T
  BY <1>3, <1>4, SetInduction
<1>6. ASSUME NEW n \in 0 .. Len(parts), NEW m \in 0 .. Len(parts), n <= m PROVE e[n] <= e[m]
  <2>1. m - n \in Nat /\ n + (m - n) = m
    BY <1>1, <1>6
  <2>2. m - n \in T
    BY <1>5, <2>1
  <2>3. n + (m - n) <= Len(parts) => e[n] <= e[n + (m - n)]
    BY <2>2 DEF T
  <2> QED
    BY <1>1, <2>1, <2>3
<1> QED
  BY <1>6

(* One behind the other, the pieces are the text between the first and the  *)
(* last of the places.                                                      *)
LEMMA PiecesFlattened ==
    ASSUME NEW S, NEW text \in Seq(S), NEW R, NEW parts \in Seq(R), NEW e, Pieces(text, parts, e)
    PROVE  FlattenSeq(parts) = Slice(text, e[0], e[Len(parts)])
<1> DEFINE m == Len(parts)
<1>1. /\ m \in Nat /\ Len(text) \in Nat
      /\ \A n \in 0 .. m : e[n] \in Nat /\ e[n] <= Len(text) /\ e[0] <= e[n]
  <2>1. m \in Nat /\ Len(text) \in Nat
    BY LenProperties
  <2>2. e \in [0 .. m -> 0 .. Len(text)]
    BY DEF Pieces
  <2> HIDE DEF m
  <2>3. \A n \in 0 .. m : e[n] \in Nat /\ e[n] <= Len(text)
    BY <2>1, <2>2
  <2>4. \A n \in 0 .. m : e[0] <= e[n]
    BY <2>1, PiecesOrdered DEF m
  <2> QED
    BY <2>1, <2>3, <2>4
<1>2. CASE m = 0
  <2>1. parts = << >>
    BY <1>2, EmptySeq, SeqEqual
  <2>2. FlattenSeq(parts) = << >>
    BY <1>2, <2>1 DEF FlattenSeq
  <2>3. Slice(text, e[0], e[0]) = << >>
    <3> DEFINE a == e[0]
    <3>1. a \in Nat /\ a <= Len(text)
      BY <1>1
    <3> HIDE DEF a
    <3>2. Slice(text, a, a) = << >>
      BY <3>1, EmptySlice
    <3> QED
      BY <3>2 DEF a
  <2> QED
    BY <1>2, <2>2, <2>3
<1>3. CASE m # 0
  <2> DEFINE Joins(f) == f = [n \in 1 .. m |->
                                IF n = 1 THEN parts[n] ELSE f[n - 1] \o parts[n]]
             f0 == [n \in 1 .. m |-> Slice(text, e[0], e[n])]
  <2> HIDE DEF m
  <2>1. ASSUME NEW n \in 1 .. m
        PROVE  /\ e[n - 1] \in Nat /\ e[n - 1] <= e[n] /\ e[0] <= e[n - 1]
               /\ parts[n] = Slice(text, e[n - 1], e[n])
               /\ e[n] \in Nat /\ e[n] <= Len(text) /\ e[0] \in Nat
    <3>1. n - 1 \in 0 .. m /\ n \in 0 .. m /\ 0 \in 0 .. m
      BY <1>1
    <3>2. e[n - 1] <= e[n] /\ parts[n] = Slice(text, e[n - 1], e[n])
      BY DEF Pieces, m
    <3> QED
      BY <1>1, <3>1, <3>2
  <2>2. ASSUME NEW n \in 1 .. m
        PROVE  Slice(text, e[0], e[n]) =
                  IF n = 1 THEN parts[n] ELSE Slice(text, e[0], e[n - 1]) \o parts[n]
    <3>1. CASE n = 1
      BY <2>1, <3>1
    <3>2. CASE n # 1
      <4> DEFINE x == e[0]  y == e[n - 1]  z == e[n]
      <4>1. x \in Nat /\ y \in Nat /\ z \in Nat /\ x <= y /\ y <= z /\ z <= Len(text)
        BY <2>1
      <4> HIDE DEF x, y, z
      <4>2. Slice(text, x, y) \o Slice(text, y, z) = Slice(text, x, z)
        BY <4>1, SliceJoin
      <4> QED
        BY <2>1, <3>2, <4>2 DEF x, y, z
    <3> QED
      BY <3>1, <3>2
  <2>3. Joins(f0)
    <3>1. \A n \in 1 .. m : n # 1 => n - 1 \in 1 .. m
      BY <1>1
    <3> QED
      BY <2>2, <3>1
  <2> DEFINE f1 == CHOOSE f : Joins(f)
  <2>4. Joins(f1)
    <3> HIDE DEF Joins, f0
    <3> QED
      BY <2>3
  <2>5. FlattenSeq(parts) = f1[m]
    BY <1>3 DEF FlattenSeq, m
  <2> HIDE DEF f1, f0
  <2>6. \A n \in 1 .. m : f1[n] = IF n = 1 THEN parts[n] ELSE f1[n - 1] \o parts[n]
    BY <2>4
  <2> HIDE DEF Joins
  <2> DEFINE T == {d \in Nat : d + 1 \in 1 .. m => f1[d + 1] = Slice(text, e[0], e[d + 1])}
  <2>7. 0 \in T
    BY <2>2, <2>6
  <2>8. ASSUME NEW d \in Nat, d \in T PROVE d + 1 \in T
    <3> SUFFICES ASSUME (d + 1) + 1 \in 1 .. m
                 PROVE  f1[(d + 1) + 1] = Slice(text, e[0], e[(d + 1) + 1])
      OBVIOUS
    <3>1. d + 1 \in 1 .. m /\ (d + 1) + 1 # 1 /\ ((d + 1) + 1) - 1 = d + 1
      BY <1>1
    <3>2. f1[d + 1] = Slice(text, e[0], e[d + 1])
      BY <2>8, <3>1
    <3>3. f1[(d + 1) + 1] = f1[((d + 1) + 1) - 1] \o parts[(d + 1) + 1]
      BY <2>6, <3>1
    <3>4. Slice(text, e[0], e[(d + 1) + 1]) =
             Slice(text, e[0], e[((d + 1) + 1) - 1]) \o parts[(d + 1) + 1]
      BY <2>2, <3>1
    <3> QED
      BY <3>1, <3>2, <3>3, <3>4
  <2> HIDE DEF T
  <2>9. m - 1 \in Nat /\ (m - 1) + 1 = m /\ m \in 1 .. m
    BY <1>1, <1>3
  <2>10. m - 1 \in T
    BY <2>7, <2>8, <2>9, SetInduction
  <2>11. f1[m] = Slice(text, e[0], e[m])
    BY <2>9, <2>10 DEF T
  <2> QED
    BY <2>5, <2>11 DEF m
<1> QED
  BY <1>2, <1>3

(* So are those behind the n-th.                                            *)
LEMMA LaterPieces ==
    ASSUME NEW S, NEW text \in Seq(S), NEW R, NEW parts \in Seq(R), NEW e, Pieces(text, parts, e),
           NEW n \in 0 .. Len(parts)
    PROVE  FlattenSeq(SubSeq(parts, n + 1, Len(parts))) = Slice(text, e[n], e[Len(parts)])
<1> DEFINE later == Slice(parts, n, Len(parts))
           d == [k \in 0 .. Len(parts) - n |-> e[n + k]]
<1>1. Len(parts) \in Nat /\ n \in Nat /\ n <= Len(parts) /\ Len(parts) <= Len(parts)
  BY LenProperties
<1>2. /\ later \in Seq(R) /\ Len(later) = Len(parts) - n
      /\ \A k \in 1 .. Len(parts) - n : later[k] = parts[n + k]
  BY <1>1, SliceParts
<1> HIDE DEF later
<1>3. d \in [0 .. Len(later) -> 0 .. Len(text)]
  <2>1. \A k \in 0 .. Len(parts) - n : n + k \in 0 .. Len(parts)
    BY <1>1
  <2> QED
    BY <1>2, <2>1 DEF Pieces
<1>4. ASSUME NEW k \in 1 .. Len(later)
      PROVE  d[k - 1] <= d[k] /\ later[k] = Slice(text, d[k - 1], d[k])
  <2>1. /\ n + k \in 1 .. Len(parts) /\ k - 1 \in 0 .. Len(parts) - n /\ k \in 0 .. Len(parts) - n
        /\ n + (k - 1) = (n + k) - 1
    BY <1>1, <1>2
  <2>2. e[(n + k) - 1] <= e[n + k] /\ parts[n + k] = Slice(text, e[(n + k) - 1], e[n + k])
    BY <2>1 DEF Pieces
  <2> QED
    BY <1>2, <2>1, <2>2
<1>5. d[0] = e[n] /\ d[Len(later)] = e[Len(parts)]
  BY <1>1, <1>2
<1> HIDE DEF d
<1>6. Pieces(text, later, d)
  BY <1>3, <1>4 DEF Pieces
<1>7. FlattenSeq(later) = Slice(text, d[0], d[Len(later)])
  BY <1>2, <1>6, PiecesFlattened
<1> QED
  BY <1>5, <1>7 DEF later, Slice

-----------------------------------------------------------------------------
(* Units.                                                                   *)

Plain(text) == \A n \in DOMAIN text : text[n] # "wide"

(* The places at which a token starts.                                      *)
UnitStarts(text) == {n \in DOMAIN text : ~(n > 1 /\ text[n] = "letter" /\ text[n - 1] = "letter")}

(* No character is more than one unit where none is wide.                   *)
LEMMA UnitsOfPlain ==
    ASSUME NEW text \in Seq(Characters), Plain(text)
    PROVE  /\ Tokens(text) = Cardinality(UnitStarts(text)) /\ Tokens(text) \in Nat
           /\ IsFiniteSet(UnitStarts(text)) /\ Tokens(text) <= Len(text)
           /\ UnitCount(text) \in Nat /\ UnitCount(text) <= Len(text)
<1>1. Len(text) \in Nat /\ DOMAIN text = 1 .. Len(text)
  BY LenProperties
<1>2. IsFiniteSet(1 .. Len(text)) /\ Cardinality(1 .. Len(text)) = Len(text)
  <2>1. IsFiniteSet(1 .. Len(text))
        /\ Cardinality(1 .. Len(text)) = IF 1 > Len(text) THEN 0 ELSE Len(text) - 1 + 1
    BY <1>1, FS_Interval
  <2> QED
    BY <1>1, <2>1
<1>3. UnitStarts(text) \subseteq 1 .. Len(text)
  BY <1>1 DEF UnitStarts
<1>4. /\ IsFiniteSet(UnitStarts(text)) /\ Cardinality(UnitStarts(text)) \in Nat
      /\ Cardinality(UnitStarts(text)) <= Len(text)
  BY <1>2, <1>3, FS_Subset, FS_CardinalityType
<1>5. {n \in DOMAIN text : text[n] = "wide"} = {}
  BY DEF Plain
<1>6. Tokens(text) = Cardinality(UnitStarts(text)) + (WideTokens - 1) * Cardinality({})
  BY <1>5 DEF Tokens, UnitStarts
<1>7. (WideTokens - 1) * Cardinality({}) = 0
  BY FS_EmptySet, SubdivisionAssumption
<1>8. Tokens(text) = Cardinality(UnitStarts(text))
  BY <1>4, <1>6, <1>7
<1> QED
  BY <1>1, <1>4, <1>8 DEF UnitCount

(* A slice of a plain text is one.                                          *)
LEMMA PlainSlice ==
    ASSUME NEW text \in Seq(Characters), Plain(text), NEW a \in Nat, NEW b \in Nat,
           a <= b, b <= Len(text)
    PROVE  Slice(text, a, b) \in Seq(Characters) /\ Plain(Slice(text, a, b))
<1>1. Len(text) \in Nat /\ DOMAIN text = 1 .. Len(text)
  BY LenProperties
<1>2. /\ Slice(text, a, b) \in Seq(Characters) /\ Len(Slice(text, a, b)) = b - a
      /\ \A k \in 1 .. b - a : Slice(text, a, b)[k] = text[a + k]
  BY SliceParts
<1>3. DOMAIN Slice(text, a, b) = 1 .. b - a
  BY <1>2, LenProperties
<1>4. \A k \in 1 .. b - a : a + k \in DOMAIN text
  BY <1>1
<1> QED
  BY <1>2, <1>3, <1>4 DEF Plain

(* A longer prefix has no fewer units, also when the units change with its  *)
(* first Chinese character.                                                 *)
LEMMA UnitsGrow ==
    ASSUME NEW text \in Seq(Characters), Plain(text), NEW m \in Nat, NEW n \in Nat,
           m <= n, n <= Len(text)
    PROVE  UnitCount(Slice(text, 0, m)) <= UnitCount(Slice(text, 0, n))
<1> DEFINE p == Slice(text, 0, m)
           q == Slice(text, 0, n)
<1>1. Len(text) \in Nat /\ m <= Len(text) /\ 0 \in Nat /\ 0 <= m /\ 0 <= n
  BY LenProperties
<1>2. p \in Seq(Characters) /\ Plain(p) /\ Len(p) = m /\ \A k \in 1 .. m : p[k] = text[k]
  <2>1. /\ p \in Seq(Characters) /\ Len(p) = m - 0
        /\ \A k \in 1 .. m - 0 : p[k] = text[0 + k]
    BY <1>1, SliceParts
  <2>2. Plain(p)
    BY <1>1, PlainSlice
  <2> HIDE DEF p
  <2> QED
    BY <2>1, <2>2
<1>3. q \in Seq(Characters) /\ Plain(q) /\ Len(q) = n /\ \A k \in 1 .. n : q[k] = text[k]
  <2>1. /\ q \in Seq(Characters) /\ Len(q) = n - 0
        /\ \A k \in 1 .. n - 0 : q[k] = text[0 + k]
    BY <1>1, SliceParts
  <2>2. Plain(q)
    BY <1>1, PlainSlice
  <2> HIDE DEF q
  <2> QED
    BY <2>1, <2>2
<1> HIDE DEF p, q
<1>4. DOMAIN p = 1 .. m /\ DOMAIN q = 1 .. n /\ \A k \in 1 .. m : p[k] = q[k] /\ k \in 1 .. n
  <2>1. DOMAIN p = 1 .. m /\ DOMAIN q = 1 .. n
    BY <1>2, <1>3, LenProperties
  <2>2. \A k \in 1 .. m : k \in 1 .. n
    OBVIOUS
  <2> QED
    BY <1>2, <1>3, <2>1, <2>2
<1>5. /\ Tokens(p) = Cardinality(UnitStarts(p)) /\ Tokens(p) \in Nat /\ Tokens(p) <= m
      /\ Tokens(q) = Cardinality(UnitStarts(q)) /\ Tokens(q) \in Nat /\ IsFiniteSet(UnitStarts(q))
  BY <1>2, <1>3, UnitsOfPlain
<1>6. UnitStarts(p) \subseteq UnitStarts(q)
  <2> SUFFICES ASSUME NEW k \in UnitStarts(p) PROVE k \in UnitStarts(q)
    OBVIOUS
  <2>1. k \in 1 .. m /\ ~(k > 1 /\ p[k] = "letter" /\ p[k - 1] = "letter")
    BY <1>4 DEF UnitStarts
  <2>2. k > 1 => k - 1 \in 1 .. m
    BY <2>1
  <2> QED
    BY <1>4, <2>1, <2>2 DEF UnitStarts
<1>7. Tokens(p) <= Tokens(q)
  BY <1>5, <1>6, FS_Subset
<1>8. CASE \E k \in DOMAIN q : q[k] = "han"
  <2>1. UnitCount(q) = n
    BY <1>3, <1>8 DEF UnitCount
  <2>2. UnitCount(p) <= m /\ UnitCount(p) \in Nat
    BY <1>2, UnitsOfPlain
  <2> QED
    BY <2>1, <2>2 DEF p, q
<1>9. CASE ~(\E k \in DOMAIN q : q[k] = "han")
  <2>1. ~(\E k \in DOMAIN p : p[k] = "han")
    BY <1>4, <1>9
  <2>2. UnitCount(p) = Tokens(p) /\ UnitCount(q) = Tokens(q)
    BY <1>9, <2>1 DEF UnitCount
  <2> QED
    BY <1>7, <2>2 DEF p, q
<1> QED
  BY <1>8, <1>9

-----------------------------------------------------------------------------
(* The binary search.                                                       *)

Searches(text) == [low : 1 .. Len(text) + 1, high : 0 .. Len(text), longest : 0 .. Len(text)]
Middle(s) == (s.low + s.high) \div 2
Fits(text, n) == UnitCount(SubSeq(text, 1, n)) <= UnitLimit

Upper(s) == [low |-> Middle(s) + 1, high |-> s.high, longest |-> Middle(s)]
Lower(s) == [low |-> s.low, high |-> Middle(s) - 1, longest |-> s.longest]

(* The search f goes on in one of the halves.                               *)
Halves(text, f, s) ==
    IF s.low > s.high THEN s.longest
    ELSE IF Fits(text, Middle(s)) THEN f[Upper(s)] ELSE f[Lower(s)]

Solves(text, f) == f = [s \in Searches(text) |-> Halves(text, f, s)]

(* What is left of a search gets smaller.                                   *)
LEMMA HalvesShrink ==
    ASSUME NEW text \in Seq(Characters), NEW s \in Searches(text)
    PROVE  /\ s.low \in 1 .. Len(text) + 1 /\ s.high \in 0 .. Len(text)
           /\ s.longest \in 0 .. Len(text) /\ Len(text) \in Nat
           /\ s.low <= s.high =>
                /\ Middle(s) \in s.low .. s.high /\ Middle(s) \in 1 .. Len(text)
                /\ Upper(s) \in Searches(text) /\ Lower(s) \in Searches(text)
                /\ Upper(s).high - Upper(s).low < s.high - s.low
                /\ Lower(s).high - Lower(s).low < s.high - s.low
<1>1. /\ s.low \in 1 .. Len(text) + 1 /\ s.high \in 0 .. Len(text)
      /\ s.longest \in 0 .. Len(text) /\ Len(text) \in Nat
  BY LenProperties DEF Searches
<1>2. ASSUME s.low <= s.high
      PROVE  /\ Middle(s) \in s.low .. s.high /\ Middle(s) \in 1 .. Len(text)
             /\ Upper(s) \in Searches(text) /\ Lower(s) \in Searches(text)
             /\ Upper(s).high - Upper(s).low < s.high - s.low
             /\ Lower(s).high - Lower(s).low < s.high - s.low
  <2> DEFINE low == s.low  high == s.high  middle == Middle(s)
  <2>1. middle = (low + high) \div 2
    BY DEF Middle
  <2> HIDE DEF low, high, middle
  <2>2. /\ low \in 1 .. Len(text) + 1 /\ high \in 0 .. Len(text) /\ low <= high
    BY <1>1, <1>2 DEF low, high
  <2>3. middle \in Int /\ low <= middle /\ middle <= high
    BY <1>1, <2>1, <2>2
  <2>4. Upper(s) \in Searches(text) /\ Upper(s).high = high /\ Upper(s).low = middle + 1
    <3>1. middle + 1 \in 1 .. Len(text) + 1 /\ middle \in 0 .. Len(text)
      BY <1>1, <2>2, <2>3
    <3> QED
      BY <2>2, <3>1 DEF Upper, Searches, high, middle
  <2>5. Lower(s) \in Searches(text) /\ Lower(s).high = middle - 1 /\ Lower(s).low = low
    <3>1. middle - 1 \in 0 .. Len(text)
      BY <1>1, <2>2, <2>3
    <3> QED
      BY <1>1, <3>1 DEF Lower, Searches, low, middle
  <2>6. middle \in low .. high /\ middle \in 1 .. Len(text)
    BY <1>1, <2>2, <2>3
  <2>7. /\ Upper(s).high - Upper(s).low < high - low
        /\ Lower(s).high - Lower(s).low < high - low
    BY <1>1, <2>2, <2>3, <2>4, <2>5
  <2> QED
    BY <2>4, <2>5, <2>6, <2>7 DEF low, high, middle
<1> QED
  BY <1>1, <1>2

(* The recursion has a solution.                                            *)
LEMMA SearchExists ==
    ASSUME NEW text \in Seq(Characters)
    PROVE  \E f : Solves(text, f)
<1> DEFINE Good(f, d) == \A s \in Searches(text) :
                            s.high - s.low < d => f[s] = Halves(text, f, s)
           T == {d \in Nat : \E f : Good(f, d)}
<1>1. 0 \in T
  <2> DEFINE f == [s \in Searches(text) |-> s.longest]
  <2>1. ASSUME NEW s \in Searches(text), s.high - s.low < 0 PROVE f[s] = Halves(text, f, s)
    <3>1. s.low > s.high
      BY <2>1, HalvesShrink
    <3> QED
      BY <3>1 DEF Halves
  <2> HIDE DEF f
  <2>2. Good(f, 0)
    BY <2>1
  <2> QED
    BY <2>2
<1>2. ASSUME NEW d \in Nat, d \in T PROVE d + 1 \in T
  <2>1. PICK f : Good(f, d)
    BY <1>2
  <2> DEFINE g == [s \in Searches(text) |-> Halves(text, f, s)]
  <2>2. \A s \in Searches(text) : g[s] = Halves(text, f, s)
    OBVIOUS
  <2> HIDE DEF g
  <2>3. ASSUME NEW s \in Searches(text), s.high - s.low < d PROVE g[s] = f[s]
    BY <2>1, <2>2, <2>3
  <2>4. ASSUME NEW s \in Searches(text), s.high - s.low < d + 1
        PROVE  Halves(text, g, s) = Halves(text, f, s)
    <3>1. CASE s.low > s.high
      BY <3>1 DEF Halves
    <3>2. CASE ~(s.low > s.high)
      <4>1. s.low <= s.high
        BY <3>2, HalvesShrink
      <4>2. /\ Upper(s) \in Searches(text) /\ Lower(s) \in Searches(text)
            /\ Upper(s).high - Upper(s).low < d /\ Lower(s).high - Lower(s).low < d
        <5>1. /\ Upper(s) \in Searches(text) /\ Lower(s) \in Searches(text)
              /\ Upper(s).high - Upper(s).low < s.high - s.low
              /\ Lower(s).high - Lower(s).low < s.high - s.low
          BY <4>1, HalvesShrink
        <5>2. /\ s.high \in Int /\ s.low \in Int /\ Upper(s).high \in Int /\ Upper(s).low \in Int
              /\ Lower(s).high \in Int /\ Lower(s).low \in Int
          BY <5>1, HalvesShrink
        <5> QED
          BY <2>4, <5>1, <5>2
      <4>3. g[Upper(s)] = f[Upper(s)] /\ g[Lower(s)] = f[Lower(s)]
        BY <2>3, <4>2
      <4> QED
        BY <4>3 DEF Halves
    <3> QED
      BY <3>1, <3>2
  <2>5. Good(g, d + 1)
    BY <2>2, <2>4
  <2> QED
    BY <2>5
<1> HIDE DEF T
<1>3. Len(text) + 1 \in Nat
  BY LenProperties
<1>4. Len(text) + 1 \in T
  BY <1>1, <1>2, <1>3, SetInduction
<1>5. PICK f : Good(f, Len(text) + 1)
  BY <1>4 DEF T
<1> DEFINE g == [s \in Searches(text) |-> Halves(text, f, s)]
<1>6. \A s \in Searches(text) : s.high - s.low < Len(text) + 1
  BY HalvesShrink
<1>7. \A s \in Searches(text) : g[s] = f[s]
  BY <1>5, <1>6
<1>8. \A s \in Searches(text) : Halves(text, g, s) = Halves(text, f, s)
  <2> HIDE DEF g
  <2> SUFFICES ASSUME NEW s \in Searches(text)
               PROVE  Halves(text, g, s) = Halves(text, f, s)
    OBVIOUS
  <2>1. CASE s.low > s.high
    BY <2>1 DEF Halves
  <2>2. CASE ~(s.low > s.high)
    <3>1. s.low <= s.high
      BY <2>2, HalvesShrink
    <3>2. Upper(s) \in Searches(text) /\ Lower(s) \in Searches(text)
      BY <3>1, HalvesShrink
    <3>3. g[Upper(s)] = f[Upper(s)] /\ g[Lower(s)] = f[Lower(s)]
      BY <1>7, <3>2
    <3> QED
      BY <3>3 DEF Halves
  <2> QED
    BY <2>1, <2>2
<1>9. g = [s \in Searches(text) |-> Halves(text, g, s)]
  <2> DEFINE k == [s \in Searches(text) |-> Halves(text, g, s)]
  <2>1. \A s \in Searches(text) : g[s] = Halves(text, f, s)
    OBVIOUS
  <2>2. DOMAIN g = Searches(text) /\ g = [s \in DOMAIN g |-> g[s]]
    OBVIOUS
  <2> HIDE DEF g
  <2>3. /\ DOMAIN k = Searches(text) /\ k = [s \in DOMAIN k |-> k[s]]
        /\ \A s \in Searches(text) : k[s] = Halves(text, g, s)
    OBVIOUS
  <2> HIDE DEF k
  <2>4. \A s \in Searches(text) : g[s] = k[s]
    BY <1>8, <2>1, <2>3
  <2>5. g = k
    BY <2>2, <2>3, <2>4
  <2> QED
    BY <2>5 DEF k
<1> HIDE DEF g
<1> QED
  BY <1>9 DEF Solves

(* Fitting prefixes come first; the search has excluded all but a range.    *)
Monotone(text) == \A m, n \in 1 .. Len(text) : m <= n /\ Fits(text, n) => Fits(text, m)

Bracket(text, s) ==
    /\ s.low <= s.high + 1 /\ s.longest = s.low - 1
    /\ \A n \in 1 .. Len(text) : (n < s.low => Fits(text, n)) /\ (n > s.high => ~Fits(text, n))

(* What the search returns.                                                 *)
LEMMA SearchReturns ==
    ASSUME NEW text \in Seq(Characters), NEW f, Solves(text, f), NEW s \in Searches(text)
    PROVE  /\ f[s] \in 0 .. Len(text)
           /\ Monotone(text) /\ Bracket(text, s) =>
                 \A n \in 1 .. Len(text) : Fits(text, n) <=> n <= f[s]
<1> DEFINE Right(r, t) == /\ r \in 0 .. Len(text)
                          /\ Monotone(text) /\ Bracket(text, t) =>
                                \A n \in 1 .. Len(text) : Fits(text, n) <=> n <= r
           T == {d \in Nat : \A t \in Searches(text) : t.high - t.low < d => Right(f[t], t)}
<1> HIDE DEF Right
<1>1. \A t \in Searches(text) : f[t] = Halves(text, f, t)
  <2>1. f = [t \in Searches(text) |-> Halves(text, f, t)]
    BY DEF Solves
  <2> QED
    BY <2>1
<1>2. ASSUME NEW t \in Searches(text), t.low > t.high PROVE Right(f[t], t)
  <2>1. f[t] = t.longest
    BY <1>1, <1>2 DEF Halves
  <2>2. /\ t.low \in 1 .. Len(text) + 1 /\ t.high \in 0 .. Len(text) /\ Len(text) \in Nat
        /\ t.longest \in 0 .. Len(text)
    BY HalvesShrink
  <2>3. ASSUME Bracket(text, t), NEW n \in 1 .. Len(text)
        PROVE  Fits(text, n) <=> n <= t.longest
    <3>1. t.longest = t.low - 1 /\ t.low <= t.high + 1
      BY <2>3 DEF Bracket
    <3>2. (n < t.low => Fits(text, n)) /\ (n > t.high => ~Fits(text, n))
      BY <2>3 DEF Bracket
    <3>3. (n < t.low <=> n <= t.longest) /\ (~(n < t.low) => n > t.high)
      BY <1>2, <2>2, <3>1
    <3> QED
      BY <3>2, <3>3
  <2> QED
    BY <2>1, <2>2, <2>3 DEF Right
<1>3. 0 \in T
  <2>1. \A t \in Searches(text) : t.high - t.low < 0 => t.low > t.high
    BY HalvesShrink
  <2> QED
    BY <1>2, <2>1
<1>4. ASSUME NEW d \in Nat, d \in T PROVE d + 1 \in T
  <2> SUFFICES ASSUME NEW t \in Searches(text), t.high - t.low < d + 1, t.low <= t.high
               PROVE  Right(f[t], t)
    <3>1. \A t \in Searches(text) : t.low <= t.high \/ t.low > t.high
      BY HalvesShrink
    <3> QED
      BY <1>2, <3>1
  <2> DEFINE middle == Middle(t)
  <2>1. /\ t.low \in 1 .. Len(text) + 1 /\ t.high \in 0 .. Len(text) /\ Len(text) \in Nat
        /\ t.longest \in 0 .. Len(text)
        /\ middle \in t.low .. t.high /\ middle \in 1 .. Len(text)
        /\ Upper(t) \in Searches(text) /\ Lower(t) \in Searches(text)
        /\ Upper(t).high - Upper(t).low < t.high - t.low
        /\ Lower(t).high - Lower(t).low < t.high - t.low
    BY HalvesShrink
  <2>2. /\ Upper(t).low = middle + 1 /\ Upper(t).high = t.high /\ Upper(t).longest = middle
        /\ Lower(t).low = t.low /\ Lower(t).high = middle - 1 /\ Lower(t).longest = t.longest
    BY DEF Upper, Lower
  <2> HIDE DEF middle
  <2>3. Upper(t).high - Upper(t).low < d /\ Lower(t).high - Lower(t).low < d
    BY <2>1, <2>2
  <2>4. Right(f[Upper(t)], Upper(t)) /\ Right(f[Lower(t)], Lower(t))
    BY <1>4, <2>1, <2>3
  <2>5. CASE Fits(text, middle)
    <3>1. f[t] = f[Upper(t)]
      <4>1. ~(t.low > t.high)
        BY <2>1
      <4> QED
        BY <1>1, <2>5, <4>1 DEF Halves, middle
    <3>2. Monotone(text) /\ Bracket(text, t) => Bracket(text, Upper(t))
      <4> SUFFICES ASSUME Monotone(text), Bracket(text, t) PROVE Bracket(text, Upper(t))
        OBVIOUS
      <4>1. middle + 1 <= t.high + 1 /\ middle = (middle + 1) - 1
        BY <2>1
      <4>2. \A n \in 1 .. Len(text) : n < middle + 1 => Fits(text, n)
        <5>1. \A n \in 1 .. Len(text) : n < middle + 1 => n <= middle
          BY <2>1
        <5> QED
          BY <2>1, <2>5, <5>1 DEF Monotone
      <4> QED
        BY <2>2, <4>1, <4>2 DEF Bracket
    <3> QED
      BY <2>4, <3>1, <3>2 DEF Right
  <2>6. CASE ~Fits(text, middle)
    <3>1. f[t] = f[Lower(t)]
      <4>1. ~(t.low > t.high)
        BY <2>1
      <4> QED
        BY <1>1, <2>6, <4>1 DEF Halves, middle
    <3>2. Monotone(text) /\ Bracket(text, t) => Bracket(text, Lower(t))
      <4> SUFFICES ASSUME Monotone(text), Bracket(text, t) PROVE Bracket(text, Lower(t))
        OBVIOUS
      <4>1. t.low <= (middle - 1) + 1
        BY <2>1
      <4>2. \A n \in 1 .. Len(text) : n > middle - 1 => ~Fits(text, n)
        <5>1. \A n \in 1 .. Len(text) : n > middle - 1 => middle <= n
          BY <2>1
        <5> QED
          BY <2>1, <2>6, <5>1 DEF Monotone
      <4> QED
        BY <2>2, <4>1, <4>2 DEF Bracket
    <3> QED
      BY <2>4, <3>1, <3>2 DEF Right
  <2> QED
    BY <2>5, <2>6
<1> HIDE DEF T
<1>5. Len(text) + 1 \in Nat /\ s.high - s.low < Len(text) + 1
  BY HalvesShrink
<1>6. Len(text) + 1 \in T
  BY <1>3, <1>4, <1>5, SetInduction
<1>7. Right(f[s], s)
  BY <1>5, <1>6 DEF T
<1> QED
  BY <1>7 DEF Right

(* _longest_prefix(): where longer prefixes have no fewer units, it is the  *)
(* longest that fits.                                                       *)
LEMMA LongestPrefixFits ==
    ASSUME NEW text \in Seq(Characters)
    PROVE  /\ LongestPrefix(text) \in 0 .. Len(text)
           /\ Monotone(text) =>
                 \A n \in 1 .. Len(text) : Fits(text, n) <=> n <= LongestPrefix(text)
<1> DEFINE start == [low |-> 1, high |-> Len(text), longest |-> 0]
           f == CHOOSE g : Solves(text, g)
<1>1. Solves(text, f)
  BY SearchExists
<1>2. LongestPrefix(text) = f[start]
  BY DEF LongestPrefix, Solves, Searches, Halves, Middle, Fits, Upper, Lower
<1>3. start \in Searches(text) /\ Bracket(text, start)
  <2>1. Len(text) \in Nat
    BY LenProperties
  <2> QED
    BY <2>1 DEF Searches, Bracket
<1> HIDE DEF f, start
<1> QED
  BY <1>1, <1>2, <1>3, SearchReturns

-----------------------------------------------------------------------------
(* The parts.                                                               *)

(* Slices of texts.                                                         *)
LEMMA TextSlice ==
    \A text \in Seq(Characters) : \A a, b \in Nat : a <= b /\ b <= Len(text) =>
       /\ Slice(text, a, b) \in Seq(Characters) /\ Len(Slice(text, a, b)) = b - a
       /\ \A k \in 1 .. b - a : Slice(text, a, b)[k] = text[a + k]
  BY SliceParts

(* Slices of the end of a text.                                             *)
LEMMA EndSlice ==
    \A text \in Seq(Characters) : \A o, c, d \in Nat :
       c <= d /\ d <= Len(text) - o =>
          Slice(Slice(text, o, Len(text)), c, d) = Slice(text, o + c, o + d)
<1> SUFFICES ASSUME NEW text \in Seq(Characters), NEW o \in Nat, NEW c \in Nat, NEW d \in Nat,
                    c <= d, d <= Len(text) - o
             PROVE  Slice(Slice(text, o, Len(text)), c, d) = Slice(text, o + c, o + d)
  OBVIOUS
<1> DEFINE L == Len(text)
<1>1. L \in Nat
  BY LenProperties
<1> HIDE DEF L
<1>2. o <= L /\ L <= Len(text) /\ d <= L - o
  BY <1>1 DEF L
<1>3. Slice(Slice(text, o, L), c, d) = Slice(text, o + c, o + d)
  BY <1>1, <1>2, SliceOfSlice
<1> QED
  BY <1>3 DEF L


(* _split_to_units(): a part ends at a comma or a space, or it is full.     *)
LEMMA BoundaryPlace ==
    ASSUME NEW text, NEW hard \in Nat \ {0}
    PROVE  /\ Boundary(text, hard) \in 1 .. hard
           /\ Boundary(text, hard) = hard \/ text[Boundary(text, hard)] = "boundary"
<1> DEFINE preferred == {n \in 1 .. hard : text[n] = "boundary"}
<1>1. CASE preferred = {}
  BY <1>1 DEF Boundary
<1>2. CASE preferred # {}
  <2> DEFINE after == {hard - n : n \in preferred}
  <2>1. after \in SUBSET Nat /\ after # {}
    BY <1>2
  <2>2. PICK k \in after : \A l \in after : k <= l
    BY <2>1, LeastElement
  <2>3. PICK n \in preferred : k = hard - n
    BY <2>2
  <2>4. \A m \in preferred : m <= n
    <3> SUFFICES ASSUME NEW m \in preferred PROVE m <= n
      OBVIOUS
    <3>1. hard - m \in after /\ m \in Int /\ n \in Int
      OBVIOUS
    <3>2. hard - n <= hard - m
      BY <2>2, <2>3, <3>1
    <3> QED
      BY <3>1, <3>2
  <2> DEFINE last == CHOOSE l \in preferred : \A m \in preferred : m <= l
  <2>5. last \in preferred
    BY <2>4
  <2>6. Boundary(text, hard) = last
    BY <1>2 DEF Boundary
  <2> HIDE DEF last
  <2> QED
    BY <2>5, <2>6
<1> QED
  BY <1>1, <1>2

(* A part fits, and one more character would not unless it ends at a comma  *)
(* or a space.                                                              *)
Full(text, a, b) ==
    /\ UnitCount(Slice(text, a, b)) <= UnitLimit
    /\ b < Len(text) /\ text[b] # "boundary" => UnitCount(Slice(text, a, b + 1)) > UnitLimit

(* The parts are what is between the places e[0], e[1], ... of the text,    *)
(* and what remains is behind the last of them.                             *)
CutAt(e) ==
    /\ Pieces(tText, tParts, e) /\ e[0] = 0
    /\ \A n \in 1 .. Len(tParts) : e[n - 1] < e[n]
    /\ tRest = Slice(tText, e[Len(tParts)], Len(tText))
    /\ Plain(tText) => \A n \in 1 .. Len(tParts) : Full(tText, e[n - 1], e[n])

TextInv ==
    /\ tText \in Seq(Characters) /\ tParts \in Seq(Seq(Characters))
    /\ tAt \in {"part", "split", "spoken", "raised"}
    /\ Plain(tText) => tAt # "raised"
    /\ \E e : CutAt(e)

(* Nothing is cut yet.                                                      *)
LEMMA TextInitInv == TextInit => TextInv
<1> SUFFICES ASSUME TextInit PROVE TextInv
  OBVIOUS
<1>1. tText \in Seq(Characters)
  BY SubdivisionAssumption DEF TextInit, Texts
<1>2. /\ tParts = << >> /\ Len(tParts) = 0 /\ tParts \in Seq(Seq(Characters)) /\ tRest = tText
      /\ Len(tText) \in Nat
  BY <1>1, EmptySeq, LenProperties DEF TextInit
<1> DEFINE e == [n \in {0} |-> 0]
<1>3. Pieces(tText, tParts, e)
  BY <1>2 DEF Pieces
<1>4. tRest = Slice(tText, 0, Len(tText))
  <2> DEFINE s == Slice(tText, 0, Len(tText))
  <2>1. /\ s \in Seq(Characters) /\ Len(s) = Len(tText) - 0
        /\ \A k \in 1 .. Len(tText) - 0 : s[k] = tText[0 + k]
    <3>1. 0 \in Nat /\ 0 <= Len(tText) /\ Len(tText) <= Len(tText)
      BY <1>2
    <3> QED
      BY <1>1, <1>2, <3>1, TextSlice
  <2> HIDE DEF s
  <2>2. Len(s) = Len(tText) /\ \A k \in 1 .. Len(tText) : s[k] = tText[k]
    BY <1>2, <2>1
  <2>3. s = tText
    BY <1>1, <2>1, <2>2, SeqEqual
  <2> QED
    BY <1>2, <2>3 DEF s
<1>5. CutAt(e)
  BY <1>2, <1>3, <1>4 DEF CutAt
<1> HIDE DEF e
<1> QED
  BY <1>1, <1>2, <1>5 DEF TextInv, TextInit

(* One more part.                                                           *)
LEMMA PartAdded ==
    ASSUME TextInv, NEW e, CutAt(e), NEW c \in 1 .. Len(tRest),
           tParts' = Append(tParts, SubSeq(tRest, 1, c)),
           tRest' = SubSeq(tRest, c + 1, Len(tRest)), UNCHANGED tText,
           tAt' \in {"part", "split", "spoken", "raised"}, tAt' # "raised",
           Plain(tText) => Full(tText, e[Len(tParts)], e[Len(tParts)] + c)
    PROVE  TextInv'
<1> DEFINE m == Len(tParts)
           L == Len(tText)
           o == e[m]
<1>1. /\ tText \in Seq(Characters) /\ tParts \in Seq(Seq(Characters)) /\ m \in Nat /\ L \in Nat
  BY LenProperties DEF TextInv
<1>2. /\ e \in [0 .. m -> 0 .. L] /\ e[0] = 0 /\ tRest = Slice(tText, o, L)
      /\ \A n \in 1 .. m : /\ e[n - 1] <= e[n] /\ e[n - 1] < e[n]
                           /\ tParts[n] = Slice(tText, e[n - 1], e[n])
      /\ Plain(tText) => \A n \in 1 .. m : Full(tText, e[n - 1], e[n])
  BY DEF CutAt, Pieces
<1> HIDE DEF m, L
<1>3. o \in Nat /\ o <= L /\ L \in Nat
  BY <1>1, <1>2
<1> HIDE DEF o
<1>4. /\ tRest \in Seq(Characters) /\ Len(tRest) = L - o /\ c \in Nat /\ c >= 1
      /\ c <= L - o /\ o + c \in Nat /\ o + c <= L /\ o <= o + c
  <2>1. tRest \in Seq(Characters) /\ Len(tRest) = L - o
    <3>1. L <= Len(tText)
      BY <1>3 DEF L
    <3> QED
      BY <1>1, <1>2, <1>3, <3>1, TextSlice
  <2> QED
    BY <1>3, <2>1
<1>5. SubSeq(tRest, 1, c) = Slice(tText, o, o + c)
  <2>1. Slice(Slice(tText, o, L), 0, c) = Slice(tText, o + 0, o + c)
    <3>1. 0 \in Nat /\ 0 <= c /\ c \in Nat /\ c <= Len(tText) - o
      BY <1>4 DEF L
    <3> QED
      BY <1>1, <1>3, <3>1, EndSlice DEF L
  <2>2. Slice(tRest, 0, c) = SubSeq(tRest, 1, c)
    BY DEF Slice
  <2> QED
    BY <1>2, <1>3, <2>1, <2>2
<1>6. tRest' = Slice(tText, o + c, L)
  <2>1. Slice(Slice(tText, o, L), c, L - o) = Slice(tText, o + c, o + (L - o))
    <3>1. c \in Nat /\ L - o \in Nat /\ c <= L - o /\ L - o <= Len(tText) - o
      BY <1>3, <1>4 DEF L
    <3> QED
      BY <1>1, <1>3, <3>1, EndSlice DEF L
  <2>2. o + (L - o) = L
    BY <1>3
  <2>3. Slice(tRest, c, L - o) = tRest'
    BY <1>4 DEF Slice
  <2> QED
    BY <1>2, <2>1, <2>2, <2>3
<1>7. SubSeq(tRest, 1, c) \in Seq(Characters)
  <2>1. o + c <= Len(tText)
    BY <1>4 DEF L
  <2> QED
    BY <1>1, <1>3, <1>4, <1>5, <2>1, TextSlice
<1>8. /\ tParts' \in Seq(Seq(Characters)) /\ Len(tParts') = m + 1
      /\ \A n \in 1 .. m : tParts'[n] = tParts[n]
      /\ tParts'[m + 1] = SubSeq(tRest, 1, c)
  BY <1>1, <1>7, AppendProperties DEF m
<1>9. PICK d \in [0 .. m + 1 -> 0 .. L] :
         d[m + 1] = o + c /\ d[0] = 0 /\ \A n \in 0 .. m : d[n] = e[n]
  <2> DEFINE f == [n \in 0 .. m + 1 |-> IF n <= m THEN e[n] ELSE o + c]
  <2>1. /\ f \in [0 .. m + 1 -> 0 .. L] /\ f[m + 1] = o + c /\ f[0] = 0
        /\ \A n \in 0 .. m : f[n] = e[n]
    BY <1>1, <1>2, <1>3, <1>4
  <2> QED
    BY <2>1
<1>10. ASSUME NEW n \in 1 .. m + 1
       PROVE  /\ d[n - 1] <= d[n] /\ d[n - 1] < d[n] /\ tParts'[n] = Slice(tText, d[n - 1], d[n])
              /\ Plain(tText) => Full(tText, d[n - 1], d[n])
  <2>1. CASE n \in 1 .. m
    <3>1. n \in 0 .. m /\ n - 1 \in 0 .. m
      BY <1>1, <2>1
    <3> QED
      BY <1>2, <1>8, <1>9, <2>1, <3>1
  <2>2. CASE n = m + 1
    <3>1. n - 1 = m /\ m \in 0 .. m /\ d[n - 1] = o /\ d[n] = o + c
      <4>1. n - 1 = m /\ m \in 0 .. m
        BY <1>1, <2>2
      <4> QED
        BY <1>9, <2>2, <4>1 DEF o
    <3>2. o <= o + c /\ o < o + c
      BY <1>3, <1>4
    <3>3. Plain(tText) => Full(tText, o, o + c)
      BY DEF o, m
    <3>4. tParts'[n] = Slice(tText, o, o + c)
      BY <1>5, <1>8, <2>2
    <3> QED
      BY <3>1, <3>2, <3>3, <3>4
  <2>3. n \in 1 .. m \/ n = m + 1
    BY <1>1
  <2> QED
    BY <2>1, <2>2, <2>3
<1>11. tText' = tText /\ Plain(tText)' = Plain(tText)
  BY DEF Plain
<1>12. CutAt(d)'
  <2>1. Pieces(tText', tParts', d)
    BY <1>8, <1>9, <1>10, <1>11 DEF Pieces, L
  <2>2. tRest' = Slice(tText', d[Len(tParts')], Len(tText'))
    BY <1>6, <1>8, <1>9, <1>11 DEF L
  <2>3. \A n \in 1 .. Len(tParts') : d[n - 1] < d[n]
    BY <1>8, <1>10
  <2>4. d[0] = 0
    BY <1>9
  <2>5. Plain(tText') => \A n \in 1 .. Len(tParts') : Full(tText', d[n - 1], d[n])
    BY <1>8, <1>10, <1>11
  <2> QED
    BY <2>1, <2>2, <2>3, <2>4, <2>5 DEF CutAt
<1> QED
  BY <1>1, <1>8, <1>11, <1>12 DEF TextInv

(* What remains, and what a search of it finds.                             *)
LEMMA RestSearched ==
    ASSUME TextInv, NEW e, CutAt(e)
    PROVE  /\ e[Len(tParts)] \in Nat /\ e[Len(tParts)] <= Len(tText) /\ Len(tText) \in Nat
           /\ tRest \in Seq(Characters) /\ Len(tRest) = Len(tText) - e[Len(tParts)]
           /\ \A k \in 1 .. Len(tRest) : tRest[k] = tText[e[Len(tParts)] + k]
           /\ Plain(tText) => Plain(tRest) /\ Monotone(tRest)
<1> DEFINE o == e[Len(tParts)]
           L == Len(tText)
<1>1. tText \in Seq(Characters) /\ Len(tParts) \in Nat /\ L \in Nat
  BY LenProperties DEF TextInv
<1>2. o \in Nat /\ o <= L /\ tRest = Slice(tText, o, L)
  <2>1. e \in [0 .. Len(tParts) -> 0 .. Len(tText)] /\ tRest = Slice(tText, o, L)
    BY DEF CutAt, Pieces
  <2>2. o \in 0 .. L
    BY <1>1, <2>1
  <2> QED
    BY <1>1, <2>1, <2>2
<1> HIDE DEF o
<1>3. /\ tRest \in Seq(Characters) /\ Len(tRest) = L - o
      /\ \A k \in 1 .. L - o : tRest[k] = tText[o + k]
  <2>1. L <= Len(tText)
    BY <1>1
  <2> QED
    BY <1>1, <1>2, <2>1, TextSlice
<1>4. ASSUME Plain(tText) PROVE Plain(tRest) /\ Monotone(tRest)
  <2>1. Plain(tRest)
    BY <1>1, <1>2, <1>4, PlainSlice
  <2>2. ASSUME NEW m \in 1 .. Len(tRest), NEW n \in 1 .. Len(tRest), m <= n, Fits(tRest, n)
        PROVE  Fits(tRest, m)
    <3>1. m \in Nat /\ n \in Nat /\ n <= Len(tRest) /\ m <= Len(tRest) /\ 0 <= m /\ 0 <= n
      BY <1>2, <1>3
    <3>2. UnitCount(Slice(tRest, 0, m)) <= UnitCount(Slice(tRest, 0, n))
      BY <1>3, <2>1, <2>2, <3>1, UnitsGrow
    <3>3. /\ UnitCount(Slice(tRest, 0, m)) \in Nat /\ UnitCount(Slice(tRest, 0, n)) \in Nat
      <4>1. /\ Slice(tRest, 0, m) \in Seq(Characters) /\ Plain(Slice(tRest, 0, m))
        BY <1>3, <2>1, <3>1, PlainSlice
      <4>2. /\ Slice(tRest, 0, n) \in Seq(Characters) /\ Plain(Slice(tRest, 0, n))
        BY <1>3, <2>1, <3>1, PlainSlice
      <4> QED
        BY <4>1, <4>2, UnitsOfPlain
    <3>4. Slice(tRest, 0, m) = SubSeq(tRest, 1, m) /\ Slice(tRest, 0, n) = SubSeq(tRest, 1, n)
      BY DEF Slice
    <3>5. UnitLimit \in Nat
      BY SubdivisionAssumption
    <3>6. UnitCount(SubSeq(tRest, 1, n)) <= UnitLimit
      BY <2>2 DEF Fits
    <3>7. UnitCount(SubSeq(tRest, 1, m)) <= UnitLimit
      <4> DEFINE x == UnitCount(SubSeq(tRest, 1, m))
                 y == UnitCount(SubSeq(tRest, 1, n))
      <4>1. x \in Nat /\ y \in Nat /\ x <= y /\ y <= UnitLimit
        BY <3>2, <3>3, <3>4, <3>6
      <4> HIDE DEF x, y
      <4>2. x <= UnitLimit
        BY <3>5, <4>1
      <4> QED
        BY <4>2 DEF x
    <3> QED
      BY <3>7 DEF Fits
  <2> QED
    BY <2>1, <2>2 DEF Monotone
<1> QED
  BY <1>1, <1>2, <1>3, <1>4 DEF o

(* A cut leaves a part that is full.                                        *)
LEMMA CutInv == TextInv /\ Cut => TextInv'
<1> SUFFICES ASSUME TextInv, Cut PROVE TextInv'
  OBVIOUS
<1>1. PICK e : CutAt(e)
  BY DEF TextInv
<1> DEFINE o == e[Len(tParts)]
           L == Len(tText)
           hard == LongestPrefix(tRest)
           cut == Boundary(tRest, hard)
<1>2. /\ o \in Nat /\ o <= L /\ L \in Nat /\ tRest \in Seq(Characters) /\ Len(tRest) = L - o
      /\ \A k \in 1 .. L - o : tRest[k] = tText[o + k]
      /\ Plain(tText) => Plain(tRest) /\ Monotone(tRest)
  <2>1. Len(tRest) = L - o
    BY <1>1, RestSearched
  <2> QED
    BY <1>1, <2>1, RestSearched
<1>3. tRest = Slice(tText, o, L) /\ tText \in Seq(Characters)
  BY <1>1 DEF CutAt, TextInv
<1>4. /\ tParts' = Append(tParts, SubSeq(tRest, 1, cut))
      /\ tRest' = SubSeq(tRest, cut + 1, Len(tRest)) /\ tText' = tText /\ tAt' = "split"
      /\ hard > 0
  BY DEF Cut
<1>5. /\ hard \in 0 .. Len(tRest)
      /\ Monotone(tRest) => \A n \in 1 .. Len(tRest) : Fits(tRest, n) <=> n <= hard
  BY <1>2, LongestPrefixFits
<1> HIDE DEF hard
<1>6. hard \in Nat \ {0} /\ hard <= L - o
  BY <1>2, <1>4, <1>5
<1>7. cut \in 1 .. hard /\ (cut = hard \/ tRest[cut] = "boundary")
  BY <1>6, BoundaryPlace
<1> HIDE DEF cut, o, L
<1>8. /\ cut \in Nat /\ cut \in 1 .. Len(tRest) /\ cut \in 1 .. L - o /\ cut <= hard /\ 0 <= cut
      /\ cut <= L - o /\ 0 \in Nat
  BY <1>2, <1>6, <1>7
<1>9. ASSUME Plain(tText) PROVE Full(tText, o, o + cut)
  <2>1. Plain(tRest) /\ \A n \in 1 .. Len(tRest) : Fits(tRest, n) <=> n <= hard
    BY <1>2, <1>5, <1>9
  <2>2. ASSUME NEW n \in Nat, n <= L - o
        PROVE  /\ SubSeq(tRest, 1, n) = Slice(tText, o, o + n)
               /\ UnitCount(Slice(tText, o, o + n)) \in Nat
    <3>1. Slice(Slice(tText, o, L), 0, n) = Slice(tText, o + 0, o + n)
      <4>1. 0 \in Nat /\ 0 <= n /\ n <= Len(tText) - o
        BY <2>2 DEF L
      <4> QED
        BY <1>2, <1>3, <4>1, EndSlice DEF L
    <3>2. Slice(tRest, 0, n) = Slice(tText, o, o + n) /\ Slice(tRest, 0, n) = SubSeq(tRest, 1, n)
      <4>1. o + 0 = o /\ 0 + 1 = 1
        BY <1>2
      <4>2. Slice(tRest, 0, n) = SubSeq(tRest, 1, n)
        BY <4>1 DEF Slice
      <4> QED
        BY <1>3, <3>1, <4>1, <4>2
    <3>3. Slice(tRest, 0, n) \in Seq(Characters) /\ Plain(Slice(tRest, 0, n))
      <4>1. 0 <= n /\ n <= Len(tRest) /\ 0 \in Nat
        BY <1>2, <2>2
      <4> QED
        BY <1>2, <2>1, <4>1, PlainSlice
    <3>4. UnitCount(Slice(tRest, 0, n)) \in Nat
      BY <3>3, UnitsOfPlain
    <3> QED
      BY <3>2, <3>4
  <2>3. UnitCount(Slice(tText, o, o + cut)) <= UnitLimit
    BY <1>8, <2>1, <2>2 DEF Fits
  <2>4. ASSUME o + cut < L, tText[o + cut] # "boundary"
        PROVE  UnitCount(Slice(tText, o, o + cut + 1)) > UnitLimit
    <3>1. tRest[cut] = tText[o + cut]
      BY <1>2, <1>8
    <3>2. cut = hard
      BY <1>7, <2>4, <3>1
    <3>3. /\ cut + 1 \in Nat /\ cut + 1 <= L - o /\ cut + 1 \in 1 .. Len(tRest)
          /\ ~(cut + 1 <= hard) /\ o + (cut + 1) = o + cut + 1
      BY <1>2, <1>8, <2>4, <3>2
    <3>4. ~(UnitCount(SubSeq(tRest, 1, cut + 1)) <= UnitLimit)
      BY <2>1, <3>3 DEF Fits
    <3>5. /\ SubSeq(tRest, 1, cut + 1) = Slice(tText, o, o + (cut + 1))
          /\ UnitCount(Slice(tText, o, o + (cut + 1))) \in Nat
      BY <2>2, <3>3
    <3>6. UnitLimit \in Nat
      BY SubdivisionAssumption
    <3> DEFINE x == UnitCount(Slice(tText, o, o + (cut + 1)))
    <3>7. x \in Nat /\ ~(x <= UnitLimit)
      BY <3>4, <3>5
    <3>8. x = UnitCount(Slice(tText, o, o + cut + 1))
      BY <3>3
    <3> HIDE DEF x
    <3>9. x > UnitLimit
      BY <3>6, <3>7
    <3> QED
      BY <3>8, <3>9
  <2> QED
    <3>1. o + cut < Len(tText) /\ tText[o + cut] # "boundary" =>
             UnitCount(Slice(tText, o, o + cut + 1)) > UnitLimit
      BY <2>4 DEF L
    <3> QED
      BY <2>3, <3>1 DEF Full
<1>10. Plain(tText) => Full(tText, e[Len(tParts)], e[Len(tParts)] + cut)
  BY <1>9 DEF o
<1> QED
  BY <1>1, <1>4, <1>8, <1>10, PartAdded

(* The last part is what remains.                                           *)
LEMMA LastPartInv == TextInv /\ LastPart => TextInv'
<1> SUFFICES ASSUME TextInv, LastPart PROVE TextInv'
  OBVIOUS
<1>1. PICK e : CutAt(e)
  BY DEF TextInv
<1> DEFINE o == e[Len(tParts)]
           L == Len(tText)
<1>2. /\ o \in Nat /\ o <= L /\ L \in Nat /\ tRest \in Seq(Characters) /\ Len(tRest) = L - o
  BY <1>1, RestSearched
<1>3. tRest = Slice(tText, o, L) /\ tText \in Seq(Characters)
  BY <1>1 DEF CutAt, TextInv
<1>4. UnitCount(tRest) <= UnitLimit /\ tText' = tText /\ tRest' = << >> /\ tAt' = "spoken"
  BY DEF LastPart
<1>5. CASE tRest = << >>
  <2>1. UNCHANGED <<tText, tParts, tRest>>
    BY <1>4, <1>5 DEF LastPart
  <2>2. CutAt(e)'
    BY <1>1, <2>1 DEF CutAt, Pieces, Plain
  <2> QED
    BY <1>4, <2>1, <2>2 DEF TextInv
<1>6. CASE tRest # << >>
  <2> DEFINE c == Len(tRest)
  <2>1. c \in Nat /\ c # 0
    BY <1>2, <1>6, EmptySeq, SeqEqual
  <2>2. c \in 1 .. Len(tRest)
    BY <2>1
  <2>3. SubSeq(tRest, 1, c) = tRest /\ SubSeq(tRest, c + 1, Len(tRest)) = << >>
    <3>1. c + 1 \in Int /\ c \in Int /\ c < c + 1
      BY <2>1
    <3>2. SubSeq(tRest, c + 1, c) = << >>
      BY <3>1, SubSeqEmpty
    <3>3. SubSeq(tRest, 1, c) = tRest
      BY <1>2
    <3> QED
      BY <3>2, <3>3
  <2>4. tParts' = Append(tParts, SubSeq(tRest, 1, c))
    BY <1>6, <2>3 DEF LastPart
  <2>5. tRest' = SubSeq(tRest, c + 1, Len(tRest))
    BY <1>4, <2>3
  <2>6. Full(tText, o, o + c)
    <3>1. o + c = L
      BY <1>2
    <3> QED
      BY <1>2, <1>3, <1>4, <3>1 DEF Full
  <2>7. Plain(tText) => Full(tText, e[Len(tParts)], e[Len(tParts)] + c)
    BY <2>6
  <2> HIDE DEF c
  <2> QED
    BY <1>1, <1>4, <2>2, <2>4, <2>5, <2>7, PartAdded
<1> QED
  BY <1>5, <1>6

(* A plain text is never refused: its first character fits.                 *)
LEMMA OversizedInv == TextInv /\ Oversized => TextInv'
<1> SUFFICES ASSUME TextInv, Oversized PROVE TextInv'
  OBVIOUS
<1>1. PICK e : CutAt(e)
  BY DEF TextInv
<1>2. /\ tRest \in Seq(Characters) /\ Len(tRest) \in Nat
      /\ Plain(tText) => Plain(tRest) /\ Monotone(tRest)
  <2>1. tRest \in Seq(Characters) /\ (Plain(tText) => Plain(tRest) /\ Monotone(tRest))
    BY <1>1, RestSearched
  <2> QED
    BY <2>1, LenProperties
<1>3. ~Plain(tText)
  <2> SUFFICES ASSUME Plain(tText) PROVE FALSE
    OBVIOUS
  <2>1. /\ UnitCount(tRest) \in Nat /\ UnitCount(tRest) <= Len(tRest)
        /\ UnitCount(tRest) > UnitLimit /\ LongestPrefix(tRest) = 0
    BY <1>2, UnitsOfPlain DEF Oversized
  <2>2. UnitLimit \in Nat /\ UnitLimit >= 1 /\ 0 \in Nat
    BY SubdivisionAssumption
  <2>3. 1 <= Len(tRest) /\ 1 \in 1 .. Len(tRest) /\ 1 \in Nat
    BY <1>2, <2>1, <2>2
  <2>4. /\ Slice(tRest, 0, 1) \in Seq(Characters) /\ Plain(Slice(tRest, 0, 1))
        /\ Len(Slice(tRest, 0, 1)) = 1
    <3>1. Slice(tRest, 0, 1) \in Seq(Characters) /\ Plain(Slice(tRest, 0, 1))
      BY <1>2, <2>2, <2>3, PlainSlice
    <3>2. Len(Slice(tRest, 0, 1)) = 1 - 0
      <4>1. 0 \in Nat /\ 1 \in Nat /\ 0 <= 1 /\ 1 <= Len(tRest)
        BY <2>3
      <4> QED
        BY <1>2, <4>1, TextSlice
    <3> QED
      BY <3>1, <3>2
  <2>5. UnitCount(Slice(tRest, 0, 1)) <= UnitLimit
    <3>1. UnitCount(Slice(tRest, 0, 1)) \in Nat /\ UnitCount(Slice(tRest, 0, 1)) <= 1
      BY <2>4, UnitsOfPlain
    <3> QED
      BY <2>2, <3>1
  <2>6. Fits(tRest, 1)
    BY <2>5 DEF Fits, Slice
  <2>7. 1 <= LongestPrefix(tRest)
    BY <1>2, <2>3, <2>6, LongestPrefixFits
  <2> QED
    BY <2>1, <2>7
<1>4. UNCHANGED <<tText, tParts, tRest>> /\ tAt' = "raised"
  BY DEF Oversized
<1>5. CutAt(e)' /\ Plain(tText)' = Plain(tText)
  BY <1>1, <1>4 DEF CutAt, Pieces, Plain
<1> QED
  BY <1>3, <1>4, <1>5 DEF TextInv

(* Every step keeps the invariant.                                          *)
LEMMA TextNextInv == TextInv /\ [TextNext]_textVars => TextInv'
<1>1. ASSUME TextInv, Subdivide \/ UNCHANGED textVars PROVE TextInv'
  <2>1. PICK e : CutAt(e)
    BY <1>1 DEF TextInv
  <2>2. /\ UNCHANGED <<tText, tParts, tRest>> /\ tAt' \in {"part", "split", "spoken", "raised"}
        /\ (tAt # "raised" => tAt' # "raised")
    BY <1>1 DEF Subdivide, textVars, TextInv
  <2>3. CutAt(e)' /\ Plain(tText)' = Plain(tText)
    BY <2>1, <2>2 DEF CutAt, Pieces, Plain
  <2> QED
    BY <1>1, <2>2, <2>3 DEF TextInv
<1> QED
  BY <1>1, CutInv, LastPartInv, OversizedInv DEF TextNext

(* Where the text was cut says what its parts are.                          *)
LEMMA TextTyped == TextInv => TextTypeOK
<1> SUFFICES ASSUME TextInv PROVE TextTypeOK
  OBVIOUS
<1>1. PICK e : CutAt(e)
  BY DEF TextInv
<1>2. /\ tText \in Seq(Characters) /\ tParts \in Seq(Seq(Characters))
      /\ DOMAIN tParts = 1 .. Len(tParts)
  BY LenProperties DEF TextInv
<1>3. tRest \in Seq(Characters)
  BY <1>1, RestSearched
<1>4. ASSUME NEW n \in 1 .. Len(tParts) PROVE tParts[n] \in Seq(Characters) /\ tParts[n] # << >>
  <2>1. tParts[n] \in Seq(Characters)
    BY <1>2, ElementOfSeq
  <2>2. /\ e[n - 1] \in Nat /\ e[n] \in Nat /\ e[n - 1] < e[n] /\ e[n] <= Len(tText)
        /\ e[n - 1] <= e[n] /\ tParts[n] = Slice(tText, e[n - 1], e[n])
    <3>1. /\ e \in [0 .. Len(tParts) -> 0 .. Len(tText)] /\ e[n - 1] < e[n]
          /\ e[n - 1] <= e[n] /\ tParts[n] = Slice(tText, e[n - 1], e[n])
      BY <1>1 DEF CutAt, Pieces
    <3>2. /\ Len(tParts) \in Nat /\ Len(tText) \in Nat
      BY <1>2, LenProperties
    <3>3. n - 1 \in 0 .. Len(tParts) /\ n \in 0 .. Len(tParts)
      BY <3>2
    <3>4. e[n - 1] \in 0 .. Len(tText) /\ e[n] \in 0 .. Len(tText)
      BY <3>1, <3>3
    <3> QED
      BY <3>1, <3>2, <3>4
  <2> DEFINE a == e[n - 1]
             b == e[n]
  <2>3. /\ a \in Nat /\ b \in Nat /\ a < b /\ a <= b /\ b <= Len(tText)
        /\ tParts[n] = Slice(tText, a, b)
    BY <2>2
  <2> HIDE DEF a, b
  <2>4. Len(tParts[n]) # 0
    <3>1. Len(Slice(tText, a, b)) = b - a
      BY <1>2, <2>3, TextSlice
    <3>2. b - a # 0
      BY <2>3
    <3> QED
      BY <2>3, <3>1, <3>2
  <2> QED
    BY <2>1, <2>4, EmptySeq
<1> QED
  BY <1>2, <1>3, <1>4 DEF TextTypeOK, TextInv

(* In every reachable state the parts are not empty.                        *)
THEOREM PartsTyped == TextSpec => []TextTypeOK
  BY TextTyped, TextInitInv, TextNextInv, PTL DEF TextSpec

(* The parts are the text, for any limit and any length: nothing is lost,   *)
(* repeated or moved; where no character is more than one token, every part *)
(* fits the model's limit and ends where it must, and no text is refused.   *)
THEOREM PartsAreTheText == TextSpec => []PartsFit
<1>1. ASSUME TextInv PROVE PartsFit
  <2>1. PICK e : CutAt(e)
    BY <1>1 DEF TextInv
  <2> DEFINE m == Len(tParts)
             L == Len(tText)
  <2>2. /\ tText \in Seq(Characters) /\ tParts \in Seq(Seq(Characters)) /\ m \in Nat /\ L \in Nat
        /\ DOMAIN tParts = 1 .. m /\ DOMAIN tText = 1 .. L
    BY <1>1, LenProperties DEF TextInv
  <2>3. /\ e \in [0 .. m -> 0 .. L] /\ e[0] = 0 /\ Pieces(tText, tParts, e)
        /\ tRest = Slice(tText, e[m], L)
        /\ \A n \in 1 .. m : e[n - 1] < e[n] /\ tParts[n] = Slice(tText, e[n - 1], e[n])
        /\ Plain(tText) => \A n \in 1 .. m : Full(tText, e[n - 1], e[n])
    BY <2>1 DEF CutAt, Pieces
  <2> HIDE DEF m, L
  <2>4. \A n \in 0 .. m : e[n] \in Nat /\ e[n] <= L /\ e[n] <= e[m]
    <3>1. \A n \in 0 .. m : e[n] \in 0 .. L
      BY <2>3
    <3>2. \A n \in 0 .. m : n <= m => e[n] <= e[m]
      <4>1. \A n, k \in 0 .. m : n <= k => e[n] <= e[k]
        BY <2>2, <2>3, PiecesOrdered DEF m
      <4>2. m \in 0 .. m
        BY <2>2
      <4> QED
        BY <4>1, <4>2
    <3> QED
      BY <2>2, <3>1, <3>2
  <2>5. ASSUME NEW n \in 0 .. m
        PROVE  FlattenSeq(SubSeq(tParts, n + 1, Len(tParts))) \o tRest = Slice(tText, e[n], L)
    <3>1. FlattenSeq(SubSeq(tParts, n + 1, Len(tParts))) = Slice(tText, e[n], e[m])
      BY <2>2, <2>3, LaterPieces DEF m
    <3> DEFINE x == e[n]  y == e[m]
    <3>2. x \in Nat /\ y \in Nat /\ x <= y /\ y <= L /\ L \in Nat
      BY <2>2, <2>4
    <3> HIDE DEF x, y
    <3>3. Slice(tText, x, y) \o Slice(tText, y, L) = Slice(tText, x, L)
      BY <2>2, <3>2, SliceJoin DEF L
    <3> QED
      BY <2>3, <3>1, <3>3 DEF x, y
  <2>6. FlattenSeq(tParts) \o tRest = tText
    <3>1. FlattenSeq(tParts) = Slice(tText, e[0], e[m])
      BY <2>2, <2>3, PiecesFlattened DEF m
    <3> DEFINE y == e[m]
    <3>2. 0 \in Nat /\ y \in Nat /\ 0 <= y /\ y <= L /\ L \in Nat
      BY <2>2, <2>4
    <3> HIDE DEF y
    <3>3. Slice(tText, 0, y) \o Slice(tText, y, L) = Slice(tText, 0, L)
      BY <2>2, <3>2, SliceJoin DEF L
    <3>4. Slice(tText, 0, L) = tText
      BY <2>2 DEF Slice, L
    <3> QED
      BY <2>3, <3>1, <3>3, <3>4 DEF y
  <2>7. ASSUME "wide" \notin ToSet(tText) PROVE Plain(tText) /\ tAt # "raised"
    <3>1. Plain(tText)
      BY <2>7 DEF Plain, ToSet
    <3> QED
      BY <1>1, <3>1 DEF TextInv
  <2>8. ASSUME Plain(tText), NEW n \in 1 .. m
        PROVE  LET rest == FlattenSeq(SubSeq(tParts, n + 1, Len(tParts))) \o tRest
               IN  /\ UnitCount(tParts[n]) <= UnitLimit
                   /\ rest # << >> /\ Last(tParts[n]) # "boundary" =>
                          UnitCount(Append(tParts[n], Head(rest))) > UnitLimit
    <3> DEFINE rest == FlattenSeq(SubSeq(tParts, n + 1, Len(tParts))) \o tRest
               a == e[n - 1]
               b == e[n]
    <3>1. /\ n \in 0 .. m /\ a \in Nat /\ b \in Nat /\ a < b /\ b <= L /\ a <= b
          /\ tParts[n] = Slice(tText, a, b) /\ Full(tText, a, b)
      <4>1. n \in 0 .. m /\ n - 1 \in 0 .. m
        BY <2>2
      <4>2. a < b /\ tParts[n] = Slice(tText, a, b) /\ Full(tText, a, b)
        BY <2>3, <2>8
      <4>3. a \in Nat /\ b \in Nat /\ b <= L
        BY <2>4, <4>1
      <4> QED
        BY <4>1, <4>2, <4>3
    <3>2. rest = Slice(tText, b, L)
      BY <2>5, <3>1
    <3> HIDE DEF rest, a, b
    <3>3. UnitCount(tParts[n]) <= UnitLimit
      BY <3>1 DEF Full
    <3>4. ASSUME rest # << >>, Last(tParts[n]) # "boundary"
          PROVE  UnitCount(Append(tParts[n], Head(rest))) > UnitLimit
      <4>1. /\ rest \in Seq(Characters) /\ Len(rest) = L - b
            /\ \A k \in 1 .. L - b : rest[k] = tText[b + k]
        <5>1. b <= L /\ L <= Len(tText) /\ L \in Nat
          BY <2>2, <3>1 DEF L
        <5> QED
          BY <2>2, <3>1, <3>2, <5>1, TextSlice
      <4>2. Len(rest) \in Nat \ {0}
        BY <3>4, <4>1, LenProperties, EmptySeq, SeqEqual
      <4>3. b < L /\ 1 \in 1 .. L - b
        BY <2>2, <3>1, <4>1, <4>2
      <4>4. Head(rest) = tText[b + 1]
        BY <4>1, <4>2, <4>3
      <4>5. Last(tParts[n]) = tText[b]
        <5>1. /\ tParts[n] \in Seq(Characters) /\ Len(tParts[n]) = b - a
              /\ \A k \in 1 .. b - a : tParts[n][k] = tText[a + k]
          <6>1. b <= Len(tText) /\ a \in Nat /\ b \in Nat /\ a <= b
            BY <3>1 DEF L
          <6>2. /\ Slice(tText, a, b) \in Seq(Characters) /\ Len(Slice(tText, a, b)) = b - a
                /\ \A k \in 1 .. b - a : Slice(tText, a, b)[k] = tText[a + k]
            BY <2>2, <6>1, TextSlice
          <6>3. tParts[n] = Slice(tText, a, b)
            BY <3>1
          <6> QED
            BY <6>2, <6>3
        <5>2. b - a \in 1 .. b - a /\ a + (b - a) = b
          BY <3>1
        <5> QED
          BY <5>1, <5>2 DEF Last
      <4>6. UnitCount(Slice(tText, a, b + 1)) > UnitLimit
        BY <3>1, <3>4, <4>3, <4>5 DEF Full, L
      <4>7. Append(Slice(tText, a, b), tText[b + 1]) = Slice(tText, a, b + 1)
        BY <2>2, <3>1, <4>3, SliceAppend DEF L
      <4> QED
        BY <3>1, <4>4, <4>6, <4>7
    <3> QED
      BY <3>3, <3>4 DEF rest
  <2>9. "wide" \notin ToSet(tText) =>
           /\ tAt # "raised"
           /\ \A n \in DOMAIN tParts :
                LET rest == FlattenSeq(SubSeq(tParts, n + 1, Len(tParts))) \o tRest
                IN  /\ UnitCount(tParts[n]) <= UnitLimit
                    /\ rest # << >> /\ Last(tParts[n]) # "boundary" =>
                           UnitCount(Append(tParts[n], Head(rest))) > UnitLimit
    BY <2>2, <2>7, <2>8
  <2> QED
    BY <2>6, <2>9 DEF PartsFit
<1> QED
  BY <1>1, TextInitInv, TextNextInv, PTL DEF TextSpec
=============================================================================

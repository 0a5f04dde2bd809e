---------------------------- MODULE Provisioning ----------------------------
(***************************************************************************)
(* What a service finds on disk when it starts: the credential it shares   *)
(* with the gateway (init_key, the same in every service.py, and the       *)
(* gateway's secret()) and, for CosyVoice3, the fixed voice recording that *)
(* prepare_voice derives. Several programs create, check and read the same *)
(* files at once, and any of them may die at any step and be run again.    *)
(***************************************************************************)
EXTENDS Naturals, FiniteSets

CONSTANTS
    Programs,  \* the programs that touch the files of one service
    Role       \* Role[p]: "service", "init", "gateway", "monitor" or "voice"

(* No program is called what stands for a key nobody wrote.                 *)
ASSUME ProvisioningAssumption ==
    /\ Role \in [Programs -> {"service", "init", "gateway", "monitor", "voice"}]
    /\ "absent" \notin Programs /\ "empty" \notin Programs /\ "none" \notin Programs

VARIABLES
    pKey,       \* the key file: "absent", "empty" or the program that wrote it
    pVoice,     \* prompt_wav: "absent", "pinned" (the checksum agrees), "other"
    pDraft,     \* prompt_wav.tmp.wav: the same; half-written is "other" too
    pFile,      \* what a prepare-voice writes to: "none", the "draft", what is
                \* the "voice" by now, or a file that has no name ("gone")
    pAt,        \* where each program stands
    pToken,     \* the credential each uses: "none", "empty" or who wrote it
    pLoaded,    \* the voice each server registered
    pOverlapped \* history: two runs of prepare-voice had the draft at once

voiceVars == <<pVoice, pDraft, pFile, pOverlapped>>
programVars == <<pAt, pToken, pLoaded>>
provisioningVars == <<pKey, voiceVars, programVars>>

Steps0 == {"off", "config", "probe", "exists", "create", "write", "validate", "runtime",
           "key", "load", "up", "derive", "saving", "saved", "discard", "publish"}
Preparing == {"saving", "saved", "discard", "publish"}
Contents == {"absent", "pinned", "other"}
KeyContents == {"absent", "empty"} \cup Programs

ProvisioningTypeOK ==
    /\ pKey \in KeyContents
    /\ pVoice \in Contents /\ pDraft \in Contents
    /\ pFile \in [Programs -> {"none", "draft", "voice", "gone"}]
    /\ pOverlapped \in BOOLEAN
    /\ pAt \in [Programs -> Steps0]
    /\ pToken \in [Programs -> {"none", "empty"} \cup Programs]
    /\ pLoaded \in [Programs -> {"none", "pinned", "other"}]
    /\ \A p \in Programs : pAt[p] = "off" => pToken[p] = "none" /\ pLoaded[p] = "none"

(* An earlier release may have left its own voice.                          *)
ProvisioningInit ==
    /\ pKey = "absent" /\ pVoice \in {"absent", "other"} /\ pDraft = "absent"
    /\ pFile = [p \in Programs |-> "none"] /\ pOverlapped = FALSE
    /\ pAt = [p \in Programs |-> "off"]
    /\ pToken = [p \in Programs |-> "none"] /\ pLoaded = [p \in Programs |-> "none"]

-----------------------------------------------------------------------------
Proceeds(p, step) ==
    /\ pAt' = [pAt EXCEPT ![p] = step]
    /\ UNCHANGED <<pToken, pLoaded>>

(* It ends, with an error or well, or is killed: what it held is gone, what  *)
(* it wrote stays.                                                           *)
Quits(p) ==
    /\ pAt' = [pAt EXCEPT ![p] = "off"]
    /\ pToken' = [pToken EXCEPT ![p] = "none"]
    /\ pLoaded' = [pLoaded EXCEPT ![p] = "none"]

Ended(p) ==
    /\ pAt[p] # "off" /\ Quits(p)
    /\ pFile' = [pFile EXCEPT ![p] = "none"]
    /\ UNCHANGED <<pKey, pVoice, pDraft, pOverlapped>>

FirstStep == [service |-> "config", init |-> "exists", gateway |-> "validate",
              monitor |-> "key", voice |-> "derive"]

(* main(): nothing keeps a program from being run twice at once.            *)
Launch(p) ==
    /\ pAt[p] = "off"
    /\ Proceeds(p, FirstStep[Role[p]])
    /\ UNCHANGED <<pKey, voiceVars>>

(* config(): checksums of voice, model and source; a mismatch ends the run.  *)
Config(p) ==
    /\ pAt[p] = "config"
    /\ pVoice = "pinned" /\ Proceeds(p, "probe")
    /\ UNCHANGED <<pKey, voiceVars>>

(* check(cfg) and the look at the port; another server may come up after it. *)
PortProbe(p) ==
    /\ pAt[p] = "probe"
    /\ \A q \in Programs : Role[q] = "service" => pAt[q] # "up"
    /\ Proceeds(p, "exists")
    /\ UNCHANGED <<pKey, voiceVars>>

-----------------------------------------------------------------------------
(* init_key() and secret(create=True).                                      *)

KeyExists(p) ==
    /\ pAt[p] = "exists"
    /\ Proceeds(p, IF pKey = "absent" THEN "create" ELSE "validate")
    /\ UNCHANGED <<pKey, voiceVars>>

(* A slip: without O_EXCL a file made since then is truncated.              *)
CreateOver(p) ==
    /\ pAt[p] = "create"
    /\ pKey' = "empty" /\ Proceeds(p, "write")
    /\ UNCHANGED voiceVars

(* O_CREAT | O_EXCL, mode 0600; FileExistsError ends the other one.         *)
Create(p) ==
    /\ pAt[p] = "create"
    /\ IF pKey = "absent" THEN pKey' = "empty" /\ Proceeds(p, "write")
       ELSE Quits(p) /\ UNCHANGED pKey
    /\ UNCHANGED voiceVars

WriteKey(p) ==
    /\ pAt[p] = "write"
    /\ pKey' = p /\ Proceeds(p, "validate")
    /\ UNCHANGED voiceVars

(* The pattern refuses an empty file, stat() an absent one. A service goes   *)
(* on as its server (exec), the gateway puts the credential into nginx.conf, *)
(* init is done.                                                             *)
Validate(p) ==
    /\ pAt[p] = "validate" /\ pKey \in Programs
    /\ CASE Role[p] = "service" -> Proceeds(p, "runtime")
         [] Role[p] = "gateway" -> /\ pAt' = [pAt EXCEPT ![p] = "up"]
                                   /\ pToken' = [pToken EXCEPT ![p] = pKey]
                                   /\ UNCHANGED pLoaded
         [] OTHER -> Quits(p)
    /\ UNCHANGED <<pKey, voiceVars>>

-----------------------------------------------------------------------------
(* server.py, and the monitor's Collector.                                  *)

(* load_runtime_config(): the voice is verified once more.                  *)
LoadRuntimeConfig(p) ==
    /\ pAt[p] = "runtime"
    /\ pVoice = "pinned" /\ Proceeds(p, "key")
    /\ UNCHANGED <<pKey, voiceVars>>

(* read_text().strip(), unchecked; only the monitor may find no file.       *)
ReadKey(p) ==
    /\ pAt[p] = "key" /\ pKey # "absent"
    /\ pToken' = [pToken EXCEPT ![p] = pKey]
    /\ pAt' = [pAt EXCEPT ![p] = IF Role[p] = "service" THEN "load" ELSE "up"]
    /\ UNCHANGED <<pKey, voiceVars, pLoaded>>

(* load_engine(): the model takes its time, then the voice is registered.   *)
LoadEngine(p) ==
    /\ pAt[p] = "load" /\ pVoice # "absent"
    /\ pLoaded' = [pLoaded EXCEPT ![p] = pVoice]
    /\ pAt' = [pAt EXCEPT ![p] = "up"]
    /\ UNCHANGED <<pKey, voiceVars, pToken>>

-----------------------------------------------------------------------------
(* prepare_voice(): every run of it writes the same temporary file, without  *)
(* a lock.                                                                  *)

(* Downloads and transcripts agree; torchaudio.save() opens the draft, which *)
(* empties the file another run may be writing or have compared.            *)
Derive(p) ==
    /\ pAt[p] = "derive"
    /\ pDraft' = "other" /\ pFile' = [pFile EXCEPT ![p] = "draft"]
    /\ pOverlapped' = (pOverlapped \/ \E q \in Programs : pAt[q] \in Preparing)
    /\ Proceeds(p, "saving")
    /\ UNCHANGED <<pKey, pVoice>>

(* The audio is written, to the file that was opened and wherever that is by *)
(* now: bit for bit what the manifest pins, or not.                         *)
Save(p) ==
    /\ pAt[p] = "saving"
    /\ \E content \in {"pinned", "other"} :
          /\ pDraft' = IF pFile[p] = "draft" THEN content ELSE pDraft
          /\ pVoice' = IF pFile[p] = "voice" THEN content ELSE pVoice
    /\ pFile' = [pFile EXCEPT ![p] = "none"]
    /\ Proceeds(p, "saved")
    /\ UNCHANGED <<pKey, pOverlapped>>

(* The checksum; another run may have taken the file away.                  *)
Compare(p) ==
    /\ pAt[p] = "saved"
    /\ CASE pDraft = "pinned" -> Proceeds(p, "publish")
         [] pDraft = "other"  -> Proceeds(p, "discard")
         [] OTHER             -> Quits(p)
    /\ UNCHANGED <<pKey, voiceVars>>

(* unlink(missing_ok=True), and the mismatch is reported.                   *)
Discard(p) ==
    /\ pAt[p] = "discard" /\ Quits(p)
    /\ pDraft' = "absent"
    /\ pFile' = [q \in Programs |-> IF pFile[q] = "draft" THEN "gone" ELSE pFile[q]]
    /\ UNCHANGED <<pKey, pVoice, pOverlapped>>

(* chmod() and os.replace() of whatever has the name; what follows only     *)
(* verifies.                                                                *)
PublishVoice(p) ==
    /\ pAt[p] = "publish" /\ Quits(p)
    /\ IF pDraft = "absent" THEN UNCHANGED voiceVars
       ELSE /\ pVoice' = pDraft /\ pDraft' = "absent"
            /\ pFile' = [q \in Programs |-> CASE pFile[q] = "draft" -> "voice"
                                              [] pFile[q] = "voice" -> "gone"
                                              [] OTHER -> pFile[q]]
            /\ UNCHANGED pOverlapped
    /\ UNCHANGED pKey

ProvisioningNext ==
    \E p \in Programs :
       \/ Launch(p) \/ Ended(p) \/ Config(p) \/ PortProbe(p)
       \/ KeyExists(p) \/ Create(p) \/ WriteKey(p) \/ Validate(p)
       \/ LoadRuntimeConfig(p) \/ ReadKey(p) \/ LoadEngine(p)
       \/ Derive(p) \/ Save(p) \/ Compare(p) \/ Discard(p) \/ PublishVoice(p)

ProvisioningSpec == ProvisioningInit /\ [][ProvisioningNext]_provisioningVars

-----------------------------------------------------------------------------
(* Properties.                                                              *)

(* What a server checked is what it still runs with. However the programs   *)
(* overlap, die and are run again, all of them hold the same credential, and *)
(* a server's and the gateway's is never the empty file of an init that has  *)
(* not written yet (init_key, secret). The voice registered long after its   *)
(* verification is the pinned one as long as no two runs of prepare-voice    *)
(* had the draft at once: each of them then writes into the file the other   *)
(* has compared, and publishes it (prepare_voice, load_runtime_config).      *)
HoldersAgree ==
    /\ Cardinality({pToken[p] : p \in Programs} \ {"none", "empty"}) <= 1
    /\ \A p \in Programs : pToken[p] = "empty" => Role[p] = "monitor"
    /\ pOverlapped \/ \A p \in Programs : pLoaded[p] # "other"
=============================================================================

--------------------- MODULE InferenceScheduler_proofs ---------------------
(***************************************************************************)
(* The safety of InferenceScheduler for any number of callers and closers, *)
(* any queue capacity and any batch size.                                  *)
(***************************************************************************)
EXTENDS InferenceScheduler, TLAPS

(* The values of F occur at most once in s.                                 *)
Once(s, F) == \A i, j \in DOMAIN s : s[i] = s[j] /\ s[i] \in F => i = j

(* The elements of s are in the order of the relation R.                    *)
Chain(s, R) == \A i, j \in DOMAIN s : i < j => <<s[i], s[j]>> \in R

-----------------------------------------------------------------------------
(* Lemmas about sequences.                                                 *)

(* Appending adds one element to the set of a sequence.                     *)
LEMMA ToSetAppend ==
    ASSUME NEW S, NEW s \in Seq(S), NEW e \in S
    PROVE  /\ ToSet(Append(s, e)) = ToSet(s) \cup {e}
           /\ Append(s, e) \in Seq(S)
           /\ Len(Append(s, e)) = Len(s) + 1
<1>0. Append(s, e) \in Seq(S) /\ Len(Append(s, e)) = Len(s) + 1
  OBVIOUS
<1>1. ASSUME NEW x \in ToSet(Append(s, e)) PROVE x \in ToSet(s) \cup {e}
  BY <1>1 DEF ToSet
<1>2. ASSUME NEW x \in ToSet(s) PROVE x \in ToSet(Append(s, e))
  BY <1>2 DEF ToSet
<1>3. e \in ToSet(Append(s, e))
  <2>1. Append(s, e)[Len(s) + 1] = e /\ Len(s) + 1 \in DOMAIN Append(s, e)
    OBVIOUS
  <2> QED BY <2>1 DEF ToSet
<1> QED BY <1>0, <1>1, <1>2, <1>3

(* A non-empty sequence is its head and its tail.                           *)
LEMMA ToSetHeadTail ==
    ASSUME NEW S, NEW s \in Seq(S), s # << >>
    PROVE  /\ Head(s) \in S
           /\ Tail(s) \in Seq(S)
           /\ Len(Tail(s)) = Len(s) - 1
           /\ ToSet(s) = {Head(s)} \cup ToSet(Tail(s))
<1>1. /\ Head(s) \in S /\ Tail(s) \in Seq(S) /\ Len(Tail(s)) = Len(s) - 1
      /\ Head(s) = s[1] /\ 1 \in DOMAIN s
  OBVIOUS
<1>2. ASSUME NEW x \in ToSet(s) PROVE x \in {Head(s)} \cup ToSet(Tail(s))
  <2>1. PICK i \in DOMAIN s : x = s[i]
    BY <1>2 DEF ToSet
  <2>2. CASE i = 1
    BY <2>1, <2>2, <1>1
  <2>3. CASE i # 1
    <3>1. i - 1 \in DOMAIN Tail(s) /\ Tail(s)[i - 1] = s[i]
      BY <2>3
    <3> QED BY <3>1, <2>1 DEF ToSet
  <2> QED BY <2>2, <2>3
<1>3. ASSUME NEW x \in ToSet(Tail(s)) PROVE x \in ToSet(s)
  <2>1. PICK i \in DOMAIN Tail(s) : x = Tail(s)[i]
    BY <1>3 DEF ToSet
  <2>2. i + 1 \in DOMAIN s /\ s[i + 1] = Tail(s)[i]
    OBVIOUS
  <2> QED BY <2>1, <2>2 DEF ToSet
<1>4. Head(s) \in ToSet(s)
  BY <1>1 DEF ToSet
<1> QED BY <1>1, <1>2, <1>3, <1>4

(* The set of a short sequence.                                             *)
LEMMA ToSetShort ==
    /\ ToSet(<< >>) = {}
    /\ \A e : ToSet(<<e>>) = {e}
BY DEF ToSet

(* The set of a concatenation.                                              *)
LEMMA ToSetConcat ==
    ASSUME NEW S, NEW s \in Seq(S), NEW t \in Seq(S)
    PROVE  /\ s \o t \in Seq(S)
           /\ ToSet(s \o t) = ToSet(s) \cup ToSet(t)
<1>1. s \o t \in Seq(S)
  OBVIOUS
<1>2. ASSUME NEW x \in ToSet(s \o t) PROVE x \in ToSet(s) \cup ToSet(t)
  <2>1. PICK i \in DOMAIN (s \o t) : x = (s \o t)[i]
    BY <1>2 DEF ToSet
  <2>2. CASE i <= Len(s)
    <3>1. i \in DOMAIN s /\ x = s[i]
      BY <2>1, <2>2
    <3> QED BY <3>1 DEF ToSet
  <2>3. CASE i > Len(s)
    <3>1. i - Len(s) \in DOMAIN t /\ x = t[i - Len(s)]
      BY <2>1, <2>3
    <3> QED BY <3>1 DEF ToSet
  <2> QED BY <2>1, <2>2, <2>3
<1>3. ASSUME NEW x \in ToSet(s) PROVE x \in ToSet(s \o t)
  <2>1. PICK i \in DOMAIN s : x = s[i]
    BY <1>3 DEF ToSet
  <2>2. i \in DOMAIN (s \o t) /\ (s \o t)[i] = s[i]
    OBVIOUS
  <2> QED BY <2>1, <2>2 DEF ToSet
<1>4. ASSUME NEW x \in ToSet(t) PROVE x \in ToSet(s \o t)
  <2>1. PICK i \in DOMAIN t : x = t[i]
    BY <1>4 DEF ToSet
  <2>2. i + Len(s) \in DOMAIN (s \o t) /\ (s \o t)[i + Len(s)] = t[i]
    OBVIOUS
  <2> QED BY <2>1, <2>2 DEF ToSet
<1> QED BY <1>1, <1>2, <1>3, <1>4

(* Appending a new value keeps the values of F unique.                      *)
LEMMA OnceAppend ==
    ASSUME NEW S, NEW F, NEW s \in Seq(S), NEW e \in S,
           Once(s, F), e \in F => e \notin ToSet(s)
    PROVE  Once(Append(s, e), F)
BY DEF Once, ToSet

(* The head of a sequence without repetition does not recur in its tail.    *)
LEMMA OnceTail ==
    ASSUME NEW S, NEW F, NEW s \in Seq(S), s # << >>, Once(s, F)
    PROVE  /\ Once(Tail(s), F)
           /\ Head(s) \in F => Head(s) \notin ToSet(Tail(s))
<1>1. \A i \in DOMAIN Tail(s) : i + 1 \in DOMAIN s /\ Tail(s)[i] = s[i + 1]
  OBVIOUS
<1>2. Head(s) = s[1] /\ 1 \in DOMAIN s
  OBVIOUS
<1>3. \A i \in DOMAIN Tail(s) : i \in Nat /\ i + 1 # 1
  OBVIOUS
<1>4. Once(Tail(s), F)
  <2> SUFFICES ASSUME NEW i \in DOMAIN Tail(s), NEW j \in DOMAIN Tail(s),
                      Tail(s)[i] = Tail(s)[j], Tail(s)[i] \in F
               PROVE  i = j
    BY DEF Once
  <2>1. i + 1 = j + 1
    BY <1>1 DEF Once
  <2> QED BY <2>1, <1>3
<1>5. Head(s) \in F => Head(s) \notin ToSet(Tail(s))
  <2> SUFFICES ASSUME Head(s) \in F, NEW i \in DOMAIN Tail(s), Tail(s)[i] = Head(s)
               PROVE  FALSE
    BY DEF ToSet
  <2> QED BY <1>1, <1>2, <1>3 DEF Once
<1> QED BY <1>4, <1>5

(* Two sequences without a value in common repeat none together.            *)
LEMMA OnceConcat ==
    ASSUME NEW S, NEW F, NEW s \in Seq(S), NEW t \in Seq(S),
           Once(s, F), Once(t, F), ToSet(s) \cap ToSet(t) = {}
    PROVE  Once(s \o t, F)
<1> SUFFICES ASSUME NEW i \in DOMAIN (s \o t), NEW j \in DOMAIN (s \o t),
                    (s \o t)[i] = (s \o t)[j], (s \o t)[i] \in F
             PROVE  i = j
  BY DEF Once
<1>1. ASSUME NEW k \in DOMAIN (s \o t)
      PROVE  \/ /\ k \in DOMAIN s /\ (s \o t)[k] = s[k]
                /\ (s \o t)[k] \in ToSet(s)
             \/ /\ k - Len(s) \in DOMAIN t /\ (s \o t)[k] = t[k - Len(s)]
                /\ (s \o t)[k] \in ToSet(t)
  <2>1. \/ k \in DOMAIN s /\ (s \o t)[k] = s[k]
        \/ k - Len(s) \in DOMAIN t /\ (s \o t)[k] = t[k - Len(s)]
    OBVIOUS
  <2> QED BY <2>1 DEF ToSet
<1>2. \/ i \in DOMAIN s /\ j \in DOMAIN s /\ s[i] = s[j] /\ s[i] \in F
      \/ /\ i - Len(s) \in DOMAIN t /\ j - Len(s) \in DOMAIN t
         /\ t[i - Len(s)] = t[j - Len(s)] /\ t[i - Len(s)] \in F
  BY <1>1
<1>3. i = j \/ i - Len(s) = j - Len(s)
  BY <1>2 DEF Once
<1> QED BY <1>3

(* A sequence in the order of a relation keeps it when a later element      *)
(* joins.                                                                   *)
LEMMA ChainAppend ==
    ASSUME NEW S, NEW R, NEW s \in Seq(S), Chain(s, R), NEW e \in S, ToSet(s) \X {e} \subseteq R
    PROVE  Chain(Append(s, e), R)
<1> SUFFICES ASSUME NEW i \in DOMAIN Append(s, e), NEW j \in DOMAIN Append(s, e), i < j
             PROVE  <<Append(s, e)[i], Append(s, e)[j]>> \in R
  BY DEF Chain
<1>1. i \in DOMAIN s /\ Append(s, e)[i] = s[i]
  OBVIOUS
<1>2. CASE j \in DOMAIN s
  BY <1>1, <1>2 DEF Chain
<1>3. CASE j \notin DOMAIN s
  <2>1. Append(s, e)[j] = e
    BY <1>3
  <2>2. s[i] \in ToSet(s)
    BY <1>1 DEF ToSet
  <2> QED BY <1>1, <2>1, <2>2
<1> QED BY <1>2, <1>3

(* The head of such a sequence is before its tail.                          *)
LEMMA ChainTail ==
    ASSUME NEW S, NEW R, NEW s \in Seq(S), Chain(s, R), s # << >>
    PROVE  Chain(Tail(s), R) /\ {Head(s)} \X ToSet(Tail(s)) \subseteq R
<1>1. \A i \in DOMAIN Tail(s) : i + 1 \in DOMAIN s /\ Tail(s)[i] = s[i + 1] /\ i \in Nat \ {0}
  OBVIOUS
<1>2. Head(s) = s[1] /\ 1 \in DOMAIN s
  OBVIOUS
<1>3. Chain(Tail(s), R)
  <2> SUFFICES ASSUME NEW i \in DOMAIN Tail(s), NEW j \in DOMAIN Tail(s), i < j
               PROVE  <<Tail(s)[i], Tail(s)[j]>> \in R
    BY DEF Chain
  <2>1. i + 1 < j + 1
    BY <1>1
  <2> QED BY <1>1, <2>1 DEF Chain
<1>4. ASSUME NEW i \in DOMAIN Tail(s) PROVE <<Head(s), Tail(s)[i]>> \in R
  <2>1. 1 < i + 1
    BY <1>1
  <2> QED BY <1>1, <1>2, <2>1 DEF Chain
<1> QED BY <1>3, <1>4 DEF ToSet

(* One such sequence may follow another that is before it.                  *)
LEMMA ChainConcat ==
    ASSUME NEW S, NEW R, NEW s \in Seq(S), Chain(s, R), NEW t \in Seq(S), Chain(t, R),
           ToSet(s) \X ToSet(t) \subseteq R
    PROVE  Chain(s \o t, R)
<1> SUFFICES ASSUME NEW i \in DOMAIN (s \o t), NEW j \in DOMAIN (s \o t), i < j
             PROVE  <<(s \o t)[i], (s \o t)[j]>> \in R
  BY DEF Chain
<1>1. ASSUME NEW k \in DOMAIN (s \o t)
      PROVE  \/ k \in DOMAIN s /\ (s \o t)[k] = s[k]
             \/ k > Len(s) /\ k - Len(s) \in DOMAIN t /\ (s \o t)[k] = t[k - Len(s)]
  OBVIOUS
<1>2. CASE j \in DOMAIN s
  BY <1>1, <1>2 DEF Chain
<1>3. CASE j > Len(s) /\ i \in DOMAIN s
  <2>1. (s \o t)[i] \in ToSet(s) /\ (s \o t)[j] \in ToSet(t)
    BY <1>1, <1>3 DEF ToSet
  <2> QED BY <2>1
<1>4. CASE j > Len(s) /\ i > Len(s)
  <2>1. i - Len(s) < j - Len(s)
    OBVIOUS
  <2> QED BY <1>1, <1>4, <2>1 DEF Chain
<1> QED BY <1>1, <1>2, <1>3, <1>4

(* How StopsLast survives the three things that happen to a queue.          *)
LEMMA StopsLastSteps ==
    ASSUME NEW S, NEW q \in Seq(S), StopsLast(q)
    PROVE  /\ Stop \in S => StopsLast(Append(q, Stop))
           /\ \A e \in S : Stop \notin ToSet(q) => StopsLast(Append(q, e))
           /\ q # << >> => StopsLast(Tail(q))
           /\ q # << >> /\ Head(q) = Stop => ToSet(q) \subseteq {Stop}
<1>1. ASSUME Stop \in S PROVE StopsLast(Append(q, Stop))
  BY <1>1 DEF StopsLast
<1>2. ASSUME NEW e \in S, Stop \notin ToSet(q) PROVE StopsLast(Append(q, e))
  <2> SUFFICES ASSUME NEW i \in DOMAIN Append(q, e), NEW j \in DOMAIN Append(q, e),
                      i < j, Append(q, e)[i] = Stop
               PROVE  FALSE
    BY DEF StopsLast
  <2>1. i \in DOMAIN q /\ q[i] = Stop
    OBVIOUS
  <2> QED BY <2>1, <1>2 DEF ToSet
<1>3. ASSUME q # << >> PROVE StopsLast(Tail(q))
  <2>1. \A i \in DOMAIN Tail(q) : i + 1 \in DOMAIN q /\ Tail(q)[i] = q[i + 1] /\ i \in Nat
    BY <1>3
  <2> SUFFICES ASSUME NEW i \in DOMAIN Tail(q), NEW j \in DOMAIN Tail(q),
                      i < j, Tail(q)[i] = Stop
               PROVE  Tail(q)[j] = Stop
    BY DEF StopsLast
  <2>2. i + 1 < j + 1
    BY <2>1
  <2> QED BY <2>1, <2>2 DEF StopsLast
<1>4. ASSUME q # << >>, Head(q) = Stop PROVE ToSet(q) \subseteq {Stop}
  <2> SUFFICES ASSUME NEW i \in DOMAIN q PROVE q[i] = Stop
    BY DEF ToSet
  <2>1. q[1] = Stop /\ 1 \in DOMAIN q /\ (i = 1 \/ 1 < i)
    BY <1>4
  <2> QED BY <2>1 DEF StopsLast
<1> QED BY <1>1, <1>2, <1>3, <1>4

-----------------------------------------------------------------------------
(* Type correctness.                                                       *)

(* What the worker's program counter says about its batch.                  *)
Phases ==
    /\ worker \in {"unborn", "get", "reject", "dead"} => batch = << >> /\ active = << >>
    /\ worker = "fill" => active = << >>
    /\ worker = "check" => batch # << >>
    /\ worker = "deliver" => batch = << >> /\ verdict \in DetectorVerdicts

TypeInv == TypeOK /\ Phases

(* The program starts well typed.                                           *)
LEMMA InitTypeInv == Init => TypeInv
<1> SUFFICES ASSUME Init PROVE TypeInv
  OBVIOUS
<1> USE FramesAssumption, LimitsAssumption DEF Init
<1>1. TypeOK
  <2>1. Len(queue) <= QueueCapacity /\ Len(batch) + Len(active) <= BatchSize
    OBVIOUS
  <2>2. /\ queue \in Seq(Frames \cup {Stop})
        /\ batch \in Seq(Frames) /\ active \in Seq(Frames)
        /\ admitted \in Seq(Frames) /\ ran \in Seq(Frames)
    OBVIOUS
  <2> QED BY <2>1, <2>2 DEF TypeOK, FutureStates, CallerStates, CloserStates, WorkerStates
<1>2. Phases
  BY DEF Phases
<1> QED BY <1>1, <1>2 DEF TypeInv

(* Every step of a caller, the worker or close() keeps the types and the    *)
(* sizes of batch and active in each phase of the worker.                   *)
LEMMA NextTypeInv == TypeInv /\ [Next]_vars => TypeInv'
<1> SUFFICES ASSUME TypeInv, [Next]_vars PROVE TypeInv'
  OBVIOUS
<1> USE FramesAssumption, LimitsAssumption DEF TypeInv
<1> USE DEF FutureStates, CallerStates, CloserStates, WorkerStates, Outcomes, Settled,
            DetectorVerdicts
<1>a. /\ accepting \in BOOLEAN /\ stopAfterBatch \in BOOLEAN
      /\ queue \in Seq(Frames \cup {Stop}) /\ Len(queue) <= QueueCapacity
      /\ batch \in Seq(Frames) /\ active \in Seq(Frames) /\ ran \in Seq(Frames)
      /\ Len(batch) + Len(active) <= BatchSize
  BY DEF TypeOK
<1>b. ASSUME queue # << >>
      PROVE  /\ Head(queue) \in Frames \cup {Stop}
             /\ Tail(queue) \in Seq(Frames \cup {Stop})
             /\ Len(Tail(queue)) <= QueueCapacity
  BY <1>a, <1>b
<1>c. ASSUME batch # << >>
      PROVE  /\ Head(batch) \in Frames
             /\ Tail(batch) \in Seq(Frames)
             /\ Len(Tail(batch)) = Len(batch) - 1
  BY <1>a, <1>c
<1>d. ASSUME active # << >>
      PROVE  /\ Head(active) \in Frames
             /\ Tail(active) \in Seq(Frames)
             /\ Len(Tail(active)) = Len(active) - 1
  BY <1>a, <1>d
<1>1. CASE Start
  BY <1>1 DEF Start, TypeOK, Phases, callerVars
<1>2. ASSUME NEW f \in Frames, Submit(f) PROVE TypeInv'
  <2>1. CASE SubmitAccepted(f)
    BY <2>1 DEF SubmitAccepted, Enqueue, TypeOK, Phases, workerVars
  <2>2. CASE SubmitRefused(f)
    BY <2>2 DEF SubmitRefused, TypeOK, Phases, workerVars
  <2> QED BY <1>2, <2>1, <2>2 DEF Submit
<1>3. ASSUME NEW f \in Frames, DeadlinePasses(f) PROVE TypeInv'
  BY <1>3 DEF DeadlinePasses, TypeOK, Phases, workerVars
<1>4. ASSUME NEW f \in Frames, CallerStep(f) PROVE TypeInv'
  <2>1. CASE TakeResult(f)
    BY <2>1 DEF TakeResult, TypeOK, Phases, workerVars
  <2>2. CASE WaitTimesOut(f)
    BY <2>2 DEF WaitTimesOut, TypeOK, Phases, workerVars
  <2>3. CASE CancelWins(f)
    BY <2>3 DEF CancelWins, TypeOK, Phases, workerVars
  <2>4. CASE CancelLoses(f)
    BY <2>4 DEF CancelLoses, TypeOK, Phases, workerVars
  <2> QED BY <1>4, <2>1, <2>2, <2>3, <2>4 DEF CallerStep
<1>5. CASE TakeFirst
  BY <1>5, <1>a, <1>b DEF TakeFirst, TypeOK, Phases, callerVars
<1>6. CASE TakeStop
  BY <1>6, <1>b DEF TakeStop, TypeOK, Phases, callerVars
<1>7. CASE FillBatch
  BY <1>7, <1>a, <1>b DEF FillBatch, TypeOK, Phases, callerVars
<1>8. CASE FillMeetsStop
  BY <1>8, <1>b DEF FillMeetsStop, TypeOK, Phases, callerVars
<1>9. CASE StopFilling
  BY <1>9 DEF StopFilling, TypeOK, Phases, callerVars
<1>10. CASE Claim
  <2>1. CASE future[Head(batch)] = "pending"
    BY <1>10, <2>1, <1>a, <1>c DEF Claim, TypeOK, Phases, callerVars
  <2>2. CASE future[Head(batch)] # "pending"
    <3>1. Len(batch') + Len(active') <= BatchSize
      BY <1>10, <2>2, <1>a, <1>c DEF Claim
    <3> QED BY <1>10, <2>2, <3>1, <1>a, <1>c DEF Claim, TypeOK, Phases, callerVars
  <2> QED BY <2>1, <2>2
<1>11. CASE CheckDeadline
  <2>a. batch # << >>
    BY <1>11 DEF CheckDeadline, Phases
  <2>b. Len(active) \in Nat /\ Len(batch) \in Nat
    BY <1>a
  <2>1. CASE Head(batch) \in overdue
    <3>1. Len(batch') + Len(active') <= BatchSize
      BY <1>11, <2>1, <2>a, <2>b, <1>a, <1>c DEF CheckDeadline
    <3> QED BY <1>11, <2>1, <2>a, <3>1, <1>a, <1>c DEF CheckDeadline, TypeOK, Phases, callerVars
  <2>2. CASE Head(batch) \notin overdue
    <3>0. active' = Append(active, Head(batch)) /\ batch' = Tail(batch)
      BY <1>11, <2>2 DEF CheckDeadline
    <3>1. Len(active') = Len(active) + 1 /\ active' \in Seq(Frames)
      BY <3>0, <2>a, <1>a, <1>c, ToSetAppend
    <3>2. Len(batch') + Len(active') <= BatchSize
      BY <3>0, <3>1, <2>a, <2>b, <1>a, <1>c
    <3> QED BY <1>11, <2>2, <2>a, <3>0, <3>1, <3>2, <1>a, <1>c
            DEF CheckDeadline, TypeOK, Phases, callerVars
  <2> QED BY <2>1, <2>2
<1>12. CASE Detect
  <2>1. CASE DetectRejects
    BY <2>1 DEF DetectRejects, TypeOK, Phases, callerVars
  <2>2. CASE DetectRuns
    <3>1. ran' \in Seq(Frames)
      BY <2>2, <1>a, ToSetConcat DEF DetectRuns
    <3> QED BY <2>2, <3>1 DEF DetectRuns, TypeOK, Phases, callerVars
  <2>3. CASE DetectFailsEarly
    BY <2>3 DEF DetectFailsEarly, TypeOK, Phases, callerVars
  <2> QED BY <1>12, <2>1, <2>2, <2>3 DEF Detect
<1>13. CASE Deliver
  BY <1>13, <1>a, <1>d DEF Deliver, TypeOK, Phases, callerVars
<1>14. CASE EndBatch
  BY <1>14 DEF EndBatch, TypeOK, Phases, callerVars
<1>15. CASE RejectNext
  BY <1>15, <1>b DEF RejectNext, TypeOK, Phases, callerVars, workerVars
<1>16. CASE WorkerEnds
  BY <1>16 DEF WorkerEnds, TypeOK, Phases, callerVars
<1>17. ASSUME NEW c \in Closers, CloserStep(c) PROVE TypeInv'
  <2>1. CASE BeginClose(c)
    BY <2>1 DEF BeginClose, TypeOK, Phases, callerVars, workerVars
  <2>2. CASE PutStop(c)
    BY <2>2, <1>a DEF PutStop, TypeOK, Phases, callerVars, workerVars
  <2>3. CASE Join(c)
    BY <2>3 DEF Join, TypeOK, Phases, callerVars, workerVars
  <2>4. CASE CloseTimesOut(c)
    BY <2>4 DEF CloseTimesOut, TypeOK, Phases, callerVars, workerVars
  <2> QED BY <1>17, <2>1, <2>2, <2>3, <2>4 DEF CloserStep
<1>18. CASE UNCHANGED vars
  BY <1>18 DEF vars, callerVars, workerVars, TypeOK, Phases
<1> QED BY <1>1, <1>2, <1>3, <1>4, <1>5, <1>6, <1>7, <1>8, <1>9, <1>10, <1>11, <1>12,
           <1>13, <1>14, <1>15, <1>16, <1>17, <1>18 DEF Next, WorkerStep

(* Every variable keeps its type, the queue stays within its capacity and   *)
(* the frames in flight within the batch size.                              *)
THEOREM TypeCorrect == Spec => []TypeOK
<1>1. TypeInv => TypeOK
  BY DEF TypeInv
<1> QED BY InitTypeInv, NextTypeInv, <1>1, PTL DEF Spec

(* The same with Phases, for use below.                                     *)
THEOREM TypeAlways == Spec => []TypeInv
BY InitTypeInv, NextTypeInv, PTL DEF Spec

-----------------------------------------------------------------------------
(* Admission: what close() and the _STOP marker guarantee.                 *)

Admission ==
    /\ accepting => /\ worker \notin {"unborn", "reject", "dead"}
                    /\ ~stopAfterBatch
                    /\ Stop \notin ToSet(queue)
    /\ worker = "unborn" => queue = << >> /\ ~stopAfterBatch
    /\ \A c \in Closers :
          /\ closer[c] \in {"putting", "joining", "stopped", "gaveup"} =>
                ~accepting /\ worker # "unborn"
          /\ closer[c] = "stopped" => worker = "dead"
    /\ NoFrameBehindStop

(* Nothing is queued and nobody closes at the start.                        *)
LEMMA InitAdmission == Init => Admission
<1> SUFFICES ASSUME Init PROVE Admission
  OBVIOUS
<1>1. StopsLast(queue)
  BY DEF Init, StopsLast
<1> QED BY <1>1 DEF Init, Admission, NoFrameBehindStop

(* Every step keeps the order of frames and _STOP: submit() and close()     *)
(* change _accepting and the queue inside one critical section.             *)
LEMMA NextAdmission == TypeInv /\ Admission /\ [Next]_vars => Admission'
<1> SUFFICES ASSUME TypeInv, Admission, [Next]_vars PROVE Admission'
  OBVIOUS
<1> DEFINE S == Frames \cup {Stop}
<1>a. /\ queue \in Seq(S) /\ stopAfterBatch \in BOOLEAN /\ accepting \in BOOLEAN
      /\ closer \in [Closers -> CloserStates] /\ StopsLast(queue)
      /\ Stop \notin Frames
  BY FramesAssumption DEF TypeInv, TypeOK, Admission, NoFrameBehindStop
<1>b. ASSUME queue # << >>
      PROVE  /\ ToSet(queue) = {Head(queue)} \cup ToSet(Tail(queue))
             /\ StopsLast(Tail(queue))
             /\ Head(queue) = Stop => ToSet(queue) \subseteq {Stop}
  BY <1>a, <1>b, ToSetHeadTail, StopsLastSteps
<1> USE DEF Admission, NoFrameBehindStop
<1>1. CASE Start
  BY <1>1, ToSetShort DEF Start, callerVars
<1>2. ASSUME NEW f \in Frames, Submit(f) PROVE Admission'
  <2>1. CASE SubmitAccepted(f)
    <3>1. queue' = Append(queue, f) /\ f \in S /\ f # Stop
      BY <2>1, <1>a DEF SubmitAccepted, Enqueue
    <3>2. ToSet(queue') = ToSet(queue) \cup {f}
      BY <3>1, <1>a, ToSetAppend
    <3>3. accepting /\ Stop \notin ToSet(queue)
      BY <2>1 DEF SubmitAccepted
    <3>4. StopsLast(queue')
      BY <3>1, <3>3, <1>a, StopsLastSteps
    <3> QED BY <2>1, <3>1, <3>2, <3>3, <3>4 DEF SubmitAccepted, workerVars
  <2>2. CASE SubmitRefused(f)
    BY <2>2 DEF SubmitRefused, workerVars
  <2> QED BY <1>2, <2>1, <2>2 DEF Submit
<1>3. ASSUME NEW f \in Frames, DeadlinePasses(f) PROVE Admission'
  BY <1>3 DEF DeadlinePasses, workerVars
<1>4. ASSUME NEW f \in Frames, CallerStep(f) PROVE Admission'
  BY <1>4 DEF CallerStep, TakeResult, WaitTimesOut, CancelWins, CancelLoses, workerVars
<1>5. CASE TakeFirst
  BY <1>5, <1>b DEF TakeFirst
<1>6. CASE TakeStop
  BY <1>6, <1>b, ToSetHeadTail DEF TakeStop
<1>7. CASE FillBatch
  BY <1>7, <1>b DEF FillBatch
<1>8. CASE FillMeetsStop
  BY <1>8, <1>b DEF FillMeetsStop
<1>9. CASE StopFilling
  BY <1>9 DEF StopFilling
<1>10. CASE Claim
  BY <1>10 DEF Claim
<1>11. CASE CheckDeadline
  BY <1>11 DEF CheckDeadline
<1>12. CASE Detect
  BY <1>12 DEF Detect, DetectRejects, DetectRuns, DetectFailsEarly
<1>13. CASE Deliver
  BY <1>13 DEF Deliver
<1>14. CASE EndBatch
  BY <1>14 DEF EndBatch
<1>15. CASE RejectNext
  BY <1>15, <1>b DEF RejectNext, workerVars
<1>16. CASE WorkerEnds
  BY <1>16 DEF WorkerEnds
<1>17. ASSUME NEW c \in Closers, CloserStep(c) PROVE Admission'
  <2>1. CASE BeginClose(c)
    BY <2>1, <1>a DEF BeginClose, workerVars
  <2>2. CASE PutStop(c)
    <3>1. queue' = Append(queue, Stop) /\ ~accepting /\ worker # "unborn"
      BY <2>2 DEF PutStop
    <3>2. ToSet(queue') = ToSet(queue) \cup {Stop}
      BY <3>1, <1>a, ToSetAppend
    <3>3. StopsLast(queue')
      BY <3>1, <1>a, StopsLastSteps
    <3> QED BY <2>2, <3>1, <3>2, <3>3, <1>a DEF PutStop, workerVars
  <2>3. CASE Join(c)
    BY <2>3, <1>a DEF Join, workerVars
  <2>4. CASE CloseTimesOut(c)
    BY <2>4, <1>a DEF CloseTimesOut, workerVars
  <2> QED BY <1>17, <2>1, <2>2, <2>3, <2>4 DEF CloserStep
<1>18. CASE UNCHANGED vars
  BY <1>18 DEF vars, callerVars, workerVars
<1> QED BY <1>1, <1>2, <1>3, <1>4, <1>5, <1>6, <1>7, <1>8, <1>9, <1>10, <1>11, <1>12,
           <1>13, <1>14, <1>15, <1>16, <1>17, <1>18 DEF Next, WorkerStep

(* After close() cleared _accepting nothing joins the queue behind _STOP.   *)
THEOREM AdmissionAlways == Spec => []Admission
BY InitAdmission, NextAdmission, TypeAlways, PTL DEF Spec

(* Nothing is ever queued behind _STOP, and a worker past _STOP leaves no   *)
(* frame in the queue, for every capacity and any number of close() calls.  *)
THEOREM StopIsLast == Spec => []NoFrameBehindStop
<1>1. Admission => NoFrameBehindStop
  BY DEF Admission
<1> QED BY AdmissionAlways, <1>1, PTL

-----------------------------------------------------------------------------
(* Places: where a frame is says what state its future is in.              *)

Places ==
    /\ \A f \in Frames :
          /\ Unsettled(f) => f \in Held
          /\ f \in ToSet(queue) => future[f] \in {"pending", "cancelled"}
          /\ f \in ToSet(batch) => \/ future[f] \in {"pending", "cancelled"}
                                   \/ worker = "check" /\ f = Head(batch)
          /\ f \in ToSet(active) => future[f] = "running"
          /\ caller[f] = "idle" => future[f] = "none"
    /\ worker = "check" => future[Head(batch)] = "running"
    /\ ToSet(queue) \cap ToSet(batch) = {}
    /\ ToSet(batch) \cap ToSet(active) = {}
    /\ Once(queue, Frames)
    /\ Once(batch, Frames)
    /\ Once(active, Frames)

(* No frame is anywhere at the start.                                       *)
LEMMA InitPlaces == Init => Places
BY DEF Init, Places, Unsettled, Held, ToSet, Once

(* Every step moves a frame at most once, so that it stays in one place     *)
(* that fits the state of its future.                                       *)
LEMMA NextPlaces == TypeInv /\ Admission /\ Places /\ [Next]_vars => Places'
<1> SUFFICES ASSUME TypeInv, Admission, Places, [Next]_vars PROVE Places'
  OBVIOUS
<1> DEFINE S == Frames \cup {Stop}
<1>a. /\ queue \in Seq(S) /\ batch \in Seq(Frames) /\ active \in Seq(Frames)
      /\ future \in [Frames -> FutureStates] /\ caller \in [Frames -> CallerStates]
      /\ ToSet(batch) \subseteq Frames /\ ToSet(active) \subseteq Frames
      /\ Stop \notin Frames
  BY FramesAssumption DEF TypeInv, TypeOK, ToSet
<1>b. ASSUME queue # << >>
      PROVE  /\ ToSet(queue) = {Head(queue)} \cup ToSet(Tail(queue))
             /\ Once(Tail(queue), Frames)
             /\ Head(queue) \in Frames => Head(queue) \notin ToSet(Tail(queue))
             /\ Head(queue) # Stop => Head(queue) \in Frames
  BY <1>a, <1>b, ToSetHeadTail, OnceTail DEF Places
<1>c. ASSUME batch # << >>
      PROVE  /\ ToSet(batch) = {Head(batch)} \cup ToSet(Tail(batch))
             /\ Once(Tail(batch), Frames)
             /\ Head(batch) \in Frames
             /\ Head(batch) \notin ToSet(Tail(batch))
  BY <1>a, <1>c, ToSetHeadTail, OnceTail DEF Places
<1>d. ASSUME active # << >>
      PROVE  /\ ToSet(active) = {Head(active)} \cup ToSet(Tail(active))
             /\ Once(Tail(active), Frames)
             /\ Head(active) \in Frames
             /\ Head(active) \notin ToSet(Tail(active))
  BY <1>a, <1>d, ToSetHeadTail, OnceTail DEF Places
<1> USE DEF Places, Unsettled, Held
<1>1. CASE Start
  BY <1>1 DEF Start, TypeInv, Phases, callerVars
<1>2. ASSUME NEW f \in Frames, Submit(f) PROVE Places'
  <2>1. CASE SubmitAccepted(f)
    <3>1. queue' = Append(queue, f) /\ f \in S
      BY <2>1 DEF SubmitAccepted, Enqueue
    <3>2. ToSet(queue') = ToSet(queue) \cup {f}
      BY <3>1, <1>a, ToSetAppend, SMTT(30)
    <3>3. future[f] = "none"
      BY <2>1 DEF SubmitAccepted
    <3>4. f \notin ToSet(queue) /\ f \notin ToSet(batch) /\ f \notin ToSet(active)
      BY <3>3
    <3>5. Once(queue', Frames)
      BY <3>1, <3>4, <1>a, OnceAppend
    <3>6. /\ future' = [future EXCEPT ![f] = "pending"]
          /\ caller' = [caller EXCEPT ![f] = "waiting"]
          /\ UNCHANGED <<batch, active, worker>>
      BY <2>1 DEF SubmitAccepted, Enqueue, workerVars
    <3>7. worker = "check" => Head(batch) \in ToSet(batch)
      BY <1>c DEF TypeInv, Phases
    <3> QED BY <3>2, <3>4, <3>5, <3>6, <3>7, <1>a
  <2>2. CASE SubmitRefused(f)
    BY <2>2, <1>a DEF SubmitRefused, workerVars
  <2> QED BY <1>2, <2>1, <2>2 DEF Submit
<1>3. ASSUME NEW f \in Frames, DeadlinePasses(f) PROVE Places'
  BY <1>3 DEF DeadlinePasses, workerVars
<1>4. ASSUME NEW f \in Frames, CallerStep(f) PROVE Places'
  <2>1. CASE TakeResult(f)
    BY <2>1, <1>a DEF TakeResult, workerVars, Settled, DetectorVerdicts
  <2>2. CASE WaitTimesOut(f)
    BY <2>2, <1>a DEF WaitTimesOut, workerVars
  <2>3. CASE CancelWins(f)
    BY <2>3, <1>a DEF CancelWins, workerVars
  <2>4. CASE CancelLoses(f)
    BY <2>4, <1>a DEF CancelLoses, workerVars
  <2> QED BY <1>4, <2>1, <2>2, <2>3, <2>4 DEF CallerStep
<1>5. CASE TakeFirst
  <2>1. /\ queue # << >> /\ Head(queue) \in Frames
        /\ queue' = Tail(queue) /\ batch' = <<Head(queue)>> /\ worker' = "fill"
        /\ batch = << >> /\ active = << >>
        /\ UNCHANGED <<future, caller, active>>
    BY <1>5, <1>b DEF TakeFirst, TypeInv, Phases, callerVars
  <2>2. ToSet(batch') = {Head(queue)} /\ ToSet(batch) = {} /\ ToSet(active) = {}
    BY <2>1, ToSetShort
  <2>3. Once(batch', Frames)
    BY <2>1 DEF Once
  <2> QED BY <1>5, <2>1, <2>2, <2>3, <1>b DEF TakeFirst
<1>6. CASE TakeStop
  BY <1>6, <1>a, <1>b DEF TakeStop, callerVars
<1>7. CASE FillBatch
  <2>1. /\ queue # << >> /\ Head(queue) \in Frames
        /\ queue' = Tail(queue) /\ batch' = Append(batch, Head(queue))
        /\ active = << >> /\ worker = "fill"
        /\ UNCHANGED <<future, caller, active, worker>>
    BY <1>7, <1>b DEF FillBatch, TypeInv, Phases, callerVars
  <2>2. ToSet(batch') = ToSet(batch) \cup {Head(queue)} /\ ToSet(active) = {}
    BY <2>1, <1>a, ToSetAppend, ToSetShort
  <2>3. Head(queue) \notin ToSet(batch)
    BY <2>1, <1>b
  <2>4. Once(batch', Frames)
    BY <2>1, <2>3, <1>a, OnceAppend
  <2> QED BY <2>1, <2>2, <2>3, <2>4, <1>b
<1>8. CASE FillMeetsStop
  BY <1>8, <1>a, <1>b DEF FillMeetsStop, callerVars
<1>9. CASE StopFilling
  BY <1>9 DEF StopFilling, callerVars
<1>10. CASE Claim
  <2>1. CASE future[Head(batch)] = "pending"
    BY <1>10, <2>1, <1>a, <1>c DEF Claim, callerVars
  <2>2. CASE future[Head(batch)] # "pending"
    BY <1>10, <2>2, <1>a, <1>c DEF Claim, callerVars
  <2> QED BY <2>1, <2>2
<1>11. CASE CheckDeadline
  <2>0. batch # << >> /\ future[Head(batch)] = "running"
    BY <1>11 DEF CheckDeadline, TypeInv, Phases
  <2>1. CASE Head(batch) \in overdue
    BY <1>11, <2>0, <2>1, <1>a, <1>c DEF CheckDeadline, callerVars
  <2>2. CASE Head(batch) \notin overdue
    <3>1. /\ active' = Append(active, Head(batch)) /\ batch' = Tail(batch)
          /\ worker = "check" /\ worker' = "claim"
          /\ UNCHANGED <<queue, future, caller>>
      BY <1>11, <2>2 DEF CheckDeadline, callerVars
    <3>2. Head(batch) \in Frames /\ Head(batch) \notin ToSet(active)
      BY <2>0, <1>c
    <3>3. ToSet(active') = ToSet(active) \cup {Head(batch)} /\ Once(active', Frames)
      BY <3>1, <3>2, <1>a, ToSetAppend, OnceAppend
    <3> QED BY <2>0, <3>1, <3>2, <3>3, <1>a, <1>c
  <2> QED BY <2>1, <2>2
<1>12. CASE Detect
  BY <1>12 DEF Detect, DetectRejects, DetectRuns, DetectFailsEarly, callerVars
<1>13. CASE Deliver
  <2>1. /\ active # << >> /\ worker = "deliver" /\ verdict \in DetectorVerdicts
        /\ future' = [future EXCEPT ![Head(active)] = verdict]
        /\ active' = Tail(active) /\ batch = << >>
        /\ UNCHANGED <<queue, batch, caller, worker>>
    BY <1>13 DEF Deliver, TypeInv, Phases, callerVars
  <2>2. Head(active) \notin ToSet(queue) /\ ToSet(batch) = {}
    BY <2>1, <1>d, ToSetShort
  <2> QED BY <2>1, <2>2, <1>a, <1>d DEF DetectorVerdicts
<1>14. CASE EndBatch
  BY <1>14 DEF EndBatch, callerVars
<1>15. CASE RejectNext
  BY <1>15, <1>a, <1>b DEF RejectNext, callerVars, workerVars
<1>16. CASE WorkerEnds
  BY <1>16 DEF WorkerEnds, callerVars
<1>17. ASSUME NEW c \in Closers, CloserStep(c) PROVE Places'
  <2>1. CASE PutStop(c)
    <3>1. queue' = Append(queue, Stop) /\ UNCHANGED <<future, caller, batch, active, worker>>
      BY <2>1 DEF PutStop, callerVars, workerVars
    <3>2. ToSet(queue') = ToSet(queue) \cup {Stop} /\ Once(queue', Frames)
      BY <3>1, <1>a, ToSetAppend, OnceAppend
    <3> QED BY <3>1, <3>2, <1>a
  <2> QED BY <1>17, <2>1 DEF CloserStep, BeginClose, Join, CloseTimesOut, callerVars, workerVars
<1>18. CASE UNCHANGED vars
  BY <1>18 DEF vars, callerVars, workerVars
<1> QED BY <1>1, <1>2, <1>3, <1>4, <1>5, <1>6, <1>7, <1>8, <1>9, <1>10, <1>11, <1>12,
           <1>13, <1>14, <1>15, <1>16, <1>17, <1>18 DEF Next, WorkerStep

(* Every unsettled frame is in exactly one place: the queue, the batch or   *)
(* the active list.                                                         *)
THEOREM PlacesAlways == Spec => []Places
BY InitPlaces, NextPlaces, TypeAlways, AdmissionAlways, PTL DEF Spec

(* set_result() and set_exception() always find a running future, so they   *)
(* cannot raise InvalidStateError and end the worker thread.                *)
THEOREM ClaimsHold == Spec => []ClaimedFramesStayClaimed
<1>1. TypeInv /\ Places => ClaimedFramesStayClaimed
  BY DEF Places, ClaimedFramesStayClaimed, TypeInv, TypeOK, ToSet
<1> QED BY TypeAlways, PlacesAlways, <1>1, PTL

(* No submit() is left waiting on a future nobody will settle.              *)
THEOREM NobodyAbandoned == Spec => []NoAbandonedFrame
<1>1. TypeInv /\ Admission /\ Places => NoAbandonedFrame
  <2> SUFFICES ASSUME TypeInv, Admission, Places, NEW f \in Frames, Unsettled(f)
               PROVE  worker \notin {"unborn", "dead"} /\ f \in Held
    BY DEF NoAbandonedFrame
  <2>1. f \in Held /\ f # Stop
    BY FramesAssumption DEF Places
  <2>2. ASSUME worker \in {"unborn", "dead"} PROVE FALSE
    <3>1. ToSet(batch) = {} /\ ToSet(active) = {}
      BY <2>2, ToSetShort DEF TypeInv, Phases
    <3>2. ToSet(queue) \subseteq {Stop}
      BY <2>2, ToSetShort DEF Admission, NoFrameBehindStop
    <3> QED BY <2>1, <3>1, <3>2 DEF Held
  <2> QED BY <2>1, <2>2
<1> QED BY TypeAlways, AdmissionAlways, PlacesAlways, <1>1, PTL

(* A close() that returns leaves a dead worker and no waiting caller.       *)
THEOREM CloseDrains == Spec => []CloseReturnsDrained
<1>1. Admission /\ NoAbandonedFrame => CloseReturnsDrained
  BY DEF Admission, NoAbandonedFrame, CloseReturnsDrained
<1> QED BY AdmissionAlways, NobodyAbandoned, <1>1, PTL

-----------------------------------------------------------------------------
(* Answers: what a caller was told, and what the model computed, against   *)
(* the state of the future.                                                *)

Answers ==
    /\ \A f \in Frames :
          /\ caller[f] = "overloaded" => future[f] = "none"
          /\ caller[f] = "closed" => future[f] \in {"none", "closed"}
          /\ caller[f] = "expired" => future[f] \in {"cancelled", "expired"}
          /\ caller[f] = "invalid" => future[f] = "invalid"
          /\ f \in ToSet(ran) => future[f] \in {"running", "ok", "failed"}
    /\ worker \in {"claim", "check"} => ToSet(active) \cap ToSet(ran) = {}
    /\ worker = "check" => Head(batch) \notin ToSet(ran)
    /\ worker = "deliver" /\ verdict = "invalid" => ToSet(active) \cap ToSet(ran) = {}

(* Nothing is answered and nothing ran at the start.                        *)
LEMMA InitAnswers == Init => Answers
BY DEF Init, Answers, ToSet

(* Every step that answers or runs a frame keeps refusals and runs apart.   *)
LEMMA NextAnswers == TypeInv /\ Places /\ Answers /\ [Next]_vars => Answers'
<1> SUFFICES ASSUME TypeInv, Places, Answers, [Next]_vars PROVE Answers'
  OBVIOUS
<1>a. /\ batch \in Seq(Frames) /\ active \in Seq(Frames) /\ ran \in Seq(Frames)
      /\ future \in [Frames -> FutureStates] /\ caller \in [Frames -> CallerStates]
      /\ verdict \in DetectorVerdicts \cup {"none"}
  BY DEF TypeInv, TypeOK
<1>b. worker = "fill" => ToSet(active) = {}
  BY ToSetShort DEF TypeInv, Phases
<1>c. ASSUME batch # << >> PROVE Head(batch) \in Frames /\ Head(batch) \in ToSet(batch)
  BY <1>a, <1>c, ToSetHeadTail
<1>d. ASSUME active # << >>
      PROVE  /\ ToSet(active) = {Head(active)} \cup ToSet(Tail(active))
             /\ Head(active) \in Frames
             /\ future[Head(active)] = "running"
  BY <1>a, <1>d, ToSetHeadTail DEF Places
<1> USE DEF Answers
<1>1. CASE Start
  BY <1>1 DEF Start, callerVars
<1>2. ASSUME NEW f \in Frames, Submit(f) PROVE Answers'
  <2>1. caller[f] = "idle" /\ future[f] = "none"
    BY <1>2 DEF Submit, SubmitAccepted, SubmitRefused, Places
  <2>2. CASE SubmitAccepted(f)
    <3>1. f \notin ToSet(ran)
      BY <2>1
    <3>2. /\ future' = [future EXCEPT ![f] = "pending"]
          /\ caller' = [caller EXCEPT ![f] = "waiting"]
          /\ UNCHANGED <<batch, active, worker, verdict, ran>>
      BY <2>2 DEF SubmitAccepted, Enqueue, workerVars
    <3>3. \A g \in Frames : g # f => future'[g] = future[g] /\ caller'[g] = caller[g]
      BY <3>2, <1>a
    <3>4. future'[f] = "pending" /\ caller'[f] = "waiting"
      BY <3>2, <1>a
    <3> QED BY <3>1, <3>2, <3>3, <3>4
  <2>3. CASE SubmitRefused(f)
    BY <2>1, <2>3, <1>a DEF SubmitRefused, workerVars
  <2> QED BY <1>2, <2>2, <2>3 DEF Submit
<1>3. ASSUME NEW f \in Frames, DeadlinePasses(f) PROVE Answers'
  BY <1>3 DEF DeadlinePasses, workerVars
<1>4. ASSUME NEW f \in Frames, CallerStep(f) PROVE Answers'
  <2>1. CASE TakeResult(f)
    BY <2>1, <1>a DEF TakeResult, workerVars, Settled, DetectorVerdicts
  <2>2. CASE WaitTimesOut(f)
    BY <2>2, <1>a DEF WaitTimesOut, workerVars
  <2>3. CASE CancelWins(f)
    BY <2>3, <1>a DEF CancelWins, workerVars
  <2>4. CASE CancelLoses(f)
    BY <2>4, <1>a DEF CancelLoses, workerVars
  <2> QED BY <1>4, <2>1, <2>2, <2>3, <2>4 DEF CallerStep
<1>5. CASE TakeFirst
  BY <1>5 DEF TakeFirst, callerVars
<1>6. CASE TakeStop
  BY <1>6 DEF TakeStop, callerVars
<1>7. CASE FillBatch
  BY <1>7 DEF FillBatch, callerVars
<1>8. CASE FillMeetsStop
  BY <1>8, <1>b DEF FillMeetsStop, callerVars
<1>9. CASE StopFilling
  BY <1>9, <1>b DEF StopFilling, callerVars
<1>10. CASE Claim
  <2>1. CASE future[Head(batch)] = "pending"
    <3>1. Head(batch) \in Frames /\ Head(batch) \notin ToSet(ran)
      BY <1>10, <2>1, <1>c DEF Claim
    <3> QED BY <1>10, <2>1, <3>1, <1>a DEF Claim, callerVars
  <2>2. CASE future[Head(batch)] # "pending"
    BY <1>10, <2>2 DEF Claim, callerVars
  <2> QED BY <2>1, <2>2
<1>11. CASE CheckDeadline
  <2>0. /\ batch # << >> /\ Head(batch) \in Frames
        /\ future[Head(batch)] = "running" /\ Head(batch) \notin ToSet(ran)
    BY <1>11, <1>c DEF CheckDeadline, TypeInv, Phases, Places
  <2>1. CASE Head(batch) \in overdue
    BY <1>11, <2>0, <2>1, <1>a DEF CheckDeadline, callerVars
  <2>2. CASE Head(batch) \notin overdue
    <3>0. active' = Append(active, Head(batch))
      BY <1>11, <2>2 DEF CheckDeadline
    <3>1. ToSet(active') = ToSet(active) \cup {Head(batch)}
      BY <2>0, <3>0, <1>a, ToSetAppend
    <3> QED BY <1>11, <2>0, <2>2, <3>1 DEF CheckDeadline, callerVars
  <2> QED BY <2>1, <2>2
<1>12. CASE Detect
  <2>1. CASE DetectRejects \/ DetectFailsEarly
    BY <2>1 DEF DetectRejects, DetectFailsEarly, callerVars
  <2>2. CASE DetectRuns
    <3>1. ToSet(ran') = ToSet(ran) \cup ToSet(active)
      BY <2>2, <1>a, ToSetConcat DEF DetectRuns
    <3> QED BY <2>2, <3>1 DEF DetectRuns, Places, callerVars
  <2> QED BY <1>12, <2>1, <2>2 DEF Detect
<1>13. CASE Deliver
  <2>1. /\ active # << >> /\ worker = "deliver" /\ verdict \in DetectorVerdicts
        /\ future' = [future EXCEPT ![Head(active)] = verdict]
        /\ active' = Tail(active)
        /\ UNCHANGED <<batch, caller, worker, verdict, ran>>
    BY <1>13 DEF Deliver, TypeInv, Phases, callerVars
  <2>2. verdict = "invalid" => Head(active) \notin ToSet(ran)
    BY <2>1, <1>d
  <2> QED BY <2>1, <2>2, <1>a, <1>d DEF DetectorVerdicts
<1>14. CASE EndBatch
  BY <1>14 DEF EndBatch, callerVars
<1>15. CASE RejectNext
  <2>1. \A f \in Frames : future[f] = "pending" \/ future'[f] = future[f]
    BY <1>15 DEF RejectNext
  <2>3. \A f \in Frames : future'[f] \in {future[f], "closed"}
    BY <1>15 DEF RejectNext
  <2>2. UNCHANGED <<caller, batch, active, worker, verdict, ran>>
    BY <1>15 DEF RejectNext, callerVars, workerVars
  <2> QED BY <2>1, <2>2, <2>3
<1>16. CASE WorkerEnds
  BY <1>16 DEF WorkerEnds, callerVars
<1>17. ASSUME NEW c \in Closers, CloserStep(c) PROVE Answers'
  BY <1>17 DEF CloserStep, BeginClose, PutStop, Join, CloseTimesOut, callerVars, workerVars
<1>18. CASE UNCHANGED vars
  BY <1>18 DEF vars, callerVars, workerVars
<1> QED BY <1>1, <1>2, <1>3, <1>4, <1>5, <1>6, <1>7, <1>8, <1>9, <1>10, <1>11, <1>12,
           <1>13, <1>14, <1>15, <1>16, <1>17, <1>18 DEF Next, WorkerStep

(* What has run and what was refused, with the batch in between.            *)
THEOREM AnswersAlways == Spec => []Answers
BY InitAnswers, NextAnswers, TypeAlways, PlacesAlways, PTL DEF Spec

(* EXPIRED, closed, overloaded and invalid are only ever answered for a     *)
(* frame the model has not computed and will not compute.                   *)
THEOREM RefusalsAreTrue == Spec => []RefusedFramesNeverRun
<1>1. Places /\ Answers => RefusedFramesNeverRun
  BY DEF Places, Answers, RefusedFramesNeverRun
<1> QED BY PlacesAlways, AnswersAlways, <1>1, PTL

-----------------------------------------------------------------------------
(* Order: every place a frame passes through keeps the order of admission. *)

(* f was admitted before g; _STOP has no place in the order.                *)
Before(f, g) ==
    \/ Stop \in {f, g}
    \/ \E k, l \in DOMAIN admitted : k < l /\ admitted[k] = f /\ admitted[l] = g

Precedence == {p \in (Frames \cup {Stop}) \X (Frames \cup {Stop}) : Before(p[1], p[2])}

Known == ToSet(queue) \cup ToSet(batch) \cup ToSet(active) \cup ToSet(ran)

Ordered ==
    /\ Chain(queue, Precedence) /\ Chain(batch, Precedence)
    /\ Chain(active, Precedence) /\ Chain(ran, Precedence)
    /\ (ToSet(batch) \cup ToSet(active) \cup ToSet(ran)) \X ToSet(queue) \subseteq Precedence
    /\ (ToSet(active) \cup ToSet(ran)) \X ToSet(batch) \subseteq Precedence
    /\ worker \in {"claim", "check"} => ToSet(ran) \X ToSet(active) \subseteq Precedence
    /\ Known \subseteq ToSet(admitted) \cup {Stop}
    /\ Once(ran, Frames)

(* Nothing is in any place at the start.                                    *)
LEMMA InitOrdered == Init => Ordered
BY DEF Init, Ordered, Known, Chain, Once, ToSet

(* A frame that is admitted now comes after every frame that was.           *)
LEMMA AdmittedLast ==
    ASSUME TypeInv, NEW f \in Frames, admitted' = Append(admitted, f)
    PROVE  /\ Precedence \subseteq Precedence'
           /\ (ToSet(admitted) \cup {Stop}) \X {f} \subseteq Precedence'
           /\ ToSet(admitted)' = ToSet(admitted) \cup {f}
<1>1. admitted \in Seq(Frames) /\ ToSet(admitted) \subseteq Frames
  BY DEF TypeInv, TypeOK, ToSet
<1>2. ToSet(admitted)' = ToSet(admitted) \cup {f}
  BY <1>1, ToSetAppend
<1>3. /\ \A k \in DOMAIN admitted : k \in DOMAIN admitted' /\ admitted'[k] = admitted[k]
                                   /\ k < Len(admitted) + 1
      /\ Len(admitted) + 1 \in DOMAIN admitted' /\ admitted'[Len(admitted) + 1] = f
  BY <1>1
<1>4. Precedence \subseteq Precedence'
  BY <1>3 DEF Precedence, Before
<1>5. ASSUME NEW g \in ToSet(admitted) PROVE Before(g, f)'
  <2>1. PICK k \in DOMAIN admitted : admitted[k] = g
    BY <1>5 DEF ToSet
  <2> QED BY <1>3, <2>1 DEF Before
<1>6. Before(Stop, f)'
  BY DEF Before
<1> QED BY <1>1, <1>2, <1>4, <1>5, <1>6 DEF Precedence

(* Every step hands a frame on behind the frames that were before it.       *)
LEMMA NextOrdered == TypeInv /\ Admission /\ Places /\ Answers /\ Ordered /\ [Next]_vars => Ordered'
<1> SUFFICES ASSUME TypeInv, Admission, Places, Answers, Ordered, [Next]_vars PROVE Ordered'
  OBVIOUS
<1> DEFINE S == Frames \cup {Stop}
           P == Precedence
<1>a. /\ queue \in Seq(S) /\ batch \in Seq(S) /\ active \in Seq(S) /\ ran \in Seq(S)
      /\ ToSet(batch) \subseteq Frames /\ ToSet(active) \subseteq Frames
      /\ Stop \notin Frames
  BY FramesAssumption DEF TypeInv, TypeOK, ToSet
<1>b. ASSUME queue # << >>
      PROVE  /\ Head(queue) \in S /\ Tail(queue) \in Seq(S)
             /\ ToSet(queue) = {Head(queue)} \cup ToSet(Tail(queue))
             /\ Chain(Tail(queue), P) /\ {Head(queue)} \X ToSet(Tail(queue)) \subseteq P
  BY <1>a, <1>b, ToSetHeadTail, ChainTail DEF Ordered
<1>c. ASSUME batch # << >>
      PROVE  /\ Head(batch) \in S /\ Tail(batch) \in Seq(S)
             /\ ToSet(batch) = {Head(batch)} \cup ToSet(Tail(batch))
             /\ Chain(Tail(batch), P) /\ {Head(batch)} \X ToSet(Tail(batch)) \subseteq P
  BY <1>a, <1>c, ToSetHeadTail, ChainTail DEF Ordered
<1>d. ASSUME active # << >>
      PROVE  /\ ToSet(active) = {Head(active)} \cup ToSet(Tail(active))
             /\ Chain(Tail(active), P)
  BY <1>a, <1>d, ToSetHeadTail, ChainTail DEF Ordered
<1>e. ASSUME UNCHANGED admitted PROVE Precedence' = Precedence
  BY <1>e DEF Precedence, Before
<1> USE DEF Ordered, Known
<1>1. CASE Start
  BY <1>1, <1>e DEF Start, TypeInv, Phases, ToSet
<1>2. ASSUME NEW f \in Frames, Submit(f) PROVE Ordered'
  <2>1. CASE SubmitAccepted(f)
    <3>1. /\ queue' = Append(queue, f) /\ admitted' = Append(admitted, f) /\ f \in S
          /\ UNCHANGED <<batch, active, ran, worker>>
      BY <2>1 DEF SubmitAccepted, Enqueue, workerVars
    <3>2. /\ P \subseteq P' /\ (ToSet(admitted) \cup {Stop}) \X {f} \subseteq P'
          /\ ToSet(admitted)' = ToSet(admitted) \cup {f}
      BY <3>1, AdmittedLast
    <3>3. ToSet(queue') = ToSet(queue) \cup {f}
      BY <3>1, <1>a, ToSetAppend
    <3>4. Chain(queue, P') /\ Chain(batch, P') /\ Chain(active, P') /\ Chain(ran, P')
      BY <3>2 DEF Chain
    <3>5. Chain(queue', P')
      BY <3>1, <3>2, <3>4, <1>a, ChainAppend
    <3> QED BY <3>1, <3>2, <3>3, <3>4, <3>5
  <2>2. CASE SubmitRefused(f)
    BY <2>2, <1>e DEF SubmitRefused, workerVars
  <2> QED BY <1>2, <2>1, <2>2 DEF Submit
<1>3. ASSUME NEW f \in Frames, DeadlinePasses(f) PROVE Ordered'
  BY <1>3, <1>e DEF DeadlinePasses, workerVars
<1>4. ASSUME NEW f \in Frames, CallerStep(f) PROVE Ordered'
  BY <1>4, <1>e DEF CallerStep, TakeResult, WaitTimesOut, CancelWins, CancelLoses, workerVars
<1>5. CASE TakeFirst
  <2>1. /\ queue # << >> /\ queue' = Tail(queue) /\ batch' = <<Head(queue)>>
        /\ worker' = "fill" /\ active = << >>
        /\ UNCHANGED <<active, ran, admitted>>
    BY <1>5 DEF TakeFirst, TypeInv, Phases
  <2>2. ToSet(batch') = {Head(queue)} /\ ToSet(active) = {} /\ Chain(batch', P)
    BY <2>1, ToSetShort DEF Chain
  <2> QED BY <2>1, <2>2, <1>b, <1>e
<1>6. CASE TakeStop
  BY <1>6, <1>b, <1>e DEF TakeStop
<1>7. CASE FillBatch
  <2>1. /\ queue # << >> /\ queue' = Tail(queue) /\ batch' = Append(batch, Head(queue))
        /\ UNCHANGED <<active, ran, admitted, worker>>
    BY <1>7 DEF FillBatch
  <2>2. /\ ToSet(batch') = ToSet(batch) \cup {Head(queue)}
        /\ ToSet(batch) \X {Head(queue)} \subseteq P
    BY <2>1, <1>a, <1>b, ToSetAppend
  <2>3. Chain(batch', P)
    BY <2>1, <2>2, <1>a, <1>b, ChainAppend
  <2> QED BY <2>1, <2>2, <2>3, <1>b, <1>e
<1>8. CASE FillMeetsStop
  <2>1. active = << >>
    BY <1>8 DEF FillMeetsStop, TypeInv, Phases
  <2> QED BY <1>8, <2>1, <1>b, <1>e, ToSetShort DEF FillMeetsStop
<1>9. CASE StopFilling
  <2>1. active = << >>
    BY <1>9 DEF StopFilling, TypeInv, Phases
  <2> QED BY <1>9, <2>1, <1>e, ToSetShort DEF StopFilling
<1>10. CASE Claim
  <2>1. CASE future[Head(batch)] = "pending"
    BY <1>10, <2>1, <1>e DEF Claim
  <2>2. CASE future[Head(batch)] # "pending"
    BY <1>10, <2>2, <1>c, <1>e DEF Claim
  <2> QED BY <2>1, <2>2
<1>11. CASE CheckDeadline
  <2>0. batch # << >>
    BY <1>11 DEF CheckDeadline, TypeInv, Phases
  <2>1. CASE Head(batch) \in overdue
    BY <1>11, <2>0, <2>1, <1>c, <1>e DEF CheckDeadline
  <2>2. CASE Head(batch) \notin overdue
    <3>1. /\ active' = Append(active, Head(batch)) /\ batch' = Tail(batch)
          /\ worker = "check" /\ UNCHANGED <<queue, ran, admitted>>
      BY <1>11, <2>2 DEF CheckDeadline
    <3>2. /\ ToSet(active') = ToSet(active) \cup {Head(batch)}
          /\ ToSet(active) \X {Head(batch)} \subseteq P
      BY <2>0, <3>1, <1>a, <1>c, ToSetAppend
    <3>3. Chain(active', P)
      BY <2>0, <3>1, <3>2, <1>a, <1>c, ChainAppend
    <3> QED BY <2>0, <3>1, <3>2, <3>3, <1>c, <1>e
  <2> QED BY <2>1, <2>2
<1>12. CASE Detect
  <2>1. CASE DetectRejects \/ DetectFailsEarly
    BY <2>1, <1>e DEF DetectRejects, DetectFailsEarly
  <2>2. CASE DetectRuns
    <3>1. /\ worker = "claim" /\ worker' = "deliver" /\ ran' = ran \o active
          /\ UNCHANGED <<queue, batch, active, admitted>>
      BY <2>2 DEF DetectRuns
    <3>2. ToSet(ran') = ToSet(ran) \cup ToSet(active)
      BY <3>1, <1>a, ToSetConcat
    <3>3. Chain(ran', P)
      BY <3>1, <1>a, ChainConcat
    <3>4. Once(ran', Frames)
      BY <3>1, <1>a, OnceConcat DEF Places, Answers
    <3> QED BY <3>1, <3>2, <3>3, <3>4, <1>e
  <2> QED BY <1>12, <2>1, <2>2 DEF Detect
<1>13. CASE Deliver
  BY <1>13, <1>d, <1>e DEF Deliver
<1>14. CASE EndBatch
  BY <1>14, <1>e DEF EndBatch
<1>15. CASE RejectNext
  BY <1>15, <1>b, <1>e DEF RejectNext, workerVars
<1>16. CASE WorkerEnds
  BY <1>16, <1>e DEF WorkerEnds
<1>17. ASSUME NEW c \in Closers, CloserStep(c) PROVE Ordered'
  <2>1. CASE PutStop(c)
    <3>1. queue' = Append(queue, Stop) /\ Stop \in S
          /\ UNCHANGED <<batch, active, ran, admitted, worker>>
      BY <2>1 DEF PutStop, workerVars
    <3>2. ToSet(queue') = ToSet(queue) \cup {Stop}
      BY <3>1, <1>a, ToSetAppend, SMTT(30)
    <3>3. \A s \in Seq(S) : ToSet(s) \X {Stop} \subseteq P
      BY DEF Precedence, Before, ToSet
    <3>4. Chain(queue', P)
      BY <3>1, <3>3, <1>a, ChainAppend
    <3> QED BY <3>1, <3>2, <3>3, <3>4, <1>a, <1>e
  <2> QED BY <1>17, <2>1, <1>e DEF CloserStep, BeginClose, Join, CloseTimesOut, workerVars
<1>18. CASE UNCHANGED vars
  BY <1>18, <1>e DEF vars, workerVars
<1> QED BY <1>1, <1>2, <1>3, <1>4, <1>5, <1>6, <1>7, <1>8, <1>9, <1>10, <1>11, <1>12,
           <1>13, <1>14, <1>15, <1>16, <1>17, <1>18 DEF Next, WorkerStep

(* The order of admission in every place a frame passes through.            *)
THEOREM OrderedAlways == Spec => []Ordered
BY InitOrdered, NextOrdered, TypeAlways, AdmissionAlways, PlacesAlways, AnswersAlways, PTL DEF Spec

(* The model computes the frames in the order submit() admitted them, and   *)
(* none of them twice, whatever callers withdraw and deadlines drop.        *)
THEOREM RunsInOrder == Spec => [](RunsFollowAdmission /\ Once(ran, Frames))
<1>1. TypeInv /\ Ordered => RunsFollowAdmission /\ Once(ran, Frames)
  <2> SUFFICES ASSUME TypeInv, Ordered, NEW i \in DOMAIN ran, NEW j \in DOMAIN ran, i < j
               PROVE  \E k, l \in DOMAIN admitted :
                         k < l /\ admitted[k] = ran[i] /\ admitted[l] = ran[j]
    BY DEF Ordered, RunsFollowAdmission
  <2>1. ran[i] \in Frames /\ ran[j] \in Frames
    BY DEF TypeInv, TypeOK
  <2>2. Before(ran[i], ran[j])
    BY DEF Ordered, Chain, Precedence
  <2> QED BY <2>1, <2>2, FramesAssumption DEF Before
<1> QED BY TypeAlways, OrderedAlways, <1>1, PTL

(* A settled or cancelled future never changes again.                       *)
THEOREM FuturesFinal == Spec => FuturesAreFinal
<1>1. TypeInv /\ Places /\ [Next]_vars =>
        [\A f \in Frames :
           future[f] \in Settled \cup {"cancelled"} => future'[f] = future[f]]_vars
  <2> SUFFICES ASSUME TypeInv, Places, Next, NEW f \in Frames,
                      future[f] \in Settled \cup {"cancelled"}
               PROVE  future'[f] = future[f]
    OBVIOUS
  <2> USE DEF Settled, DetectorVerdicts
  <2>a. future \in [Frames -> FutureStates]
    BY DEF TypeInv, TypeOK
  <2>1. ASSUME NEW g \in Frames, Submit(g) PROVE future'[f] = future[f]
    <3>1. future[g] = "none"
      BY <2>1 DEF Submit, SubmitAccepted, SubmitRefused, Places
    <3> QED BY <2>1, <3>1, <2>a DEF Submit, SubmitAccepted, SubmitRefused, Enqueue
  <2>2. ASSUME NEW g \in Frames, CallerStep(g) PROVE future'[f] = future[f]
    BY <2>2, <2>a DEF CallerStep, TakeResult, WaitTimesOut, CancelWins, CancelLoses
  <2>3. CASE Claim
    BY <2>3, <2>a DEF Claim
  <2>4. CASE CheckDeadline
    BY <2>4, <2>a DEF CheckDeadline, Places
  <2>5. CASE Deliver
    <3>1. future[Head(active)] = "running"
      BY <2>5, ToSetHeadTail DEF Deliver, Places, TypeInv, TypeOK
    <3> QED BY <2>5, <3>1, <2>a DEF Deliver
  <2>6. CASE RejectNext
    BY <2>6, <2>a DEF RejectNext
  <2>7. CASE Detect
    BY <2>7 DEF Detect, DetectRejects, DetectRuns, DetectFailsEarly
  <2>8. CASE Start \/ TakeFirst \/ TakeStop \/ FillBatch \/ FillMeetsStop \/ StopFilling
             \/ EndBatch \/ WorkerEnds
    BY <2>8 DEF Start, TakeFirst, TakeStop, FillBatch, FillMeetsStop, StopFilling,
                EndBatch, WorkerEnds
  <2>9. ASSUME NEW g \in Frames, DeadlinePasses(g) PROVE future'[f] = future[f]
    BY <2>9 DEF DeadlinePasses
  <2>10. ASSUME NEW c \in Closers, CloserStep(c) PROVE future'[f] = future[f]
    BY <2>10 DEF CloserStep, BeginClose, PutStop, Join, CloseTimesOut
  <2> QED BY <2>1, <2>2, <2>3, <2>4, <2>5, <2>6, <2>7, <2>8, <2>9, <2>10
          DEF Next, WorkerStep
<1> QED BY TypeAlways, PlacesAlways, <1>1, PTL DEF Spec, FuturesAreFinal
=============================================================================

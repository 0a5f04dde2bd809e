----------------------- MODULE SegmentPipeline_proofs -----------------------
(* Proofs about SegmentPipeline, for any segment IDs and texts, any limits  *)
(* of the queue and any number of messages and chunks.                      *)
EXTENDS SegmentPipeline, SequenceTheorems, WellFoundedInduction, TLAPS

-----------------------------------------------------------------------------
(* Induction over the natural numbers, stated of a set of numbers.          *)

(* A set of natural numbers that is not empty has a least element.          *)
LEMMA LeastElement ==
    ASSUME NEW T \in SUBSET Nat, T # {}
    PROVE  \E m \in T : \A k \in T : m <= k
<1> DEFINE Below == OpToRel(<, Nat)
<1>1. IsWellFoundedOn(Below, Nat)
  BY NatLessThanWellFounded
<1>2. Below = {p \in Nat \X Nat : p[1] < p[2]}
  BY DEF OpToRel
<1> HIDE DEF Below
<1>3. PICK m \in T : \A k \in T : <<k, m>> \notin Below
  BY <1>1, WFMin
<1>4. \A k \in T : m <= k
  <2> SUFFICES ASSUME NEW k \in T PROVE m <= k
    OBVIOUS
  <2>1. m \in Nat /\ k \in Nat
    OBVIOUS
  <2>2. ~(k < m)
    BY <1>2, <1>3, <2>1
  <2> QED
    BY <2>1, <2>2
<1> QED
  BY <1>4

(* A set with 0 and every successor of its numbers holds all of them.       *)
LEMMA SetInduction ==
    ASSUME NEW T, 0 \in T, \A n \in Nat : n \in T => n + 1 \in T
    PROVE  Nat \subseteq T
<1> SUFFICES ASSUME NEW n \in Nat, n \notin T PROVE FALSE
  OBVIOUS
<1> DEFINE U == {k \in Nat : k \notin T}
<1>1. U \in SUBSET Nat /\ U # {}
  OBVIOUS
<1>2. PICK m \in U : \A k \in U : m <= k
  BY <1>1, LeastElement
<1>3. m \in Nat \ {0}
  OBVIOUS
<1>4. m - 1 \in Nat /\ ~(m <= m - 1) /\ (m - 1) + 1 = m
  BY <1>3
<1>5. m - 1 \in T
  BY <1>2, <1>4
<1> QED
  BY <1>4, <1>5

-----------------------------------------------------------------------------
(* The length of the texts of a queue.                                      *)

(* What the texts from each place of the queue to its end add up to.        *)
Sums(q) == {t \in [1 .. Len(q) + 1 -> Nat] :
              /\ t[Len(q) + 1] = 0
              /\ \A n \in 1 .. Len(q) : t[n] = Size[q[n]] + t[n + 1]}

(* The places of a queue are those of its tail, one on, and the first.      *)
LEMMA TailPlaces ==
    ASSUME NEW q \in Seq(Ids), q # << >>
    PROVE  /\ Tail(q) \in Seq(Ids) /\ Head(q) \in Ids /\ Head(q) = q[1]
           /\ Len(q) \in Nat \ {0} /\ Len(Tail(q)) = Len(q) - 1
           /\ \A n \in 1 .. Len(q) - 1 : Tail(q)[n] = q[n + 1]
  OBVIOUS

(* Exactly one total is the sum of a queue.                                 *)
LEMMA SumsAgree ==
    \A q \in Seq(Ids) : \E c \in Nat : Sums(q) # {} /\ \A t \in Sums(q) : t[1] = c
<1> DEFINE Good(q) == \E c \in Nat : Sums(q) # {} /\ \A t \in Sums(q) : t[1] = c
           T == {n \in Nat : \A q \in Seq(Ids) : Len(q) = n => Good(q)}
<1>1. 0 \in T
  <2> SUFFICES ASSUME NEW q \in Seq(Ids), Len(q) = 0 PROVE Good(q)
    OBVIOUS
  <2>1. [n \in {1} |-> 0] \in Sums(q)
    BY DEF Sums
  <2>2. \A t \in Sums(q) : t[1] = 0
    BY DEF Sums
  <2> QED
    BY <2>1, <2>2
<1>2. ASSUME NEW n \in Nat, n \in T PROVE n + 1 \in T
  <2> SUFFICES ASSUME NEW q \in Seq(Ids), Len(q) = n + 1 PROVE Good(q)
    BY <1>2
  <2>1. q # << >>
    OBVIOUS
  <2>10. /\ Tail(q) \in Seq(Ids) /\ Len(Tail(q)) = n
         /\ \A k \in 1 .. n : Tail(q)[k] = q[k + 1]
    <3>1. Len(q) - 1 = n
      OBVIOUS
    <3> QED
      BY <2>1, <3>1, TailPlaces
  <2>2. Good(Tail(q))
    <3> HIDE DEF Good
    <3> QED
      BY <1>2, <2>10
  <2>3. PICK c \in Nat : Sums(Tail(q)) # {} /\ \A t \in Sums(Tail(q)) : t[1] = c
    BY <2>2
  <2>4. Size[q[1]] \in Nat
    BY BoundsAssumption, <2>1, TailPlaces
  <2>5. PICK t \in Sums(Tail(q)) : TRUE
    BY <2>3
  <2> DEFINE u == [k \in 1 .. n + 2 |-> IF k = 1 THEN Size[q[1]] + t[1] ELSE t[k - 1]]
  <2>6. /\ t \in [1 .. n + 1 -> Nat] /\ t[n + 1] = 0
        /\ \A k \in 1 .. n : t[k] = Size[q[k + 1]] + t[k + 1]
    BY <2>5, <2>10 DEF Sums
  <2>7. u \in Sums(q)
    <3>1. u \in [1 .. n + 2 -> Nat]
      BY <2>4, <2>6
    <3>2. u[n + 2] = 0
      BY <2>6
    <3>3. \A k \in 1 .. n + 1 : u[k] = Size[q[k]] + u[k + 1]
      <4> SUFFICES ASSUME NEW k \in 1 .. n + 1 PROVE u[k] = Size[q[k]] + u[k + 1]
        OBVIOUS
      <4>1. CASE k = 1
        BY <4>1
      <4>2. CASE k # 1
        <5>1. k - 1 \in 1 .. n /\ (k - 1) + 1 = k /\ k + 1 \in 1 .. n + 2 /\ (k + 1) - 1 = k
          BY <4>2
        <5>2. t[k - 1] = Size[q[k]] + t[k]
          BY <2>6, <5>1
        <5> QED
          BY <4>2, <5>1, <5>2
      <4> QED
        BY <4>1, <4>2
    <3>4. Len(q) + 1 = n + 2 /\ Len(q) = n + 1
      OBVIOUS
    <3> HIDE DEF u
    <3> QED
      BY <3>1, <3>2, <3>3, <3>4 DEF Sums
  <2>8. ASSUME NEW v \in Sums(q) PROVE v[1] = Size[q[1]] + c
    <3> DEFINE w == [k \in 1 .. n + 1 |-> v[k + 1]]
    <3>1. /\ v \in [1 .. n + 2 -> Nat] /\ v[n + 2] = 0
          /\ \A k \in 1 .. n + 1 : v[k] = Size[q[k]] + v[k + 1]
      BY <2>8 DEF Sums
    <3>2. w \in [1 .. n + 1 -> Nat] /\ w[n + 1] = 0
      BY <3>1
    <3>3. \A k \in 1 .. n : w[k] = Size[q[k + 1]] + w[k + 1]
      BY <3>1
    <3>4. w \in Sums(Tail(q))
      BY <2>10, <3>2, <3>3 DEF Sums
    <3>5. w[1] = v[2] /\ v[1] = Size[q[1]] + v[2]
      BY <3>1
    <3> QED
      BY <2>3, <3>4, <3>5
  <2>9. Size[q[1]] + c \in Nat
    BY <2>4
  <2> QED
    BY <2>7, <2>8, <2>9
<1> HIDE DEF T
<1>3. Nat \subseteq T
  BY <1>1, <1>2, SetInduction
<1> QED
  BY <1>3 DEF T

(* The recursion of Characters has a solution, so Characters is one.        *)
LEMMA CharactersUnfold ==
    \A q \in Seq(Ids) :
       Characters[q] = IF q = << >> THEN 0 ELSE Size[Head(q)] + Characters[Tail(q)]
<1> DEFINE Total(q) == CHOOSE c : Sums(q) # {} /\ \A t \in Sums(q) : t[1] = c
           f == [q \in Seq(Ids) |-> Total(q)]
           Unfold(g) == [q \in Seq(Ids) |-> IF q = << >> THEN 0
                                            ELSE Size[Head(q)] + g[Tail(q)]]
<1>1. ASSUME NEW q \in Seq(Ids) PROVE Sums(q) # {} /\ \A t \in Sums(q) : t[1] = Total(q)
  BY SumsAgree
<1>2. ASSUME NEW q \in Seq(Ids), q = << >> PROVE Total(q) = 0
  <2>1. PICK t \in Sums(q) : TRUE
    BY <1>1
  <2>2. t[1] = 0
    BY <1>2, <2>1 DEF Sums
  <2> QED
    BY <1>1, <2>2
<1>3. ASSUME NEW q \in Seq(Ids), q # << >> PROVE Total(q) = Size[Head(q)] + Total(Tail(q))
  <2> HIDE DEF Total
  <2>1. PICK v \in Sums(q) : TRUE
    BY <1>1
  <2> DEFINE w == [k \in 1 .. Len(q) |-> v[k + 1]]
  <2>2. /\ v \in [1 .. Len(q) + 1 -> Nat] /\ v[Len(q) + 1] = 0
        /\ \A k \in 1 .. Len(q) : v[k] = Size[q[k]] + v[k + 1]
    BY <2>1 DEF Sums
  <2>3. Len(q) \in Nat \ {0}
    BY <1>3, TailPlaces
  <2>4. w \in [1 .. Len(q) -> Nat] /\ w[Len(q)] = 0 /\ w[1] = v[2]
    BY <2>2, <2>3
  <2>5. \A k \in 1 .. Len(q) - 1 : w[k] = Size[q[k + 1]] + w[k + 1]
    BY <2>2, <2>3
  <2>6. w \in Sums(Tail(q))
    <3>1. Len(Tail(q)) + 1 = Len(q)
      BY <1>3, <2>3, TailPlaces
    <3>2. \A k \in 1 .. Len(Tail(q)) : w[k] = Size[Tail(q)[k]] + w[k + 1]
      BY <1>3, <2>3, <2>5, TailPlaces
    <3> QED
      BY <2>4, <3>1, <3>2 DEF Sums
  <2>7. v[1] = Total(q) /\ w[1] = Total(Tail(q))
    BY <1>1, <1>3, <2>1, <2>6, TailPlaces
  <2>8. v[1] = Size[q[1]] + v[2]
    BY <2>2, <2>3
  <2> QED
    BY <1>3, <2>4, <2>7, <2>8, TailPlaces
<1> HIDE DEF Total
<1>4. f = Unfold(f)
  BY <1>2, <1>3, TailPlaces
<1>5. Characters = CHOOSE g : g = Unfold(g)
  BY DEF Characters
<1> HIDE DEF f
<1>6. Characters = Unfold(Characters)
  BY <1>4, <1>5
<1> QED
  BY <1>6

(* An empty queue is 0 long; a queue is as long as its head and its tail.   *)
LEMMA CharactersOfTail ==
    /\ Characters[<< >>] = 0
    /\ \A q \in Seq(Ids) : q # << >> => Characters[q] = Size[Head(q)] + Characters[Tail(q)]
<1>1. << >> \in Seq(Ids)
  OBVIOUS
<1> QED
  BY <1>1, CharactersUnfold

(* The length of a queue is a natural number.                               *)
LEMMA CharactersNat == \A q \in Seq(Ids) : Characters[q] \in Nat
<1> DEFINE T == {n \in Nat : \A q \in Seq(Ids) : Len(q) = n => Characters[q] \in Nat}
<1>1. 0 \in T
  BY CharactersOfTail
<1>2. ASSUME NEW n \in Nat, n \in T PROVE n + 1 \in T
  <2> SUFFICES ASSUME NEW q \in Seq(Ids), Len(q) = n + 1 PROVE Characters[q] \in Nat
    BY <1>2
  <2>1. q # << >> /\ Len(q) - 1 = n
    OBVIOUS
  <2>2. Tail(q) \in Seq(Ids) /\ Len(Tail(q)) = n /\ Size[Head(q)] \in Nat
    BY <2>1, TailPlaces, BoundsAssumption
  <2>3. Characters[Tail(q)] \in Nat
    BY <1>2, <2>2
  <2> QED
    BY <2>1, <2>2, <2>3, CharactersOfTail
<1> HIDE DEF T
<1>3. Nat \subseteq T
  BY <1>1, <1>2, SetInduction
<1> QED
  BY <1>3 DEF T

(* One more text at the end adds its own length.                            *)
LEMMA CharactersOfAppend ==
    \A q \in Seq(Ids), i \in Ids : Characters[Append(q, i)] = Characters[q] + Size[i]
<1> SUFFICES ASSUME NEW i \in Ids
             PROVE  \A q \in Seq(Ids) : Characters[Append(q, i)] = Characters[q] + Size[i]
  OBVIOUS
<1> DEFINE Adds(q) == Characters[Append(q, i)] = Characters[q] + Size[i]
           T == {n \in Nat : \A q \in Seq(Ids) : Len(q) = n => Adds(q)}
<1>1. 0 \in T
  <2> SUFFICES ASSUME NEW q \in Seq(Ids), Len(q) = 0 PROVE Adds(q)
    OBVIOUS
  <2>1. q = << >> /\ Append(q, i) # << >> /\ Append(q, i) \in Seq(Ids)
    OBVIOUS
  <2>2. Head(Append(q, i)) = i /\ Tail(Append(q, i)) = << >>
    BY <2>1, HeadTailAppend
  <2>3. Size[i] \in Nat
    BY BoundsAssumption
  <2>4. Characters[q] = 0
    BY <2>1, CharactersOfTail
  <2>5. Characters[Append(q, i)] = Size[i] + Characters[<< >>]
    BY <2>1, <2>2, CharactersOfTail
  <2>6. Characters[<< >>] = 0
    BY CharactersOfTail
  <2> QED
    BY <2>3, <2>4, <2>5, <2>6
<1>2. ASSUME NEW n \in Nat, n \in T PROVE n + 1 \in T
  <2> SUFFICES ASSUME NEW q \in Seq(Ids), Len(q) = n + 1 PROVE Adds(q)
    BY <1>2
  <2>1. q # << >> /\ Len(q) - 1 = n
    OBVIOUS
  <2>2. Tail(q) \in Seq(Ids) /\ Len(Tail(q)) = n
    BY <2>1, TailPlaces
  <2>3. Adds(Tail(q))
    <3> HIDE DEF Adds
    <3> QED
      BY <1>2, <2>2
  <2>4. Append(q, i) \in Seq(Ids) /\ Append(q, i) # << >>
    OBVIOUS
  <2>5. Head(Append(q, i)) = Head(q) /\ Tail(Append(q, i)) = Append(Tail(q), i)
    BY <2>1, HeadTailAppend
  <2>6. Characters[Append(q, i)] = Size[Head(q)] + Characters[Append(Tail(q), i)]
    BY <2>4, <2>5, CharactersOfTail
  <2>7. Characters[q] = Size[Head(q)] + Characters[Tail(q)]
    BY <2>1, CharactersOfTail
  <2>8. Size[Head(q)] \in Nat /\ Size[i] \in Nat /\ Characters[Tail(q)] \in Nat
    BY <2>1, <2>2, TailPlaces, BoundsAssumption, CharactersNat
  <2> QED
    BY <2>3, <2>6, <2>7, <2>8
<1> HIDE DEF T
<1>3. Nat \subseteq T
  BY <1>1, <1>2, SetInduction
<1> QED
  BY <1>3 DEF T

-----------------------------------------------------------------------------
(* The inductive invariant.                                                 *)

(* Who keeps the lock over a write.                                         *)
Locking ==
    /\ lock = "receiver" <=> receiver = "ack"
    /\ lock = "worker" <=> worker \in {"start", "chunk", "end"}

(* What the receiver knows of its message while it answers it: an admitted  *)
(* one still fits, since only the lock's holder could take its place.       *)
Handled ==
    /\ receiver \in {"lock", "ack", "error"} => message \in Messages
    /\ receiver = "ack" => message.kind = "segment" /\ message.id \in Ids \ acceptedIds
    /\ receiver = "ack" /\ ~stopping => ~cancelled /\ ~QueueFull(message.id)

(* What waits, and when nothing may.                                        *)
Waiting ==
    /\ QueueWithinLimits
    /\ stopping => pending = << >> /\ cancelled
    /\ active = None => pending = << >> /\ ~started
    /\ cancelled /\ ~stopping => pending = << >> /\ started

(* Where the worker stands tells what it works on.                          *)
Working ==
    /\ worker = "ready" => ~started
    /\ worker = "start" => active # None /\ ~started
    /\ worker \in {"next", "chunk", "unwind", "drain", "finish", "end"} => active # None /\ started
    /\ generator # None => worker \in {"next", "chunk", "unwind", "drain"}
    /\ worker = "chunk" /\ ~stopping => ~cancelled
    /\ worker = "end" => ending # "none" /\ (~stopping => (ending = "cancelled" <=> cancelled))

(* Who ended first, and why: a task that found the pipeline stopped found   *)
(* the other one ended for a cause of its own.                              *)
Ending ==
    /\ stopping <=> receiver = "done" \/ worker = "done"
    /\ receiver = "done" <=> receiverEnd # "none"
    /\ worker = "done" => workerEnd # "none"
    /\ worker = "unwind" => workerEnd \in Failures
    /\ workerEnd \in Failures => worker \in {"unwind", "done"}
    /\ workerEnd = "returned" => /\ worker = "done"
                                 /\ receiverEnd \in {"closed", "eof"} \cup Failures
    /\ receiverEnd \in {"returned", "stopped"} => worker = "done" /\ workerEnd \in Failures
    /\ receiverEnd = "closed" => active = None
    /\ supervisor # "wait" => receiver = "done"
    /\ supervisor = "released" => worker = "done"
    /\ slot <=> supervisor # "released"

Inv == TypeOK /\ Locking /\ Handled /\ Waiting /\ Working /\ Ending /\ SessionEndsWithCause

(* The parts of a message.                                                  *)
LEMMA MessageParts ==
    \A m \in Messages : /\ m.kind \in {"segment", "cancel", "close", "junk"}
                        /\ m.id \in Ids \cup {None}
                        /\ m.kind \in {"segment", "cancel"} => m.id \in Ids
  BY DEF Messages, SegmentMessage, CancelMessage, CloseMessage, JunkMessage

(* A write leaves an event on the wire.                                     *)
LEMMA WriteType ==
    ASSUME wire \in [event : Event, odd : BOOLEAN], NEW k \in EventKinds,
           NEW i \in Ids \cup {None}
    PROVE  After(wire, k, i) \in [event : Event, odd : BOOLEAN]
  BY DEF After, Event

(* What is left of the queue when its first segment is promoted.            *)
LEMMA QueueOfTail ==
    ASSUME Inv, pending # << >>
    PROVE  /\ Head(pending) \in Ids /\ Tail(pending) \in Seq(Ids)
           /\ pendingChars - Size[Head(pending)] = Characters[Tail(pending)]
           /\ Len(Tail(pending)) <= MaxQueued /\ Characters[Tail(pending)] <= MaxCharacters
<1>1. /\ pending \in Seq(Ids) /\ pendingChars = Characters[pending]
      /\ Len(pending) <= MaxQueued /\ pendingChars <= MaxCharacters
  BY DEF Inv, TypeOK, Waiting, QueueWithinLimits
<1>2. /\ Head(pending) \in Ids /\ Tail(pending) \in Seq(Ids) /\ Size[Head(pending)] \in Nat
      /\ Len(pending) \in Nat /\ Len(Tail(pending)) = Len(pending) - 1
  BY <1>1, TailPlaces, BoundsAssumption
<1>3. Characters[pending] = Size[Head(pending)] + Characters[Tail(pending)]
  BY <1>1, CharactersOfTail
<1>4. Characters[Tail(pending)] \in Nat
  BY <1>2, CharactersNat
<1> QED
  BY <1>1, <1>2, <1>3, <1>4, BoundsAssumption

(* The session begins in the invariant.                                     *)
LEMMA InitInv == Init => Inv
<1> SUFFICES ASSUME Init PROVE Inv
  OBVIOUS
<1>1. TypeOK
  <2>1. wire \in [event : Event, odd : BOOLEAN]
    BY DEF Init, Event, EventKinds
  <2>2. inbox \in Seq(Messages) /\ pending \in Seq(Ids)
    BY DEF Init
  <2>3. said \in 0 .. MaxMessages /\ pendingChars \in Nat /\ chunks \in 0 .. MaxChunks
    BY BoundsAssumption DEF Init
  <2>4. message \in Messages \cup {NoMessage} /\ acceptedIds \in SUBSET Ids
    BY DEF Init
  <2> QED
    BY <2>1, <2>2, <2>3, <2>4 DEF Init, TypeOK
<1>2. QueueWithinLimits
  BY BoundsAssumption, CharactersOfTail DEF Init, QueueWithinLimits
<1> QED
  BY <1>1, <1>2
  DEF Init, Inv, Locking, Handled, Waiting, Working, Ending, SessionEndsWithCause, Failures

(* The receiver.                                                            *)
LEMMA ReceiverInv == Inv /\ ReceiverStep => Inv'
<1> SUFFICES ASSUME Inv, ReceiverStep PROVE Inv'
  OBVIOUS
<1> USE DEF Inv, peerVars, queueVars, flagVars, recvVars, workVars, superVars
<1>1. CASE Receive
  <2>1. TypeOK'
    BY <1>1, MessageParts, WriteType, BoundsAssumption
    DEF Receive, TypeOK, Event, EventKinds, Failures
  <2>2. Locking'
    BY <1>1 DEF Receive, Locking
  <2>3. Handled'
    BY <1>1, MessageParts DEF Receive, Handled, TypeOK, QueueFull
  <2>4. Waiting'
    BY <1>1, CharactersOfTail, BoundsAssumption
    DEF Receive, Waiting, QueueWithinLimits, TypeOK, Handled, Working, Locking
  <2>5. Working'
    BY <1>1 DEF Receive, Working, Waiting, Locking
  <2>6. Ending'
    BY <1>1 DEF Receive, Ending, Working, Locking, Waiting, TypeOK
  <2>7. SessionEndsWithCause'
    BY <1>1 DEF Receive, SessionEndsWithCause, Ending, Waiting, TypeOK, SessionError, Failures
  <2> QED
    BY <2>1, <2>2, <2>3, <2>4, <2>5, <2>6, <2>7
<1>2. CASE ReceiveEof
  <2>1. TypeOK'
    BY <1>2, MessageParts, WriteType, BoundsAssumption
    DEF ReceiveEof, ReceiverEnds, Stopped, TypeOK, Event, EventKinds, Failures
  <2>2. Locking'
    BY <1>2 DEF ReceiveEof, ReceiverEnds, Locking
  <2>3. Handled'
    BY <1>2, MessageParts DEF ReceiveEof, ReceiverEnds, Stopped, Handled, TypeOK, QueueFull
  <2>4. Waiting'
    BY <1>2, CharactersOfTail, BoundsAssumption
    DEF ReceiveEof, ReceiverEnds, Stopped, Waiting, QueueWithinLimits, TypeOK, Handled, Working,
       Locking
  <2>5. Working'
    BY <1>2 DEF ReceiveEof, ReceiverEnds, Stopped, Working, Waiting, Locking
  <2>6. Ending'
    BY <1>2 DEF ReceiveEof, ReceiverEnds, Stopped, Ending, Working, Locking, Waiting, TypeOK
  <2>7. SessionEndsWithCause'
    BY <1>2
    DEF ReceiveEof, ReceiverEnds, Stopped, SessionEndsWithCause, Ending, Waiting, TypeOK,
       SessionError, Failures
  <2> QED
    BY <2>1, <2>2, <2>3, <2>4, <2>5, <2>6, <2>7
<1>3. CASE ReceiverSeesStop
  <2>1. TypeOK'
    BY <1>3, MessageParts, WriteType, BoundsAssumption
    DEF ReceiverSeesStop, ReceiverEnds, Stopped, TypeOK, Event, EventKinds, Failures
  <2>2. Locking'
    BY <1>3 DEF ReceiverSeesStop, ReceiverEnds, Locking
  <2>3. Handled'
    BY <1>3, MessageParts DEF ReceiverSeesStop, ReceiverEnds, Stopped, Handled, TypeOK, QueueFull
  <2>4. Waiting'
    BY <1>3, CharactersOfTail, BoundsAssumption
    DEF ReceiverSeesStop, ReceiverEnds, Stopped, Waiting, QueueWithinLimits, TypeOK, Handled,
       Working, Locking
  <2>5. Working'
    BY <1>3 DEF ReceiverSeesStop, ReceiverEnds, Stopped, Working, Waiting, Locking
  <2>6. Ending'
    BY <1>3
    DEF ReceiverSeesStop, ReceiverEnds, Stopped, Ending, Working, Locking, Waiting, TypeOK,
       Failures
  <2>7. SessionEndsWithCause'
    BY <1>3
    DEF ReceiverSeesStop, ReceiverEnds, Stopped, SessionEndsWithCause, Ending, Waiting, TypeOK,
       SessionError, Failures
  <2> QED
    BY <2>1, <2>2, <2>3, <2>4, <2>5, <2>6, <2>7
<1>4. CASE HandleSegment
  <2>1. TypeOK'
    BY <1>4, MessageParts, WriteType, BoundsAssumption
    DEF HandleSegment, Handling, Admissible, TypeOK, Event, EventKinds, Failures
  <2>2. Locking'
    BY <1>4 DEF HandleSegment, Handling, Locking
  <2>3. Handled'
    BY <1>4, MessageParts DEF HandleSegment, Handling, Admissible, Handled, TypeOK, QueueFull
  <2>4. Waiting'
    BY <1>4, CharactersOfTail, BoundsAssumption
    DEF HandleSegment, Handling, Admissible, Waiting, QueueWithinLimits, TypeOK, Handled,
       Working, Locking
  <2>5. Working'
    BY <1>4 DEF HandleSegment, Handling, Admissible, Working, Waiting, Locking
  <2>6. Ending'
    BY <1>4 DEF HandleSegment, Handling, Admissible, Ending, Working, Locking, Waiting, TypeOK
  <2>7. SessionEndsWithCause'
    BY <1>4
    DEF HandleSegment, Handling, Admissible, SessionEndsWithCause, Ending, Waiting, TypeOK,
       SessionError, Failures
  <2> QED
    BY <2>1, <2>2, <2>3, <2>4, <2>5, <2>6, <2>7
<1>5. CASE AckWritten
  <2>1. TypeOK'
    <3>1. message.id \in Ids /\ Size[message.id] \in Nat
      BY <1>5, BoundsAssumption DEF AckWritten, Handled
    <3>2. wire' \in [event : Event, odd : BOOLEAN]
      BY <1>5, <3>1, WriteType DEF AckWritten, Write, TypeOK, EventKinds
    <3>3. pending' \in Seq(Ids) /\ pendingChars' \in Nat
      <4>1. pending \in Seq(Ids) /\ Append(pending, message.id) \in Seq(Ids) /\ << >> \in Seq(Ids)
        BY <3>1 DEF TypeOK
      <4>2. pendingChars \in Nat /\ pendingChars + Size[message.id] \in Nat
        BY <3>1 DEF TypeOK
      <4>3. \/ pending' = << >> /\ pendingChars' = 0
            \/ UNCHANGED <<pending, pendingChars>>
            \/ /\ pending' = Append(pending, message.id)
               /\ pendingChars' = pendingChars + Size[message.id]
        BY <1>5 DEF AckWritten, Stopped
      <4>4. pending' \in Seq(Ids)
        BY <4>1, <4>3
      <4>5. pendingChars' \in Nat
        BY <4>2, <4>3
      <4> QED
        BY <4>4, <4>5
    <3>4. acceptedIds' \in SUBSET Ids /\ active' \in Ids \cup {None}
      BY <1>5, <3>1 DEF AckWritten, TypeOK
    <3>5. /\ cancelled' \in BOOLEAN /\ stopping' \in BOOLEAN /\ ready' \in BOOLEAN
          /\ receiver' \in {"receive", "done"} /\ receiverEnd' \in {receiverEnd, "returned"}
      <4>1. cancelled' \in BOOLEAN /\ stopping' \in BOOLEAN
        BY <1>5, ZenonT(30) DEF AckWritten, Stopped, TypeOK
      <4>2. ready' \in BOOLEAN
        BY <1>5, ZenonT(30) DEF AckWritten, Stopped, TypeOK
      <4>3. receiver' \in {"receive", "done"} /\ receiverEnd' \in {receiverEnd, "returned"}
        BY <1>5, ZenonT(30) DEF AckWritten, Stopped, TypeOK
      <4> QED
        BY <4>1, <4>2, <4>3
    <3> QED
      BY <1>5, <3>2, <3>3, <3>4, <3>5 DEF AckWritten, TypeOK
  <2>2. Locking'
    BY <1>5 DEF AckWritten, Write, Locking
  <2>3. Handled'
    BY <1>5, MessageParts DEF AckWritten, Write, Stopped, Handled, TypeOK, QueueFull
  <2>4. Waiting'
    <3>1. message.id \in Ids /\ Size[message.id] \in Nat
      BY <1>5, BoundsAssumption DEF AckWritten, Handled
    <3>2. CASE stopping
      BY <1>5, <3>2, CharactersOfTail, BoundsAssumption
      DEF AckWritten, Stopped, Waiting, QueueWithinLimits
    <3>3. CASE ~stopping /\ active = None
      BY <1>5, <3>1, <3>3, IdsAssumption DEF AckWritten, Handled, Waiting, QueueWithinLimits
    <3>4. CASE ~stopping /\ active # None
      <4>1. /\ pending' = Append(pending, message.id) /\ active' = active
            /\ pendingChars' = pendingChars + Size[message.id]
            /\ UNCHANGED <<started, cancelled, stopping>> /\ receiver = "ack"
        BY <1>5, <3>4 DEF AckWritten
      <4>2. pending \in Seq(Ids) /\ pendingChars \in Nat /\ ~cancelled /\ ~QueueFull(message.id)
        BY <3>4, <4>1 DEF TypeOK, Handled
      <4>3. Len(pending) < MaxQueued /\ pendingChars + Size[message.id] <= MaxCharacters
        BY <3>1, <3>4, <4>2, BoundsAssumption DEF QueueFull
      <4>4. Len(pending') <= MaxQueued
        BY <3>1, <4>1, <4>2, <4>3, BoundsAssumption
      <4>5. pendingChars' = Characters[pending']
        BY <3>1, <4>1, <4>2, CharactersOfAppend DEF Waiting, QueueWithinLimits
      <4>6. QueueWithinLimits'
        BY <4>1, <4>3, <4>4, <4>5 DEF QueueWithinLimits
      <4> QED
        BY <3>4, <4>1, <4>2, <4>6 DEF Waiting
    <3> QED
      BY <3>2, <3>3, <3>4
  <2>5. Working'
    BY <1>5 DEF AckWritten, Write, Stopped, Working, Waiting, Locking
  <2>6. Ending'
    BY <1>5 DEF AckWritten, Write, Stopped, Ending, Working, Locking, Waiting, TypeOK, Failures
  <2>7. SessionEndsWithCause'
    BY <1>5
    DEF AckWritten, Write, Stopped, SessionEndsWithCause, Ending, Waiting, TypeOK, SessionError,
       Failures
  <2> QED
    BY <2>1, <2>2, <2>3, <2>4, <2>5, <2>6, <2>7
<1>6. CASE HandleCancel
  <2>1. TypeOK'
    BY <1>6, MessageParts, WriteType, BoundsAssumption
    DEF HandleCancel, Handling, MatchesActive, TypeOK, Event, EventKinds, Failures
  <2>2. Locking'
    BY <1>6 DEF HandleCancel, Handling, Locking
  <2>3. Handled'
    BY <1>6, MessageParts DEF HandleCancel, Handling, MatchesActive, Handled, TypeOK, QueueFull
  <2>4. Waiting'
    BY <1>6, CharactersOfTail, BoundsAssumption
    DEF HandleCancel, Handling, MatchesActive, Waiting, QueueWithinLimits, TypeOK, Handled,
       Working, Locking
  <2>5. Working'
    BY <1>6 DEF HandleCancel, Handling, MatchesActive, Working, Waiting, Locking
  <2>6. Ending'
    BY <1>6 DEF HandleCancel, Handling, MatchesActive, Ending, Working, Locking, Waiting, TypeOK
  <2>7. SessionEndsWithCause'
    BY <1>6
    DEF HandleCancel, Handling, MatchesActive, SessionEndsWithCause, Ending, Waiting, TypeOK,
       SessionError, Failures
  <2> QED
    BY <2>1, <2>2, <2>3, <2>4, <2>5, <2>6, <2>7
<1>7. CASE HandleClose
  <2>1. TypeOK'
    BY <1>7, MessageParts, WriteType, BoundsAssumption
    DEF HandleClose, Handling, MayClose, ReceiverEnds, Stopped, TypeOK, Event, EventKinds,
       Failures
  <2>2. Locking'
    BY <1>7 DEF HandleClose, Handling, MayClose, ReceiverEnds, Locking
  <2>3. Handled'
    BY <1>7, MessageParts
    DEF HandleClose, Handling, MayClose, ReceiverEnds, Stopped, Handled, TypeOK, QueueFull
  <2>4. Waiting'
    BY <1>7, CharactersOfTail, BoundsAssumption
    DEF HandleClose, Handling, MayClose, ReceiverEnds, Stopped, Waiting, QueueWithinLimits,
       TypeOK, Handled, Working, Locking
  <2>5. Working'
    BY <1>7 DEF HandleClose, Handling, MayClose, ReceiverEnds, Stopped, Working, Waiting, Locking
  <2>6. Ending'
    BY <1>7
    DEF HandleClose, Handling, MayClose, ReceiverEnds, Stopped, Ending, Working, Locking,
       Waiting, TypeOK
  <2>7. SessionEndsWithCause'
    BY <1>7
    DEF HandleClose, Handling, MayClose, ReceiverEnds, Stopped, SessionEndsWithCause, Ending,
       Waiting, TypeOK, SessionError, Failures
  <2> QED
    BY <2>1, <2>2, <2>3, <2>4, <2>5, <2>6, <2>7
<1>8. CASE HandleError
  <2>1. TypeOK'
    BY <1>8, MessageParts, WriteType, BoundsAssumption
    DEF HandleError, Handling, TypeOK, Event, EventKinds, Failures
  <2>2. Locking'
    BY <1>8 DEF HandleError, Handling, Locking
  <2>3. Handled'
    BY <1>8, MessageParts DEF HandleError, Handling, Handled, TypeOK, QueueFull
  <2>4. Waiting'
    BY <1>8, CharactersOfTail, BoundsAssumption
    DEF HandleError, Handling, Waiting, QueueWithinLimits, TypeOK, Handled, Working, Locking
  <2>5. Working'
    BY <1>8 DEF HandleError, Handling, Working, Waiting, Locking
  <2>6. Ending'
    BY <1>8 DEF HandleError, Handling, Ending, Working, Locking, Waiting, TypeOK
  <2>7. SessionEndsWithCause'
    BY <1>8
    DEF HandleError, Handling, SessionEndsWithCause, Ending, Waiting, TypeOK, SessionError,
       Failures
  <2> QED
    BY <2>1, <2>2, <2>3, <2>4, <2>5, <2>6, <2>7
<1>9. CASE ErrorWritten
  <2>1. TypeOK'
    <3>1. message.id \in Ids \cup {None}
      BY <1>9, MessageParts DEF ErrorWritten, Handled
    <3>2. wire' \in [event : Event, odd : BOOLEAN]
      BY <1>9, <3>1, WriteType DEF ErrorWritten, ErrorKind, Write, TypeOK, EventKinds
    <3>3. CASE stopping
      BY <1>9, <3>2, <3>3 DEF ErrorWritten, ReceiverEnds, Stopped, TypeOK
    <3>4. CASE ~stopping
      BY <1>9, <3>2, <3>4 DEF ErrorWritten, TypeOK
    <3> QED
      BY <3>3, <3>4
  <2>2. Locking'
    BY <1>9 DEF ErrorWritten, Write, ErrorKind, ReceiverEnds, Locking
  <2>3. Handled'
    BY <1>9, MessageParts
    DEF ErrorWritten, Write, ErrorKind, ReceiverEnds, Stopped, Handled, TypeOK, QueueFull
  <2>4. Waiting'
    BY <1>9, CharactersOfTail, BoundsAssumption
    DEF ErrorWritten, Write, ErrorKind, ReceiverEnds, Stopped, Waiting, QueueWithinLimits,
       TypeOK, Handled, Working, Locking
  <2>5. Working'
    BY <1>9 DEF ErrorWritten, Write, ErrorKind, ReceiverEnds, Stopped, Working, Waiting, Locking
  <2>6. Ending'
    BY <1>9
    DEF ErrorWritten, Write, ErrorKind, ReceiverEnds, Stopped, Ending, Working, Locking, Waiting,
       TypeOK, Failures
  <2>7. SessionEndsWithCause'
    BY <1>9
    DEF ErrorWritten, Write, ErrorKind, ReceiverEnds, Stopped, SessionEndsWithCause, Ending,
       Waiting, TypeOK, SessionError, Failures
  <2> QED
    BY <2>1, <2>2, <2>3, <2>4, <2>5, <2>6, <2>7
<1>10. CASE ReceiverWriteFails
  <2>1. TypeOK'
    BY <1>10, MessageParts, WriteType, BoundsAssumption
    DEF ReceiverWriteFails, ReceiverEnds, Stopped, TypeOK, Event, EventKinds, Failures
  <2>2. Locking'
    BY <1>10 DEF ReceiverWriteFails, ReceiverEnds, Locking
  <2>3. Handled'
    BY <1>10, MessageParts
    DEF ReceiverWriteFails, ReceiverEnds, Stopped, Handled, TypeOK, QueueFull
  <2>4. Waiting'
    BY <1>10, CharactersOfTail, BoundsAssumption
    DEF ReceiverWriteFails, ReceiverEnds, Stopped, Waiting, QueueWithinLimits, TypeOK, Handled,
       Working, Locking
  <2>5. Working'
    BY <1>10 DEF ReceiverWriteFails, ReceiverEnds, Stopped, Working, Waiting, Locking
  <2>6. Ending'
    BY <1>10
    DEF ReceiverWriteFails, ReceiverEnds, Stopped, Ending, Working, Locking, Waiting, TypeOK,
       Failures
  <2>7. SessionEndsWithCause'
    BY <1>10
    DEF ReceiverWriteFails, ReceiverEnds, Stopped, SessionEndsWithCause, Ending, Waiting, TypeOK,
       SessionError, Failures
  <2> QED
    BY <2>1, <2>2, <2>3, <2>4, <2>5, <2>6, <2>7
<1> QED
  BY <1>1, <1>2, <1>3, <1>4, <1>5, <1>6, <1>7, <1>8, <1>9, <1>10 DEF ReceiverStep

(* The worker.                                                              *)
LEMMA WorkerInv == Inv /\ WorkerStep => Inv'
<1> SUFFICES ASSUME Inv, WorkerStep PROVE Inv'
  OBVIOUS
<1> USE DEF Inv, peerVars, queueVars, flagVars, recvVars, workVars, superVars
<1>1. CASE WorkerSeesStop
  <2>1. TypeOK'
    BY <1>1, MessageParts, WriteType, BoundsAssumption
    DEF WorkerSeesStop, WorkerEnds, Stopped, TypeOK, Event, EventKinds, Failures
  <2>2. Locking'
    BY <1>1 DEF WorkerSeesStop, WorkerEnds, Locking
  <2>3. Handled'
    BY <1>1, MessageParts DEF WorkerSeesStop, WorkerEnds, Stopped, Handled, TypeOK, QueueFull
  <2>4. Waiting'
    BY <1>1, CharactersOfTail, BoundsAssumption
    DEF WorkerSeesStop, WorkerEnds, Stopped, Waiting, QueueWithinLimits, TypeOK, Handled,
       Working, Locking
  <2>5. Working'
    BY <1>1 DEF WorkerSeesStop, WorkerEnds, Stopped, Working, Waiting, Locking
  <2>6. Ending'
    BY <1>1 DEF WorkerSeesStop, WorkerEnds, Stopped, Ending, Working, Locking, Waiting, TypeOK
  <2>7. SessionEndsWithCause'
    BY <1>1
    DEF WorkerSeesStop, WorkerEnds, Stopped, SessionEndsWithCause, Ending, Waiting, TypeOK,
       SessionError, Failures
  <2> QED
    BY <2>1, <2>2, <2>3, <2>4, <2>5, <2>6, <2>7
<1>2. CASE BeginSegment
  <2>1. TypeOK'
    <3>1. /\ ready' \in BOOLEAN /\ lock' \in {"free", "receiver", "worker"}
          /\ worker' \in {"ready", "start"}
      BY <1>2 DEF BeginSegment
    <3>2. UNCHANGED <<peerVars, wire, queueVars, started, cancelled, stopping, recvVars,
                      workerEnd, generator, chunks, ending, superVars>>
      BY <1>2 DEF BeginSegment
    <3> QED
      BY <3>1, <3>2 DEF TypeOK
  <2>2. Locking'
    BY <1>2 DEF BeginSegment, Locking
  <2>3. Handled'
    BY <1>2, MessageParts DEF BeginSegment, Handled, TypeOK, QueueFull
  <2>4. Waiting'
    BY <1>2, CharactersOfTail, BoundsAssumption
    DEF BeginSegment, Waiting, QueueWithinLimits, TypeOK, Handled, Working, Locking
  <2>5. Working'
    <3>1. CASE active = None
      BY <1>2, <3>1 DEF BeginSegment, Working, Waiting, Locking
    <3>2. CASE active # None
      BY <1>2, <3>2 DEF BeginSegment, Working, Waiting, Locking
    <3> QED
      BY <3>1, <3>2
  <2>6. Ending'
    <3>1. CASE active = None
      BY <1>2, <3>1 DEF BeginSegment, Ending, Working, Locking, Waiting, TypeOK
    <3>2. CASE active # None
      BY <1>2, <3>2 DEF BeginSegment, Ending, Working, Locking, Waiting, TypeOK
    <3> QED
      BY <3>1, <3>2
  <2>7. SessionEndsWithCause'
    BY <1>2
    DEF BeginSegment, SessionEndsWithCause, Ending, Waiting, TypeOK, SessionError, Failures
  <2> QED
    BY <2>1, <2>2, <2>3, <2>4, <2>5, <2>6, <2>7
<1>3. CASE StartWritten
  <2>1. TypeOK'
    BY <1>3, MessageParts, WriteType, BoundsAssumption
    DEF StartWritten, Write, TypeOK, Event, EventKinds, Failures
  <2>2. Locking'
    BY <1>3 DEF StartWritten, Locking
  <2>3. Handled'
    BY <1>3, MessageParts DEF StartWritten, Write, Handled, TypeOK, QueueFull
  <2>4. Waiting'
    BY <1>3, CharactersOfTail, BoundsAssumption
    DEF StartWritten, Write, Waiting, QueueWithinLimits, TypeOK, Handled, Working, Locking
  <2>5. Working'
    BY <1>3 DEF StartWritten, Write, Working, Waiting, Locking
  <2>6. Ending'
    BY <1>3 DEF StartWritten, Write, Ending, Working, Locking, Waiting, TypeOK
  <2>7. SessionEndsWithCause'
    BY <1>3
    DEF StartWritten, Write, SessionEndsWithCause, Ending, Waiting, TypeOK, SessionError,
       Failures
  <2> QED
    BY <2>1, <2>2, <2>3, <2>4, <2>5, <2>6, <2>7
<1>4. CASE NextChunk
  <2>1. TypeOK'
    BY <1>4, MessageParts, WriteType, BoundsAssumption
    DEF NextChunk, TypeOK, Event, EventKinds, Failures
  <2>2. Locking'
    BY <1>4 DEF NextChunk, Locking
  <2>3. Handled'
    BY <1>4, MessageParts DEF NextChunk, Handled, TypeOK, QueueFull
  <2>4. Waiting'
    BY <1>4, CharactersOfTail, BoundsAssumption
    DEF NextChunk, Waiting, QueueWithinLimits, TypeOK, Handled, Working, Locking
  <2>5. Working'
    BY <1>4 DEF NextChunk, Working, Waiting, Locking
  <2>6. Ending'
    BY <1>4 DEF NextChunk, Ending, Working, Locking, Waiting, TypeOK
  <2>7. SessionEndsWithCause'
    BY <1>4 DEF NextChunk, SessionEndsWithCause, Ending, Waiting, TypeOK, SessionError, Failures
  <2> QED
    BY <2>1, <2>2, <2>3, <2>4, <2>5, <2>6, <2>7
<1>5. CASE NextDone
  <2>1. TypeOK'
    BY <1>5, MessageParts, WriteType, BoundsAssumption
    DEF NextDone, TypeOK, Event, EventKinds, Failures
  <2>2. Locking'
    BY <1>5 DEF NextDone, Locking
  <2>3. Handled'
    BY <1>5, MessageParts DEF NextDone, Handled, TypeOK, QueueFull
  <2>4. Waiting'
    BY <1>5, CharactersOfTail, BoundsAssumption
    DEF NextDone, Waiting, QueueWithinLimits, TypeOK, Handled, Working, Locking
  <2>5. Working'
    BY <1>5 DEF NextDone, Working, Waiting, Locking
  <2>6. Ending'
    BY <1>5 DEF NextDone, Ending, Working, Locking, Waiting, TypeOK
  <2>7. SessionEndsWithCause'
    BY <1>5 DEF NextDone, SessionEndsWithCause, Ending, Waiting, TypeOK, SessionError, Failures
  <2> QED
    BY <2>1, <2>2, <2>3, <2>4, <2>5, <2>6, <2>7
<1>6. CASE ChunkWritten
  <2>1. TypeOK'
    BY <1>6, MessageParts, WriteType, BoundsAssumption
    DEF ChunkWritten, Write, TypeOK, Event, EventKinds, Failures
  <2>2. Locking'
    BY <1>6 DEF ChunkWritten, Locking
  <2>3. Handled'
    BY <1>6, MessageParts DEF ChunkWritten, Write, Handled, TypeOK, QueueFull
  <2>4. Waiting'
    BY <1>6, CharactersOfTail, BoundsAssumption
    DEF ChunkWritten, Write, Waiting, QueueWithinLimits, TypeOK, Handled, Working, Locking
  <2>5. Working'
    BY <1>6 DEF ChunkWritten, Write, Working, Waiting, Locking
  <2>6. Ending'
    BY <1>6 DEF ChunkWritten, Write, Ending, Working, Locking, Waiting, TypeOK
  <2>7. SessionEndsWithCause'
    BY <1>6
    DEF ChunkWritten, Write, SessionEndsWithCause, Ending, Waiting, TypeOK, SessionError,
       Failures
  <2> QED
    BY <2>1, <2>2, <2>3, <2>4, <2>5, <2>6, <2>7
<1>7. CASE Drained
  <2>1. TypeOK'
    BY <1>7, MessageParts, WriteType, BoundsAssumption
    DEF Drained, TypeOK, Event, EventKinds, Failures
  <2>2. Locking'
    BY <1>7 DEF Drained, Locking
  <2>3. Handled'
    BY <1>7, MessageParts DEF Drained, Handled, TypeOK, QueueFull
  <2>4. Waiting'
    BY <1>7, CharactersOfTail, BoundsAssumption
    DEF Drained, Waiting, QueueWithinLimits, TypeOK, Handled, Working, Locking
  <2>5. Working'
    BY <1>7 DEF Drained, Working, Waiting, Locking
  <2>6. Ending'
    BY <1>7 DEF Drained, Ending, Working, Locking, Waiting, TypeOK
  <2>7. SessionEndsWithCause'
    BY <1>7 DEF Drained, SessionEndsWithCause, Ending, Waiting, TypeOK, SessionError, Failures
  <2> QED
    BY <2>1, <2>2, <2>3, <2>4, <2>5, <2>6, <2>7
<1>8. CASE BeginEnd
  <2>1. TypeOK'
    BY <1>8, MessageParts, WriteType, BoundsAssumption
    DEF BeginEnd, TypeOK, Event, EventKinds, Failures
  <2>2. Locking'
    BY <1>8 DEF BeginEnd, Locking
  <2>3. Handled'
    BY <1>8, MessageParts DEF BeginEnd, Handled, TypeOK, QueueFull
  <2>4. Waiting'
    BY <1>8, CharactersOfTail, BoundsAssumption
    DEF BeginEnd, Waiting, QueueWithinLimits, TypeOK, Handled, Working, Locking
  <2>5. Working'
    BY <1>8 DEF BeginEnd, Working, Waiting, Locking
  <2>6. Ending'
    BY <1>8 DEF BeginEnd, Ending, Working, Locking, Waiting, TypeOK
  <2>7. SessionEndsWithCause'
    BY <1>8 DEF BeginEnd, SessionEndsWithCause, Ending, Waiting, TypeOK, SessionError, Failures
  <2> QED
    BY <2>1, <2>2, <2>3, <2>4, <2>5, <2>6, <2>7
<1>9. CASE EndWritten
  <2>1. TypeOK'
    <3>1. wire' \in [event : Event, odd : BOOLEAN]
      BY <1>9, WriteType DEF EndWritten, Write, TypeOK, EventKinds, Working
    <3>2. /\ active' \in Ids \cup {None} /\ pending' \in Seq(Ids) /\ pendingChars' \in Nat
          /\ ready' \in BOOLEAN
      <4>1. CASE pending = << >>
        <5>1. active' = None /\ ready' = FALSE /\ UNCHANGED <<pending, pendingChars>>
          BY <1>9, <4>1 DEF EndWritten
        <5> QED
          BY <5>1, ZenonT(30) DEF TypeOK
      <4>2. CASE pending # << >>
        <5>1. /\ Head(pending) \in Ids /\ Tail(pending) \in Seq(Ids)
              /\ pendingChars - Size[Head(pending)] \in Nat
          BY <4>2, QueueOfTail, CharactersNat
        <5>2. /\ active' = Head(pending) /\ pending' = Tail(pending)
              /\ pendingChars' = pendingChars - Size[Head(pending)] /\ UNCHANGED ready
          BY <1>9, <4>2 DEF EndWritten
        <5> QED
          BY <5>1, <5>2 DEF TypeOK
      <4> QED
        BY <4>1, <4>2
    <3>3. /\ started' \in BOOLEAN /\ cancelled' \in BOOLEAN /\ ending' = "none"
          /\ lock' = "free" /\ worker' = "ready"
      BY <1>9 DEF EndWritten
    <3>4. UNCHANGED <<peerVars, acceptedIds, stopping, recvVars, workerEnd, generator, chunks,
                      superVars>>
      BY <1>9 DEF EndWritten
    <3> QED
      BY <3>1, <3>2, <3>3, <3>4 DEF TypeOK
  <2>2. Locking'
    BY <1>9 DEF EndWritten, Locking
  <2>3. Handled'
    <3>1. receiver # "ack" /\ UNCHANGED <<receiver, message>>
      BY <1>9 DEF EndWritten, Locking
    <3> QED
      BY <3>1 DEF Handled
  <2>4. Waiting'
    <3>1. CASE pending = << >>
      BY <1>9, <3>1 DEF EndWritten, Waiting, QueueWithinLimits
    <3>2. CASE pending # << >>
      <4>1. /\ Head(pending) \in Ids /\ Tail(pending) \in Seq(Ids)
            /\ pendingChars - Size[Head(pending)] = Characters[Tail(pending)]
            /\ Len(Tail(pending)) <= MaxQueued /\ Characters[Tail(pending)] <= MaxCharacters
        BY <3>2, QueueOfTail
      <4> QED
        BY <1>9, <3>2, <4>1, IdsAssumption DEF EndWritten, Waiting, QueueWithinLimits
    <3> QED
      BY <3>1, <3>2
  <2>5. Working'
    BY <1>9 DEF EndWritten, Write, Working, Waiting, Locking
  <2>6. Ending'
    BY <1>9 DEF EndWritten, Write, Ending, Working, Locking, Waiting, TypeOK
  <2>7. SessionEndsWithCause'
    BY <1>9
    DEF EndWritten, Write, SessionEndsWithCause, Ending, Waiting, TypeOK, SessionError, Failures
  <2> QED
    BY <2>1, <2>2, <2>3, <2>4, <2>5, <2>6, <2>7
<1>10. CASE EndWrittenLate
  <2>1. TypeOK'
    <3>1. wire' \in [event : Event, odd : BOOLEAN]
      BY <1>10, WriteType DEF EndWrittenLate, Write, TypeOK, EventKinds, Working
    <3>2. active' \in Ids \cup {None} /\ pending' \in Seq(Ids) /\ pendingChars' \in Nat
      <4>1. active' = None /\ pending' = << >> /\ pendingChars' = 0
        BY <1>10 DEF EndWrittenLate, Stopped
      <4> QED
        BY <4>1
    <3>3. /\ started' \in BOOLEAN /\ stopping' \in BOOLEAN /\ cancelled' \in BOOLEAN
          /\ ready' \in BOOLEAN
          /\ ending' = "none" /\ lock' = "free" /\ worker' = "done" /\ workerEnd' = "returned"
      BY <1>10 DEF EndWrittenLate, Stopped
    <3>4. UNCHANGED <<peerVars, acceptedIds, recvVars, generator, chunks, superVars>>
      BY <1>10 DEF EndWrittenLate
    <3> QED
      BY <3>1, <3>2, <3>3, <3>4 DEF TypeOK
  <2>2. Locking'
    BY <1>10 DEF EndWrittenLate, Write, Locking
  <2>3. Handled'
    BY <1>10, MessageParts DEF EndWrittenLate, Write, Stopped, Handled, TypeOK, QueueFull
  <2>4. Waiting'
    BY <1>10, CharactersOfTail, BoundsAssumption
    DEF EndWrittenLate, Write, Stopped, Waiting, QueueWithinLimits, TypeOK, Handled, Working,
       Locking
  <2>5. Working'
    BY <1>10 DEF EndWrittenLate, Write, Stopped, Working, Waiting, Locking
  <2>6. Ending'
    BY <1>10 DEF EndWrittenLate, Write, Stopped, Ending, Working, Locking, Waiting, TypeOK
  <2>7. SessionEndsWithCause'
    BY <1>10
    DEF EndWrittenLate, Write, Stopped, SessionEndsWithCause, Ending, Waiting, TypeOK,
       SessionError, Failures
  <2> QED
    BY <2>1, <2>2, <2>3, <2>4, <2>5, <2>6, <2>7
<1>11. CASE NextFails
  <2>1. TypeOK'
    BY <1>11, MessageParts, WriteType, BoundsAssumption
    DEF NextFails, TypeOK, Event, EventKinds, Failures
  <2>2. Locking'
    BY <1>11 DEF NextFails, Locking
  <2>3. Handled'
    BY <1>11, MessageParts DEF NextFails, Handled, TypeOK, QueueFull
  <2>4. Waiting'
    BY <1>11, CharactersOfTail, BoundsAssumption
    DEF NextFails, Waiting, QueueWithinLimits, TypeOK, Handled, Working, Locking
  <2>5. Working'
    BY <1>11 DEF NextFails, Working, Waiting, Locking
  <2>6. Ending'
    BY <1>11 DEF NextFails, Ending, Working, Locking, Waiting, TypeOK, Failures
  <2>7. SessionEndsWithCause'
    BY <1>11 DEF NextFails, SessionEndsWithCause, Ending, Waiting, TypeOK, SessionError, Failures
  <2> QED
    BY <2>1, <2>2, <2>3, <2>4, <2>5, <2>6, <2>7
<1>12. CASE ChunkWriteFails
  <2>1. TypeOK'
    BY <1>12, MessageParts, WriteType, BoundsAssumption
    DEF ChunkWriteFails, WriteFailure, Failures, TypeOK, Event, EventKinds
  <2>2. Locking'
    BY <1>12 DEF ChunkWriteFails, WriteFailure, Locking
  <2>3. Handled'
    BY <1>12, MessageParts DEF ChunkWriteFails, WriteFailure, Failures, Handled, TypeOK, QueueFull
  <2>4. Waiting'
    BY <1>12, CharactersOfTail, BoundsAssumption
    DEF ChunkWriteFails, WriteFailure, Failures, Waiting, QueueWithinLimits, TypeOK, Handled,
       Working, Locking
  <2>5. Working'
    BY <1>12 DEF ChunkWriteFails, WriteFailure, Failures, Working, Waiting, Locking
  <2>6. Ending'
    BY <1>12 DEF ChunkWriteFails, WriteFailure, Failures, Ending, Working, Locking, Waiting
  <2>7. SessionEndsWithCause'
    BY <1>12
    DEF ChunkWriteFails, WriteFailure, Failures, SessionEndsWithCause, Ending, Waiting, TypeOK,
       SessionError
  <2> QED
    BY <2>1, <2>2, <2>3, <2>4, <2>5, <2>6, <2>7
<1>13. CASE Unwound
  <2>1. TypeOK'
    BY <1>13, MessageParts, WriteType, BoundsAssumption
    DEF Unwound, WorkerEnds, Stopped, TypeOK, Event, EventKinds, Failures
  <2>2. Locking'
    BY <1>13 DEF Unwound, WorkerEnds, Locking
  <2>3. Handled'
    BY <1>13, MessageParts DEF Unwound, WorkerEnds, Stopped, Handled, TypeOK, QueueFull
  <2>4. Waiting'
    BY <1>13, CharactersOfTail, BoundsAssumption
    DEF Unwound, WorkerEnds, Stopped, Waiting, QueueWithinLimits, TypeOK, Handled, Working,
       Locking
  <2>5. Working'
    BY <1>13 DEF Unwound, WorkerEnds, Stopped, Working, Waiting, Locking
  <2>6. Ending'
    BY <1>13 DEF Unwound, WorkerEnds, Stopped, Ending, Working, Locking, Waiting, TypeOK, Failures
  <2>7. SessionEndsWithCause'
    BY <1>13
    DEF Unwound, WorkerEnds, Stopped, SessionEndsWithCause, Ending, Waiting, TypeOK,
       SessionError, Failures
  <2> QED
    BY <2>1, <2>2, <2>3, <2>4, <2>5, <2>6, <2>7
<1>14. CASE DrainFails
  <2>1. TypeOK'
    BY <1>14, MessageParts, WriteType, BoundsAssumption
    DEF DrainFails, WorkerEnds, Stopped, TypeOK, Event, EventKinds, Failures
  <2>2. Locking'
    BY <1>14 DEF DrainFails, WorkerEnds, Locking
  <2>3. Handled'
    BY <1>14, MessageParts DEF DrainFails, WorkerEnds, Stopped, Handled, TypeOK, QueueFull
  <2>4. Waiting'
    BY <1>14, CharactersOfTail, BoundsAssumption
    DEF DrainFails, WorkerEnds, Stopped, Waiting, QueueWithinLimits, TypeOK, Handled, Working,
       Locking
  <2>5. Working'
    BY <1>14 DEF DrainFails, WorkerEnds, Stopped, Working, Waiting, Locking
  <2>6. Ending'
    BY <1>14 DEF DrainFails, WorkerEnds, Stopped, Ending, Working, Locking, Waiting, TypeOK
  <2>7. SessionEndsWithCause'
    BY <1>14
    DEF DrainFails, WorkerEnds, Stopped, SessionEndsWithCause, Ending, Waiting, TypeOK,
       SessionError, Failures
  <2> QED
    BY <2>1, <2>2, <2>3, <2>4, <2>5, <2>6, <2>7
<1>15. CASE EventWriteFails
  <2>1. TypeOK'
    BY <1>15, MessageParts, WriteType, BoundsAssumption
    DEF EventWriteFails, WorkerEnds, Stopped, WriteFailure, TypeOK, Event, EventKinds, Failures
  <2>2. Locking'
    BY <1>15 DEF EventWriteFails, WorkerEnds, Stopped, Locking
  <2>3. Handled'
    BY <1>15, MessageParts
    DEF EventWriteFails, WorkerEnds, Stopped, WriteFailure, Handled, TypeOK, QueueFull
  <2>4. Waiting'
    BY <1>15, CharactersOfTail, BoundsAssumption
    DEF EventWriteFails, WorkerEnds, Stopped, WriteFailure, Waiting, QueueWithinLimits, TypeOK,
       Handled, Working, Locking
  <2>5. Working'
    BY <1>15 DEF EventWriteFails, WorkerEnds, Stopped, WriteFailure, Working, Waiting, Locking
  <2>6. Ending'
    BY <1>15
    DEF EventWriteFails, WorkerEnds, Stopped, WriteFailure, Ending, Working, Locking, Waiting,
       TypeOK
  <2>7. SessionEndsWithCause'
    BY <1>15
    DEF EventWriteFails, WorkerEnds, Stopped, WriteFailure, SessionEndsWithCause, Ending,
       Waiting, TypeOK, SessionError, Failures
  <2> QED
    BY <2>1, <2>2, <2>3, <2>4, <2>5, <2>6, <2>7
<1> QED
  BY <1>1, <1>2, <1>3, <1>4, <1>5, <1>6, <1>7, <1>8, <1>9, <1>10, <1>11, <1>12, <1>13, <1>14,
     <1>15
  DEF WorkerStep

(* The supervisor, the idle timeout and the peer.                           *)
LEMMA OtherInv ==
    /\ Inv
    /\ IdleTimeout \/ SupervisorStep \/ PeerLeaves \/ \E m \in Messages : PeerSends(m)
    => Inv'
<1> SUFFICES ASSUME Inv, IdleTimeout \/ SupervisorStep \/ PeerLeaves
                    \/ \E m \in Messages : PeerSends(m)
             PROVE  Inv'
  OBVIOUS
<1> USE DEF Inv, peerVars, queueVars, flagVars, recvVars, workVars, superVars
<1>1. CASE IdleTimeout
  <2>1. TypeOK'
    BY <1>1, MessageParts, WriteType, BoundsAssumption
    DEF IdleTimeout, ReceiverEnds, Stopped, TypeOK, EventKinds, Failures
  <2>2. Locking'
    BY <1>1 DEF IdleTimeout, ReceiverEnds, Locking
  <2>3. Handled'
    BY <1>1 DEF IdleTimeout, ReceiverEnds, Stopped, Handled
  <2>4. Waiting'
    BY <1>1, CharactersOfTail, BoundsAssumption
    DEF IdleTimeout, ReceiverEnds, Stopped, Waiting, QueueWithinLimits
  <2>5. Working'
    BY <1>1 DEF IdleTimeout, ReceiverEnds, Working
  <2>6. Ending'
    BY <1>1 DEF IdleTimeout, ReceiverEnds, Stopped, Ending, Failures
  <2>7. SessionEndsWithCause'
    BY <1>1
    DEF IdleTimeout, ReceiverEnds, Stopped, SessionEndsWithCause, Ending, Waiting, SessionError
  <2> QED
    BY <2>1, <2>2, <2>3, <2>4, <2>5, <2>6, <2>7
<1>2. CASE Supervise
  <2>1. TypeOK'
    <3>1. message.id \in Ids \cup {None} \/ receiver \notin {"ack", "error"}
      BY MessageParts DEF Handled
    <3>2. \A w \in LateWrite : w \in [event : Event, odd : BOOLEAN]
      BY <3>1, WriteType DEF LateWrite, ErrorKind, TypeOK, EventKinds
    <3>3. wire' \in [event : Event, odd : BOOLEAN]
      BY <1>2, <3>2 DEF Supervise, TypeOK
    <3>4. pending' \in Seq(Ids) /\ pendingChars' \in Nat
      <4>1. pending' = << >> /\ pendingChars' = 0
        BY <1>2 DEF Supervise, Stopped
      <4> QED
        BY <4>1
    <3>5. /\ stopping' \in BOOLEAN /\ cancelled' \in BOOLEAN /\ ready' \in BOOLEAN
          /\ supervisor' = "join" /\ receiver' = "done" /\ receiverEnd' \in {receiverEnd, "stopped"}
          /\ message' = NoMessage /\ lock' \in {"free", lock}
      BY <1>2 DEF Supervise, Stopped
    <3>6. UNCHANGED <<peerVars, acceptedIds, active, started, workVars, closeCode, slot>>
      BY <1>2 DEF Supervise
    <3> QED
      BY <3>3, <3>4, <3>5, <3>6 DEF TypeOK
  <2>2. Locking'
    BY <1>2 DEF Supervise, Stopped, LateWrite, Locking
  <2>3. Handled'
    BY <1>2 DEF Supervise, Stopped, LateWrite, ErrorKind, Handled
  <2>4. Waiting'
    BY <1>2, CharactersOfTail, BoundsAssumption
    DEF Supervise, Stopped, LateWrite, ErrorKind, Waiting, QueueWithinLimits
  <2>5. Working'
    BY <1>2 DEF Supervise, Stopped, LateWrite, Working
  <2>6. Ending'
    <3>1. /\ receiver' = "done" /\ stopping' = TRUE /\ supervisor' = "join" /\ supervisor = "wait"
          /\ receiverEnd' = IF receiver = "done" THEN receiverEnd ELSE "stopped"
          /\ receiver = "done" \/ worker = "done"
          /\ UNCHANGED <<worker, workerEnd, active, slot>>
      BY <1>2 DEF Supervise, Stopped
    <3>2. CASE receiver = "done"
      BY <3>1, <3>2 DEF Ending
    <3>3. CASE receiver # "done"
      BY <3>1, <3>3 DEF Ending, Failures, TypeOK
    <3> QED
      BY <3>2, <3>3
  <2>7. SessionEndsWithCause'
    BY <1>2
    DEF Supervise, Stopped, LateWrite, ErrorKind, SessionEndsWithCause, Ending, Waiting,
       SessionError
  <2> QED
    BY <2>1, <2>2, <2>3, <2>4, <2>5, <2>6, <2>7
<1>3. CASE Release
  <2>1. TypeOK'
    <3>1. After(wire, "fatal", active) \in [event : Event, odd : BOOLEAN]
      BY WriteType DEF TypeOK, EventKinds
    <3>2. wire' \in [event : Event, odd : BOOLEAN] /\ closeCode' \in {0, 1000, 1011}
      BY <1>3, <3>1 DEF Release, ReportError, TypeOK
    <3>3. supervisor' = "released" /\ slot' \in BOOLEAN
      BY <1>3 DEF Release
    <3>4. UNCHANGED <<peerVars, queueVars, flagVars, lock, recvVars, workVars>>
      BY <1>3 DEF Release
    <3> QED
      BY <3>2, <3>3, <3>4 DEF TypeOK
  <2>2. Locking'
    BY <1>3 DEF Release, ReportError, Locking
  <2>3. Handled'
    BY <1>3 DEF Release, ReportError, SessionError, Handled, QueueFull
  <2>4. Waiting'
    BY <1>3, CharactersOfTail, BoundsAssumption
    DEF Release, ReportError, SessionError, Waiting, QueueWithinLimits
  <2>5. Working'
    BY <1>3 DEF Release, ReportError, Working
  <2>6. Ending'
    BY <1>3 DEF Release, ReportError, SessionError, Ending
  <2>7. SessionEndsWithCause'
    <3>1. /\ supervisor = "join" /\ worker = "done" /\ receiver = "done"
          /\ receiverEnd # "none" /\ workerEnd # "none"
      BY <1>3 DEF Release, Ending
    <3>2. UNCHANGED <<receiverEnd, workerEnd, active, pending>>
      BY <1>3 DEF Release
    <3>3. CASE receiverEnd # "eof" /\ SessionError # "none"
      BY <1>3, <3>2, <3>3 DEF Release, ReportError, SessionEndsWithCause, SessionError
    <3>4. CASE receiverEnd # "eof" /\ SessionError = "none"
      <4>1. workerEnd \notin Failures /\ receiverEnd \notin Failures
        BY <3>4 DEF SessionError, Failures
      <4>2. receiverEnd = "closed"
        BY <3>1, <3>4, <4>1 DEF Ending, TypeOK
      <4>3. closeCode' = 1000 /\ active = None /\ pending = << >>
        BY <1>3, <3>4, <4>2 DEF Release, Ending, Waiting
      <4> QED
        BY <3>2, <4>3 DEF SessionEndsWithCause
    <3>5. CASE receiverEnd = "eof"
      BY <3>2, <3>5 DEF SessionEndsWithCause
    <3> QED
      BY <3>3, <3>4, <3>5
  <2> QED
    BY <2>1, <2>2, <2>3, <2>4, <2>5, <2>6, <2>7
<1>4. CASE PeerLeaves
  <2>1. TypeOK'
    <3>1. connected' \in BOOLEAN
      BY <1>4 DEF PeerLeaves
    <3>2. UNCHANGED <<inbox, said, wire, queueVars, flagVars, lock, recvVars, workVars, superVars>>
      BY <1>4 DEF PeerLeaves
    <3> QED
      BY <3>1, <3>2 DEF TypeOK
  <2>2. Locking'
    BY <1>4 DEF PeerLeaves, Locking
  <2>3. Handled'
    BY <1>4 DEF PeerLeaves, Handled, QueueFull
  <2>4. Waiting'
    BY <1>4, CharactersOfTail, BoundsAssumption DEF PeerLeaves, Waiting, QueueWithinLimits
  <2>5. Working'
    BY <1>4 DEF PeerLeaves, Working
  <2>6. Ending'
    BY <1>4 DEF PeerLeaves, Ending
  <2>7. SessionEndsWithCause'
    BY <1>4 DEF PeerLeaves, SessionEndsWithCause, Ending, Waiting, SessionError
  <2> QED
    BY <2>1, <2>2, <2>3, <2>4, <2>5, <2>6, <2>7
<1>5. ASSUME NEW m \in Messages, PeerSends(m) PROVE Inv'
  <2>1. TypeOK'
    BY <1>5, MessageParts, WriteType, BoundsAssumption DEF PeerSends, TypeOK, EventKinds
  <2>2. Locking'
    BY <1>5 DEF PeerSends, Locking
  <2>3. Handled'
    BY <1>5 DEF PeerSends, Handled, QueueFull
  <2>4. Waiting'
    BY <1>5, CharactersOfTail, BoundsAssumption DEF PeerSends, Waiting, QueueWithinLimits
  <2>5. Working'
    BY <1>5 DEF PeerSends, Working
  <2>6. Ending'
    BY <1>5 DEF PeerSends, Ending
  <2>7. SessionEndsWithCause'
    BY <1>5 DEF PeerSends, SessionEndsWithCause, Ending, Waiting, SessionError
  <2> QED
    BY <2>1, <2>2, <2>3, <2>4, <2>5, <2>6, <2>7
<1> QED
  BY <1>1, <1>2, <1>3, <1>4, <1>5 DEF SupervisorStep

(* Every step keeps the invariant.                                          *)
LEMMA NextInv == Inv /\ [Next]_vars => Inv'
<1> SUFFICES ASSUME Inv, [Next]_vars PROVE Inv'
  OBVIOUS
<1>1. CASE UNCHANGED vars
  BY <1>1
  DEF vars, peerVars, queueVars, flagVars, recvVars, workVars, superVars, Inv, TypeOK, Locking,
     Handled, QueueFull, Waiting, QueueWithinLimits, Working, Ending, SessionEndsWithCause,
     SessionError
<1> QED
  BY <1>1, ReceiverInv, WorkerInv, OtherInv DEF Next, ServerStep

-----------------------------------------------------------------------------
(* The state is always of its type.                                         *)
THEOREM TypeCorrect == Spec => []TypeOK
<1>1. Inv => TypeOK
  BY DEF Inv
<1> QED
  BY <1>1, InitInv, NextInv, PTL DEF Spec

(* The characters counted are those that wait, and neither limit of the     *)
(* queue is ever exceeded, for texts of any lengths.                        *)
THEOREM Limits == Spec => []QueueWithinLimits
<1>1. Inv => QueueWithinLimits
  BY DEF Inv, Waiting
<1> QED
  BY <1>1, InitInv, NextInv, PTL DEF Spec

(* The engine slot is never released under an open generator or a task that *)
(* still runs.                                                              *)
THEOREM SlotSafe == Spec => []SlotOutlivesSynthesis
<1>1. Inv => SlotOutlivesSynthesis
  BY DEF Inv, TypeOK, Working, Ending, SlotOutlivesSynthesis
<1> QED
  BY <1>1, InitInv, NextInv, PTL DEF Spec

(* A session ends for a cause its client can tell.                          *)
THEOREM CauseKnown == Spec => []SessionEndsWithCause
<1>1. Inv => SessionEndsWithCause
  BY DEF Inv
<1> QED
  BY <1>1, InitInv, NextInv, PTL DEF Spec

-----------------------------------------------------------------------------
(* The session keeps the contract: every step is a step of SegmentFifo.     *)

(* What the contract counts as waiting: the active segment comes first      *)
(* until its audio.start is written.                                        *)
InTurn == IF active # None /\ ~started THEN <<active>> \o pending ELSE pending

(* Putting a segment in front of the queue, and taking it from there.       *)
LEMMA FrontOfQueue ==
    ASSUME NEW q \in Seq(Ids), NEW i \in Ids
    PROVE  /\ <<i>> \o q # << >> /\ Head(<<i>> \o q) = i /\ Tail(<<i>> \o q) = q
           /\ (<<i>> \o q)[1] = i /\ 1 \in DOMAIN (<<i>> \o q)
           /\ \A j \in Ids : <<i>> \o Append(q, j) = Append(<<i>> \o q, j)
           /\ q # << >> => <<Head(q)>> \o Tail(q) = q
<1>1. <<i>> \in Seq(Ids) /\ <<i>> \o q \in Seq(Ids)
  OBVIOUS
<1>2. <<i>> \o q # << >> /\ Head(<<i>> \o q) = i /\ Tail(<<i>> \o q) = q
  BY <1>1
<1>3. (<<i>> \o q)[1] = i /\ 1 \in DOMAIN (<<i>> \o q)
  BY <1>1
<1>4. \A j \in Ids : <<i>> \o Append(q, j) = Append(<<i>> \o q, j)
  BY <1>1
<1>5. q # << >> => <<Head(q)>> \o Tail(q) = q
  OBVIOUS
<1> QED
  BY <1>2, <1>3, <1>4, <1>5

(* A step that touches nothing the contract speaks of.                      *)
LEMMA Stutters ==
    ASSUME UNCHANGED <<wire, connected, acceptedIds, pending, active, started, cancelled, stopping>>
    PROVE  UNCHANGED Fifo!vars
  BY DEF Fifo!vars

(* stop() is the contract's Shut, or nothing when the session was already   *)
(* ending.                                                                  *)
LEMMA StopShuts ==
    ASSUME Inv, Stopped, UNCHANGED <<wire, connected, acceptedIds, active, started>>
    PROVE  [Fifo!Next]_Fifo!vars
<1> USE DEF Inv
<1>1. CASE stopping
  BY <1>1, Stutters DEF Stopped, Waiting
<1>2. CASE ~stopping
  <2>1. InTurn' \in {<< >>} \cup {<<w>> : w \in {InTurn[n] : n \in DOMAIN InTurn \cap {1}}}
    <3>1. CASE active # None /\ ~started
      <4>1. InTurn' = <<active>> \o << >> /\ InTurn = <<active>> \o pending
        BY <3>1 DEF InTurn, Stopped
      <4>2. InTurn' = <<active>> /\ 1 \in DOMAIN InTurn /\ InTurn[1] = active
        BY <3>1, <4>1, FrontOfQueue
      <4> QED
        BY <4>2
    <3>2. CASE ~(active # None /\ ~started)
      BY <3>2 DEF InTurn, Stopped
    <3> QED
      BY <3>1, <3>2
  <2>2. Fifo!Shut
    BY <1>2, <2>1 DEF Stopped, Fifo!Shut
  <2> QED
    BY <2>2 DEF Fifo!Next
<1> QED
  BY <1>1, <1>2

(* What is admitted joins the end of what waits.                            *)
LEMMA AckAccepts == Inv /\ AckWritten => [Fifo!Next]_Fifo!vars
<1> SUFFICES ASSUME Inv, AckWritten PROVE Fifo!Accept(message.id) /\ message.id \in Ids
  BY DEF Fifo!Next
<1> USE DEF Inv
<1>1. message.id \in Ids \ acceptedIds /\ (~stopping => ~cancelled)
  BY DEF AckWritten, Handled
<1>2. Fifo!Emit("accepted", message.id)
  BY DEF AckWritten, Write, After, Fifo!Emit, Fifo!After
<1>3. /\ acceptedIds' = acceptedIds \cup {message.id} /\ UNCHANGED <<connected, started>>
      /\ active' = IF active = None THEN message.id ELSE active
  BY DEF AckWritten, peerVars
<1>4. (stopping' <=> stopping) /\ (~stopping => UNCHANGED cancelled)
  BY DEF AckWritten, Stopped
<1>5. (cancelled /\ ~stopping)' <=> cancelled /\ ~stopping
  BY <1>4
<1>6. (IF started THEN active ELSE None)' = IF started THEN active ELSE None
  BY <1>3 DEF Waiting
<1>7. InTurn' \in {Append(InTurn, message.id)} \cup (IF ~stopping THEN {} ELSE {InTurn})
  <2>1. CASE active = None
    <3>1. pending' = << >> /\ pending = << >> /\ ~started /\ message.id # None
      BY <1>1, <2>1, IdsAssumption DEF AckWritten, Stopped, Waiting
    <3>2. InTurn' = <<message.id>> \o << >> /\ InTurn = << >>
      BY <1>3, <2>1, <3>1 DEF InTurn
    <3> QED
      BY <1>1, <3>2
  <2>2. CASE active # None /\ stopping
    BY <1>3, <2>2 DEF AckWritten, Stopped, Waiting, InTurn
  <2>3. CASE active # None /\ ~stopping
    <3>1. pending' = Append(pending, message.id) /\ active \in Ids /\ pending \in Seq(Ids)
      BY <2>3 DEF AckWritten, TypeOK
    <3>2. InTurn' = Append(InTurn, message.id)
      BY <1>1, <1>3, <2>3, <3>1 DEF InTurn
    <3> QED
      BY <3>2
  <2> QED
    BY <2>1, <2>2, <2>3
<1>8. Fifo!Accept(message.id)
  BY <1>1, <1>2, <1>3, <1>4, <1>5, <1>6, <1>7 DEF InTurn, Fifo!Accept
<1> QED
  BY <1>1, <1>8

(* The receiver and the idle timeout.                                       *)
LEMMA ReceiverImplements == Inv /\ (ReceiverStep \/ IdleTimeout) => [Fifo!Next]_Fifo!vars
<1> SUFFICES ASSUME Inv, ReceiverStep \/ IdleTimeout PROVE [Fifo!Next]_Fifo!vars
  OBVIOUS
<1> USE DEF peerVars, queueVars, flagVars
<1>1. CASE Receive \/ HandleSegment \/ HandleError
  BY <1>1, Stutters DEF Receive, HandleSegment, HandleError
<1>2. CASE ReceiveEof \/ ReceiverSeesStop \/ HandleClose \/ IdleTimeout
  BY <1>2, StopShuts DEF ReceiveEof, ReceiverSeesStop, HandleClose, IdleTimeout, ReceiverEnds
<1>3. CASE ReceiverWriteFails
  BY <1>3, StopShuts DEF ReceiverWriteFails, ReceiverEnds
<1>4. CASE AckWritten
  BY <1>4, AckAccepts
<1>5. CASE HandleCancel
  <2>1. active # None /\ started /\ ~cancelled /\ ~stopping
    BY <1>5 DEF HandleCancel, Handling, MatchesActive
  <2>2. /\ cancelled' = TRUE /\ pending' = << >>
        /\ UNCHANGED <<wire, connected, acceptedIds, active, started, stopping>>
    BY <1>5 DEF HandleCancel
  <2>3. Fifo!RequestCancel
    BY <2>1, <2>2 DEF Fifo!RequestCancel
  <2> QED
    BY <2>3 DEF Fifo!Next
<1>6. CASE ErrorWritten
  <2>1. ErrorKind \in {"rejected", "error"} /\ message.id \in Ids \cup {None}
    BY <1>6, MessageParts DEF ErrorWritten, ErrorKind, Inv, Handled
  <2>2. Fifo!Emit(ErrorKind, message.id)
    BY <1>6 DEF ErrorWritten, Write, After, Fifo!Emit, Fifo!After
  <2>3. UNCHANGED <<connected, acceptedIds, pending, active, started, stopping, cancelled>>
    BY <1>6 DEF ErrorWritten, ReceiverEnds, Stopped, Inv, Waiting
  <2>4. Fifo!Refuse
    BY <2>1, <2>2, <2>3 DEF Fifo!Refuse
  <2> QED
    BY <2>4 DEF Fifo!Next
<1> QED
  BY <1>1, <1>2, <1>3, <1>4, <1>5, <1>6 DEF ReceiverStep

(* The closing event of a segment ends it; the next one is still waiting.   *)
LEMMA EndEnds == Inv /\ (EndWritten \/ EndWrittenLate) => [Fifo!Next]_Fifo!vars
<1> SUFFICES ASSUME Inv, EndWritten \/ EndWrittenLate
             PROVE  Fifo!End(ending) /\ ending \in {"done", "cancelled"}
  BY DEF Fifo!Next
<1> USE DEF Inv
<1>1. /\ active # None /\ started /\ ending \in {"done", "cancelled"}
      /\ ~stopping => (ending = "cancelled" <=> cancelled)
  BY DEF EndWritten, EndWrittenLate, Working, TypeOK
<1>2. Fifo!Emit(ending, active)
  BY DEF EndWritten, EndWrittenLate, Write, After, Fifo!Emit, Fifo!After
<1>3. /\ ~started' /\ UNCHANGED <<connected, acceptedIds>> /\ (stopping' <=> stopping)
      /\ ~(cancelled /\ ~stopping)'
  BY DEF EndWritten, EndWrittenLate, Stopped, peerVars
<1>4. InTurn' = InTurn
  <2>1. InTurn = pending
    BY <1>1 DEF InTurn
  <2>2. CASE pending = << >>
    <3>1. active' = None /\ pending' = << >>
      BY <2>2 DEF EndWritten, EndWrittenLate, Stopped
    <3> QED
      BY <2>1, <2>2, <3>1 DEF InTurn
  <2>3. CASE pending # << >>
    <3>1. active' = Head(pending) /\ pending' = Tail(pending)
      BY <2>3 DEF EndWritten, EndWrittenLate, Waiting
    <3>2. Head(pending) \in Ids /\ pending \in Seq(Ids)
      BY <2>3, QueueOfTail
    <3>3. InTurn' = <<Head(pending)>> \o Tail(pending)
      BY <1>3, <3>1, <3>2, IdsAssumption DEF InTurn
    <3> QED
      BY <2>1, <2>3, <3>2, <3>3
  <2> QED
    BY <2>2, <2>3
<1>5. Fifo!End(ending)
  <2>1. ~stopping => ((ending = "cancelled") = (cancelled /\ ~stopping))
    BY <1>1
  <2>2. (cancelled /\ ~stopping)' = FALSE
    BY <1>3
  <2>3. (~stopping)' = ~stopping
    BY <1>3
  <2> QED
    BY <1>1, <1>2, <1>3, <1>4, <2>1, <2>2, <2>3, IdsAssumption DEF InTurn, Fifo!End
<1> QED
  BY <1>1, <1>5

(* The worker.                                                              *)
LEMMA WorkerImplements == Inv /\ WorkerStep => [Fifo!Next]_Fifo!vars
<1> SUFFICES ASSUME Inv, WorkerStep PROVE [Fifo!Next]_Fifo!vars
  OBVIOUS
<1> USE DEF peerVars, queueVars, flagVars
<1>1. CASE \/ BeginSegment \/ NextChunk \/ NextDone \/ Drained \/ BeginEnd \/ NextFails
           \/ ChunkWriteFails
  BY <1>1, Stutters
  DEF BeginSegment, NextChunk, NextDone, Drained, BeginEnd, NextFails, ChunkWriteFails
<1>2. CASE WorkerSeesStop \/ Unwound \/ DrainFails \/ EventWriteFails
  BY <1>2, StopShuts DEF WorkerSeesStop, Unwound, DrainFails, EventWriteFails, WorkerEnds
<1>3. CASE EndWritten \/ EndWrittenLate
  BY <1>3, EndEnds
<1>4. CASE StartWritten
  <2>1. active \in Ids /\ active # None /\ ~started /\ pending \in Seq(Ids)
    BY <1>4 DEF StartWritten, Inv, Working, TypeOK
  <2>2. Fifo!Emit("start", active)
    BY <1>4 DEF StartWritten, Write, After, Fifo!Emit, Fifo!After
  <2>3. started' = TRUE
        /\ UNCHANGED <<connected, acceptedIds, pending, active, cancelled, stopping>>
    BY <1>4 DEF StartWritten
  <2>4. InTurn # << >> /\ Head(InTurn) = active /\ Tail(InTurn) = pending /\ InTurn' = pending
    BY <2>1, <2>3 DEF InTurn
  <2>5. Fifo!Begin
    BY <2>1, <2>2, <2>3, <2>4 DEF Fifo!Begin
  <2> QED
    BY <2>5 DEF Fifo!Next
<1>5. CASE ChunkWritten
  <2>1. active # None /\ started /\ (~stopping => ~cancelled)
    BY <1>5 DEF ChunkWritten, Inv, Working
  <2>2. Fifo!Emit("audio", active)
    BY <1>5 DEF ChunkWritten, Write, After, Fifo!Emit, Fifo!After
  <2>3. UNCHANGED <<connected, acceptedIds, pending, active, started, cancelled, stopping>>
    BY <1>5 DEF ChunkWritten
  <2>4. Fifo!Speak
    BY <2>1, <2>2, <2>3 DEF Fifo!Speak
  <2> QED
    BY <2>4 DEF Fifo!Next
<1> QED
  BY <1>1, <1>2, <1>3, <1>4, <1>5 DEF WorkerStep

(* The supervisor and the peer.                                             *)
LEMMA OtherImplements ==
    /\ Inv
    /\ SupervisorStep \/ PeerLeaves \/ \E m \in Messages : PeerSends(m)
    => [Fifo!Next]_Fifo!vars
<1> SUFFICES ASSUME Inv, SupervisorStep \/ PeerLeaves \/ \E m \in Messages : PeerSends(m)
             PROVE  [Fifo!Next]_Fifo!vars
  OBVIOUS
<1> USE DEF peerVars, queueVars, flagVars
<1>1. CASE Supervise
  <2>1. /\ stopping /\ cancelled /\ pending = << >>
        /\ UNCHANGED <<connected, acceptedIds, pending, active, started, cancelled, stopping>>
    BY <1>1 DEF Supervise, Stopped, Inv, Ending, Waiting
  <2>2. CASE wire' = wire
    BY <2>1, <2>2, Stutters
  <2>3. CASE connected /\ receiver = "ack" /\ wire' = After(wire, "accepted", message.id)
    <3>1. message.id \in Ids \ acceptedIds
      BY <2>3 DEF Inv, Handled
    <3>2. Fifo!Emit("accepted", message.id)
      BY <2>3 DEF After, Fifo!Emit, Fifo!After
    <3>3. Fifo!LastWords
      BY <2>1, <3>1, <3>2 DEF Fifo!LastWords
    <3> QED
      BY <3>3 DEF Fifo!Next
  <2>4. CASE connected /\ receiver = "error" /\ wire' = After(wire, ErrorKind, message.id)
    <3>1. ErrorKind \in {"rejected", "error"} /\ message.id \in Ids \cup {None}
      BY <2>4, MessageParts DEF ErrorKind, Inv, Handled
    <3>2. Fifo!Emit(ErrorKind, message.id)
      BY <2>4 DEF After, Fifo!Emit, Fifo!After
    <3>3. Fifo!Refuse
      BY <2>1, <3>1, <3>2 DEF Fifo!Refuse
    <3> QED
      BY <3>3 DEF Fifo!Next
  <2> QED
    BY <1>1, <2>2, <2>3, <2>4 DEF Supervise, LateWrite
<1>2. CASE Release
  <2>1. /\ stopping /\ active \in Ids \cup {None}
        /\ UNCHANGED <<connected, acceptedIds, pending, active, started, cancelled, stopping>>
    BY <1>2 DEF Release, Inv, Ending, TypeOK
  <2>2. CASE wire' = wire
    BY <2>1, <2>2, Stutters
  <2>3. CASE connected /\ wire' = After(wire, "fatal", active)
    <3>1. Fifo!Emit("fatal", active)
      BY <2>3 DEF After, Fifo!Emit, Fifo!After
    <3>2. Fifo!LastWords
      BY <2>1, <3>1 DEF Fifo!LastWords
    <3> QED
      BY <3>2 DEF Fifo!Next
  <2> QED
    BY <1>2, <2>2, <2>3 DEF Release, ReportError
<1>3. CASE PeerLeaves
  <2>1. Fifo!Disconnect
    BY <1>3 DEF PeerLeaves, Fifo!Disconnect
  <2> QED
    BY <2>1 DEF Fifo!Next
<1>4. CASE \E m \in Messages : PeerSends(m)
  BY <1>4, Stutters DEF PeerSends
<1> QED
  BY <1>1, <1>2, <1>3, <1>4 DEF SupervisorStep

(* The session, with its three tasks, its queue and its locks, implements   *)
(* the contract of contracts/tts-websocket.md.                              *)
THEOREM Contract == Spec => KeepsContract
<1>1. Init => Fifo!Init
  BY DEF Init, Fifo!Init
<1>2. Inv /\ [Next]_vars => [Fifo!Next]_Fifo!vars
  <2> SUFFICES ASSUME Inv, [Next]_vars PROVE [Fifo!Next]_Fifo!vars
    OBVIOUS
  <2>1. CASE UNCHANGED vars
    BY <2>1, Stutters DEF vars, peerVars, queueVars, flagVars
  <2> QED
    BY <2>1, ReceiverImplements, WorkerImplements, OtherImplements DEF Next, ServerStep
<1> QED
  BY <1>1, <1>2, InitInv, NextInv, PTL DEF Spec, KeepsContract, Fifo!Spec

=============================================================================

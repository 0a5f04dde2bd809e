--------------------------- MODULE Services_proofs ---------------------------
(* Proofs about the machines around the sessions: about DetectorService for  *)
(* any calls, any number of threads and any number of frames, about          *)
(* PacedFrames for any rate and any number of streams, about HistogramWindow *)
(* for any latencies, restarts, gaps and delays, and about all of the        *)
(* machines of MCServices side by side, whatever their constants.            *)
EXTENDS MCServices, Gateway_proofs, Speech_proofs

-----------------------------------------------------------------------------
(* DetectorService.                                                         *)

Open(s) == dCalls[s].at \notin {"none", "done"}

(* The ranges the argument needs; a call's other fields play no part in it. *)
Shape ==
    /\ dCalls \in [Streams -> Call]
    /\ dHealth \in [live : BOOLEAN, ready : BOOLEAN, serving : BOOLEAN, http : BOOLEAN]
    /\ dServer \in {"off", "open", "stopping", "cancelled"}

(* What the order of start() and stop() guarantees while main is at a step. *)
Order ==
    /\ dMain \in {"set_live", "start_scheduler", "start_grpc", "failed"} => dServer = "off"
    /\ dMain = "start_grpc" => dSched = "open"
    /\ dMain \in {"announce", "runs", "unready", "stop_grpc"} => dServer = "open" /\ dSched = "open"
    /\ dMain = "wait_grpc" => dServer \in {"stopping", "cancelled"} /\ dSched = "open"
    /\ dMain = "close_scheduler" => dServer \in {"stopping", "cancelled"}
    /\ dMain \in {"set_dead", "returned"} => dServer \in {"stopping", "cancelled"}
    /\ dMain = "raised" => dServer \in {"off", "stopping", "cancelled"}
    /\ dHealth.ready => dMain \in {"runs", "unready"}

(* A call that is still open once main waited for the server, or once the   *)
(* scheduler is closed, is one its client or the end of the grace cancelled. *)
Grace ==
    /\ dServer = "off" => \A s \in Streams : dCalls[s].at = "none"
    /\ dServer = "cancelled" => \A s \in Streams : Open(s) => dCalls[s].cancelled
    /\ dMain \in {"close_scheduler", "set_dead", "returned", "raised"} =>
          \A s \in Streams : Open(s) => dCalls[s].cancelled
    /\ dSched # "open" => dMain \in {"set_live", "start_scheduler", "start_grpc", "failed",
                                     "set_dead", "returned", "raised"}

Graceful ==
    \A s \in Streams : dCalls[s].said = "shutting_down" => dCalls[s].cancelled

GraceInv == Shape /\ Order /\ Grace /\ Graceful

(* Init satisfies the invariant.                                            *)
LEMMA InitGrace == DetectorInit => GraceInv
<1> SUFFICES ASSUME DetectorInit PROVE GraceInv
  OBVIOUS
<1>1. Shape
  BY DetectorAssumption DEF DetectorInit, Shape, Call, Codes
<1>2. Order /\ Grace /\ Graceful
  BY DEF DetectorInit, Order, Grace, Graceful, Open
<1> QED
  BY <1>1, <1>2 DEF GraceInv

(* A step of main: the order of start() and stop().                         *)
LEMMA MainGrace == GraceInv /\ MainStep => GraceInv'
<1> SUFFICES ASSUME GraceInv, MainStep PROVE GraceInv'
  OBVIOUS
<1> USE DEF GraceInv, Shape, Order, Grace, Graceful, Open
<1>1. CASE SetLive
  BY <1>1 DEF SetLive
<1>2. CASE StartScheduler
  BY <1>2 DEF StartScheduler
<1>3. CASE StartGrpc
  BY <1>3 DEF StartGrpc
<1>4. CASE StartFails
  BY <1>4 DEF StartFails
<1>5. CASE Announce
  BY <1>5 DEF Announce
<1>6. CASE BeginStop
  BY <1>6 DEF BeginStop
<1>7. CASE Unready
  BY <1>7 DEF Unready
<1>8. CASE StopGrpc
  BY <1>8 DEF StopGrpc
<1>9. CASE WaitGrpc
  BY <1>9 DEF WaitGrpc
<1>10. CASE CloseScheduler
  BY <1>10 DEF CloseScheduler
<1>11. CASE SetDead
  BY <1>11 DEF SetDead
<1> QED
  BY <1>1, <1>2, <1>3, <1>4, <1>5, <1>6, <1>7, <1>8, <1>9, <1>10, <1>11 DEF MainStep

(* A handler's step replaces its own call.  The invariant survives if the   *)
(* call stays cancelled, opens only at an open server, and is refused by    *)
(* the scheduler only when the scheduler is closed.                         *)
LEMMA ServesGrace ==
    ASSUME GraceInv, NEW s \in Streams, NEW next \in Call, Serves(s, next),
           dCalls[s].cancelled => next.cancelled,
           Open(s) \/ dServer = "open",
           next.said = "shutting_down" =>
              dCalls[s].said = "shutting_down" \/ (Open(s) /\ dSched # "open")
    PROVE  GraceInv'
<1> USE DEF GraceInv, Serves
<1>1. dCalls' = [dCalls EXCEPT ![s] = next] /\ dCalls \in [Streams -> Call]
  BY DEF Shape
<1>2. dCalls'[s] = next /\ \A t \in Streams \ {s} : dCalls'[t] = dCalls[t]
  BY <1>1
<1>3. Shape'
  BY <1>1 DEF Shape
<1>4. Order'
  BY DEF Order
<1>5. Grace'
  BY <1>2 DEF Grace, Order, Open
<1>6. Graceful'
  <2>1. CASE next.said # "shutting_down"
    BY <1>2, <2>1 DEF Graceful
  <2>2. CASE dCalls[s].said = "shutting_down"
    BY <1>2, <2>2 DEF Graceful
  <2>3. CASE Open(s) /\ dSched # "open"
    BY <1>2, <2>3 DEF Graceful, Grace, Order, Open
  <2> QED
    BY <2>1, <2>2, <2>3
<1> QED
  BY <1>3, <1>4, <1>5, <1>6

(* Every step of a handler is one of those.                                 *)
LEMMA HandlerGrace ==
    ASSUME GraceInv, NEW s \in Streams,
           \/ Opens(s) \/ RequireAuthentication(s) \/ RequestsEnd(s) \/ Receives(s)
           \/ Submit(s) \/ Answered(s) \/ Responds(s) \/ Cancels(s)
    PROVE  GraceInv'
<1>1. dCalls[s] \in Call
  BY DEF GraceInv, Shape
<1>2. Open(s) <=> dCalls[s].at \notin {"none", "done"}
  BY DEF Open
<1> DEFINE At(at) == [dCalls[s] EXCEPT !.at = at]
<1>3. ASSUME NEW at \in {"none", "queued", "next", "received", "submitted", "responds", "done"},
             Serves(s, At(at)), Open(s) \/ dServer = "open"
      PROVE  GraceInv'
  <2>1. At(at) \in Call
    BY <1>1 DEF Call
  <2>2. At(at).cancelled = dCalls[s].cancelled /\ At(at).said = dCalls[s].said
    BY <1>1 DEF Call
  <2> QED
    BY <1>3, <2>1, <2>2, ServesGrace
<1>4. ASSUME NEW code \in Codes, Serves(s, Says(s, code)), Open(s),
             code = "shutting_down" => dSched # "open"
      PROVE  GraceInv'
  <2>1. Says(s, code) \in Call
    BY <1>1 DEF Says, Call
  <2>2. Says(s, code).cancelled = dCalls[s].cancelled /\ Says(s, code).said = code
    BY <1>1 DEF Says, Call
  <2> QED
    BY <1>4, <2>1, <2>2, ServesGrace
<1>5. CASE Opens(s)
  BY <1>3, <1>5 DEF Opens
<1>6. CASE RequireAuthentication(s)
  BY <1>2, <1>3, <1>6 DEF RequireAuthentication
<1>7. CASE RequestsEnd(s)
  BY <1>2, <1>3, <1>7 DEF RequestsEnd
<1>8. CASE Receives(s)
  <2> DEFINE next == [dCalls[s] EXCEPT !.at = "received", !.frames = @ + 1]
  <2>1. dCalls[s].frames \in 0 .. MaxFrames /\ dCalls[s].frames < MaxFrames
    BY <1>1, <1>8 DEF Receives, Call
  <2>2. dCalls[s].frames + 1 \in 0 .. MaxFrames
    BY <2>1, DetectorAssumption
  <2>3. next \in Call /\ next.cancelled = dCalls[s].cancelled /\ next.said = dCalls[s].said
    BY <1>1, <2>2 DEF Call
  <2>4. Serves(s, next) /\ Open(s)
    BY <1>2, <1>8 DEF Receives
  <2> HIDE DEF next
  <2> QED
    BY <2>3, <2>4, ServesGrace
<1>9. CASE Submit(s)
  BY <1>2, <1>3, <1>4, <1>9 DEF Submit, Codes
<1>10. CASE Answered(s)
  BY <1>2, <1>4, <1>10 DEF Answered, Codes
<1>11. CASE Responds(s)
  BY <1>2, <1>3, <1>11 DEF Responds
<1>12. CASE Cancels(s)
  <2> DEFINE next == [dCalls[s] EXCEPT !.cancelled = TRUE]
  <2>1. next \in Call /\ next.cancelled /\ next.said = dCalls[s].said
    BY <1>1 DEF Call
  <2>2. Serves(s, next) /\ Open(s)
    BY <1>2, <1>12 DEF Cancels
  <2> HIDE DEF next
  <2> QED
    BY <2>1, <2>2, ServesGrace
<1> QED
  BY <1>5, <1>6, <1>7, <1>8, <1>9, <1>10, <1>11, <1>12

(* The end of the grace cancels what is open, and touches nothing else.     *)
LEMMA GraceEndsGrace == GraceInv /\ GraceEnds => GraceInv'
<1> SUFFICES ASSUME GraceInv, GraceEnds PROVE GraceInv'
  OBVIOUS
<1> USE DEF GraceInv, GraceEnds
<1>1. \A s \in Streams : dCalls[s] \in Call
  BY DEF Shape
<1>2. \A s \in Streams : dCalls'[s] = IF dCalls[s].at \in {"none", "done"} THEN dCalls[s]
                                      ELSE [dCalls[s] EXCEPT !.cancelled = TRUE]
  OBVIOUS
<1>3. \A s \in Streams : /\ dCalls'[s] \in Call /\ dCalls'[s].at = dCalls[s].at
                         /\ dCalls'[s].said = dCalls[s].said
                         /\ Open(s) => dCalls'[s].cancelled
  BY <1>1, <1>2 DEF Call, Open
<1>4. Shape'
  BY <1>3 DEF Shape
<1>5. Order'
  BY DEF Order
<1>6. Grace'
  BY <1>3 DEF Grace, Order, Open
<1>7. Graceful'
  BY <1>3 DEF Graceful
<1> QED
  BY <1>4, <1>5, <1>6, <1>7

(* Nobody who is still listening is told that the detector shuts down, and  *)
(* a process that says it is ready accepts frames, whatever calls arrive,   *)
(* end or are cancelled while start() and stop() run.                       *)
THEOREM StopIsGraceful == DetectorSpec => []ShutdownIsGraceful
<1>1. GraceInv /\ [DetectorNext]_detectorVars => GraceInv'
  <2> SUFFICES ASSUME GraceInv, [DetectorNext]_detectorVars PROVE GraceInv'
    OBVIOUS
  <2>1. CASE Signal \/ UNCHANGED detectorVars
    BY <2>1 DEF Signal, detectorVars, GraceInv, Shape, Order, Grace, Graceful, Open
  <2> QED
    BY <2>1, MainGrace, GraceEndsGrace, HandlerGrace DEF DetectorNext
<1>2. GraceInv => ShutdownIsGraceful
  BY DEF GraceInv, Order, Graceful, ShutdownIsGraceful
<1> QED
  BY <1>1, <1>2, InitGrace, PTL DEF DetectorSpec

-----------------------------------------------------------------------------
(* Division with remainder.                                                 *)

(* A number has one quotient and one remainder.                             *)
LEMMA OneQuotient ==
    ASSUME NEW d \in Nat \ {0}, NEW q \in Int, NEW p \in Int,
           NEW r \in 0 .. d - 1, NEW s \in 0 .. d - 1, d * q + r = d * p + s
    PROVE  q = p /\ r = s
<1>1. ASSUME NEW a \in Int, NEW b \in Int, NEW x \in 0 .. d - 1, NEW y \in 0 .. d - 1,
             d * a + x = d * b + y
      PROVE  ~(a > b)
  <2> SUFFICES ASSUME a > b PROVE FALSE
    OBVIOUS
  <2>1. PICK c \in Nat : a = b + 1 + c
    <3>1. a - b - 1 \in Nat /\ a = b + 1 + (a - b - 1)
      OBVIOUS
    <3> QED BY <3>1
  <2>2. d * a = d * b + d + d * c /\ d * c >= 0
    BY <2>1
  <2>3. d * a \in Int /\ d * b \in Int /\ d * c \in Int
    BY <2>1
  <2> QED BY <1>1, <2>2, <2>3
<1>2. q = p
  BY <1>1
<1> QED BY <1>2

(* The operators of Integers find them.                                     *)
LEMMA Quotient ==
    ASSUME NEW d \in Nat \ {0}, NEW q \in Nat, NEW r \in 0 .. d - 1
    PROVE  (d * q + r) % d = r /\ (d * q + r) \div d = q
<1>1. \A n \in Nat : n = d * (n \div d) + (n % d) /\ n % d \in 0 .. d - 1 /\ n \div d \in Int
  OBVIOUS
<1>2. d * q + r \in Nat
  OBVIOUS
<1> QED BY <1>1, <1>2, OneQuotient

-----------------------------------------------------------------------------
(* The pace of the frames.                                                  *)

Streamed == 0 .. CameraStreams - 1

FrameShape ==
    /\ fClock \in 0 .. MaxFrameTime /\ fNow \in 0 .. fClock /\ fNext \in Nat
    /\ fAt \in {"test", "wait", "held", "ended"} /\ fStop \in BOOLEAN
    /\ fFrameIds \in [Streamed -> Nat]
    /\ fSent \in Seq([at : Nat, stream : Streamed, id : Nat])
    /\ \A n \in DOMAIN fSent : fSent[n].at <= fClock

(* next_send is ahead of the frames that were sent: by an interval of the   *)
(* last but one, once the generator goes on.                                *)
Due ==
    /\ fAt = "held" =>
         /\ Len(fSent) > 0 /\ fNow = fSent[Len(fSent)].at
         /\ fNext >= (Len(fSent) - 1) * Interval
         /\ Len(fSent) > 1 => fNext >= fSent[Len(fSent) - 1].at
    /\ fAt \in {"test", "wait"} =>
         /\ fNext >= Len(fSent) * Interval
         /\ Len(fSent) > 0 => fNext >= fSent[Len(fSent)].at
         /\ Len(fSent) > 1 => fNext >= fSent[Len(fSent) - 1].at + Interval

(* Whole rounds of the streams were sent, and the first r streams of one    *)
(* more.                                                                    *)
RoundRobin(q, r) ==
    /\ Len(fSent) = CameraStreams * q + r
    /\ \A s \in Streamed : fFrameIds[s] = IF s < r THEN q + 1 ELSE q

InTurn == \E q \in Nat, r \in Streamed : RoundRobin(q, r)

PacedInv == FrameShape /\ Due /\ InTurn /\ FramesArePaced

(* A frame that was sent has a time and a stream.                           *)
LEMMA SentFrames ==
    ASSUME FrameShape
    PROVE  /\ Len(fSent) \in Nat /\ DOMAIN fSent = 1 .. Len(fSent)
           /\ \A n \in 1 .. Len(fSent) :
                 fSent[n].at \in Nat /\ fSent[n].stream \in Streamed /\ fSent[n].at <= fClock
<1> DEFINE F == [at : Nat, stream : Streamed, id : Nat]
<1>1. fSent \in Seq(F)
  BY DEF FrameShape
<1>2. \A f \in F : f.at \in Nat /\ f.stream \in Streamed
  OBVIOUS
<1> HIDE DEF F
<1>3. \A n \in 1 .. Len(fSent) : fSent[n].at \in Nat /\ fSent[n].stream \in Streamed
  BY <1>1, <1>2
<1> QED BY <1>1, <1>3 DEF FrameShape

(* No frame is sent at the start.                                           *)
LEMMA PacedInitInv == PacedInit => PacedInv
<1> SUFFICES ASSUME PacedInit PROVE PacedInv
  OBVIOUS
<1> USE PacedAssumption DEF PacedInit
<1>1. FrameShape
  BY DEF FrameShape, Streamed
<1>2. Due
  <2>1. Len(fSent) = 0 /\ 0 * Interval = 0
    OBVIOUS
  <2> QED BY <2>1 DEF Due
<1>3. RoundRobin(0, 0) /\ 0 \in Streamed
  BY DEF RoundRobin, Streamed
<1>4. FramesArePaced
  BY DEF FramesArePaced
<1> QED BY <1>1, <1>2, <1>3, <1>4 DEF PacedInv, InTurn

(* A yield: the frame is due, and the next one of its stream.               *)
LEMMA Yield ==
    ASSUME PacedInv, WaitAndYield, ~(fStop \/ fClock >= Duration)
    PROVE  PacedInv'
<1> DEFINE L == Len(fSent)
           stream == L % CameraStreams
           f == [at |-> fClock, stream |-> stream, id |-> fFrameIds'[stream]]
<1>1. /\ fAt = "wait" /\ fClock >= fNext /\ fAt' = "held" /\ fNow' = fClock
      /\ fFrameIds' = [fFrameIds EXCEPT ![stream] = @ + 1]
      /\ fSent' = Append(fSent, f)
      /\ UNCHANGED <<fClock, fNext, fStop>>
  BY DEF WaitAndYield
<1>2. /\ fClock \in Nat /\ fNext \in Nat /\ L \in Nat /\ fFrameIds \in [Streamed -> Nat]
      /\ fSent \in Seq([at : Nat, stream : Streamed, id : Nat])
      /\ CameraStreams \in Nat \ {0} /\ Interval \in Nat \ {0}
  BY PacedAssumption DEF PacedInv, FrameShape
<1>s. \A n \in 1 .. L : fSent[n].at \in Nat
  BY SentFrames DEF PacedInv
<1>3. PICK q \in Nat, r \in Streamed : RoundRobin(q, r)
  BY DEF PacedInv, InTurn
<1>4. stream = r /\ L \div CameraStreams = q
  BY <1>2, <1>3, Quotient DEF RoundRobin, Streamed
<1>5. fFrameIds'[stream] = q + 1
  BY <1>1, <1>2, <1>3, <1>4 DEF RoundRobin
<1>6. f \in [at : Nat, stream : Streamed, id : Nat]
  BY <1>2, <1>3, <1>4, <1>5
<1>7. /\ fSent' \in Seq([at : Nat, stream : Streamed, id : Nat])
      /\ Len(fSent') = L + 1 /\ fSent'[L + 1] = f
      /\ \A n \in 1 .. L : fSent'[n] = fSent[n]
      /\ DOMAIN fSent = 1 .. L /\ DOMAIN fSent' = 1 .. L + 1
  BY <1>1, <1>2, <1>6
<1>8. FrameShape'
  <2>1. fFrameIds' \in [Streamed -> Nat]
    BY <1>1, <1>2, <1>3, <1>4
  <2>2. \A n \in DOMAIN fSent' : fSent'[n].at <= fClock'
    BY <1>1, <1>2, <1>7 DEF PacedInv, FrameShape
  <2> QED BY <1>1, <1>7, <2>1, <2>2 DEF PacedInv, FrameShape
<1>9. Due'
  <2>1. fNext >= L * Interval /\ (L > 0 => fNext >= fSent[L].at)
    BY <1>1 DEF PacedInv, Due
  <2>2. L + 1 - 1 = L /\ (L > 0 => L \in 1 .. L)
    BY <1>2
  <2>3. L > 0 => fSent'[L] = fSent[L]
    BY <1>7, <2>2
  <2>4. fSent'[L + 1].at = fClock /\ L + 1 > 0 /\ (L + 1 > 1 <=> L > 0)
    BY <1>2, <1>7
  <2>5. /\ fNext >= (L + 1 - 1) * Interval
        /\ L + 1 > 1 => fNext >= fSent'[L + 1 - 1].at
    BY <2>1, <2>2, <2>3, <2>4
  <2>6. fAt' = "held" /\ Len(fSent') = L + 1 /\ fNext' = fNext /\ fNow' = fClock
    BY <1>1, <1>7
  <2>7. /\ fAt' = "held" /\ Len(fSent') > 0 /\ fNow' = fSent'[Len(fSent')].at
        /\ fNext' >= (Len(fSent') - 1) * Interval
        /\ Len(fSent') > 1 => fNext' >= fSent'[Len(fSent') - 1].at
    BY <2>4, <2>5, <2>6
  <2> QED BY <2>7 DEF Due
<1>10. InTurn'
  <2>1. CASE r = CameraStreams - 1
    <3>1. L + 1 = CameraStreams * (q + 1) + 0
      BY <1>2, <1>3, <2>1 DEF RoundRobin
    <3>2. \A s \in Streamed : fFrameIds'[s] = q + 1 /\ ~(s < 0)
      BY <1>1, <1>2, <1>3, <1>4, <2>1 DEF RoundRobin, Streamed
    <3>3. RoundRobin(q + 1, 0)'
      BY <1>7, <3>1, <3>2 DEF RoundRobin, Streamed
    <3>4. q + 1 \in Nat /\ 0 \in Streamed
      BY <1>2 DEF Streamed
    <3> QED BY <3>3, <3>4 DEF InTurn, Streamed
  <2>2. CASE r # CameraStreams - 1
    <3>1. L + 1 = CameraStreams * q + (r + 1) /\ r + 1 \in Streamed
      BY <1>2, <1>3, <2>2 DEF RoundRobin, Streamed
    <3>2. \A s \in Streamed : fFrameIds'[s] = IF s < r + 1 THEN q + 1 ELSE q
      BY <1>1, <1>2, <1>3, <1>4 DEF RoundRobin, Streamed
    <3>3. RoundRobin(q, r + 1)'
      BY <1>7, <3>1, <3>2 DEF RoundRobin, Streamed
    <3> QED BY <3>1, <3>3 DEF InTurn, Streamed
  <2> QED BY <2>1, <2>2
<1>11. FramesArePaced'
  <2> SUFFICES ASSUME NEW n \in 1 .. L + 1
               PROVE  /\ n > 2 => fSent'[n].at - fSent'[n - 2].at >= Interval
                      /\ fSent'[n].at >= (n - 1) * Interval
                      /\ fSent'[n].id = (n - 1) \div CameraStreams + 1
    BY <1>7 DEF FramesArePaced
  <2>1. CASE n \in 1 .. L
    <3>1. fSent'[n] = fSent[n] /\ (n > 2 => fSent'[n - 2] = fSent[n - 2])
      BY <1>7, <2>1, SMTT(30)
    <3> QED BY <1>7, <2>1, <3>1 DEF PacedInv, FramesArePaced
  <2>2. CASE n = L + 1
    <3>1. fNext >= L * Interval /\ (L > 1 => fNext >= fSent[L - 1].at + Interval)
      BY <1>1 DEF PacedInv, Due
    <3>2. n - 1 = L /\ n - 2 = L - 1 /\ (n > 2 => L > 1 /\ L - 1 \in 1 .. L)
      BY <1>2, <2>2
    <3>3. fSent'[n].at = fClock /\ fSent'[n].id = q + 1
      BY <1>5, <1>7, <2>2
    <3>4. n > 2 => fClock - fSent'[n - 2].at >= Interval
      <4> SUFFICES ASSUME n > 2 PROVE fClock - fSent'[n - 2].at >= Interval
        OBVIOUS
      <4>1. PICK at \in Nat : fSent[L - 1].at = at /\ fSent'[n - 2].at = at
        BY <1>7, <1>s, <3>2
      <4>2. fNext >= at + Interval
        BY <3>1, <3>2, <4>1
      <4>3. fClock >= at + Interval
        BY <1>1, <1>2, <4>2
      <4>4. fClock - at >= Interval
        BY <1>2, <4>3
      <4> QED BY <4>1, <4>4
    <3>5. fClock >= L * Interval
      BY <1>1, <1>2, <3>1
    <3> QED BY <1>4, <3>2, <3>3, <3>4, <3>5
  <2> QED BY <1>2, <2>1, <2>2
<1> QED BY <1>8, <1>9, <1>10, <1>11 DEF PacedInv

(* The generator goes on: next_send moves one interval, or catches up.      *)
LEMMA GoesOn ==
    ASSUME PacedInv, Resumes
    PROVE  PacedInv'
<1> DEFINE L == Len(fSent)
<1>1. /\ fAt = "held" /\ fAt' = "test" /\ UNCHANGED <<fClock, fNow, fStop, fFrameIds, fSent>>
      /\ fNext' = IF fNext + Interval < fNow THEN fNow + Interval ELSE fNext + Interval
  BY DEF Resumes
<1>2. /\ fNow \in Nat /\ fNext \in Nat /\ L \in Nat /\ Interval \in Nat \ {0}
      /\ fSent \in Seq([at : Nat, stream : Streamed, id : Nat])
  BY PacedAssumption DEF PacedInv, FrameShape
<1>3. fNext' \in Nat /\ fNext' >= fNext + Interval /\ fNext' >= fNow
  BY <1>1, <1>2
<1>4. /\ L > 0 /\ fNow = fSent[L].at /\ fNext >= (L - 1) * Interval
      /\ L > 1 => fNext >= fSent[L - 1].at
  BY <1>1 DEF PacedInv, Due
<1>s. L > 1 => fSent[L - 1].at \in Nat
  <2>1. L > 1 => L - 1 \in 1 .. L
    BY <1>2
  <2> QED BY <2>1, SentFrames DEF PacedInv
<1>5. L * Interval = (L - 1) * Interval + Interval /\ (L - 1) * Interval \in Int
  BY <1>2
<1>6. fNext' >= L * Interval
  BY <1>2, <1>3, <1>4, <1>5
<1>7. L > 1 => fNext' >= fSent[L - 1].at + Interval
  BY <1>2, <1>3, <1>4, <1>s
<1>8. Due'
  BY <1>1, <1>3, <1>4, <1>6, <1>7 DEF Due
<1>9. FrameShape'
  BY <1>1, <1>3 DEF PacedInv, FrameShape
<1>10. InTurn' /\ FramesArePaced'
  BY <1>1 DEF PacedInv, InTurn, RoundRobin, FramesArePaced
<1> QED BY <1>8, <1>9, <1>10 DEF PacedInv

(* Every step keeps the pace.                                               *)
LEMMA PacedNextInv == PacedInv /\ [PacedNext]_pacedVars => PacedInv'
<1> SUFFICES ASSUME PacedInv, [PacedNext]_pacedVars PROVE PacedInv'
  OBVIOUS
<1>1. ASSUME UNCHANGED <<fNext, fFrameIds, fSent>>, fClock' \in fClock .. MaxFrameTime,
             fNow' \in 0 .. fClock', fStop' \in BOOLEAN,
             \/ fAt' = fAt /\ fNow' = fNow
             \/ fAt \in {"test", "wait"} /\ fAt' \in {"wait", "ended"}
      PROVE  PacedInv'
  <2>1. FrameShape'
    <3>1. fClock \in Nat /\ fClock' \in 0 .. MaxFrameTime /\ fClock <= fClock'
      BY <1>1, PacedAssumption DEF PacedInv, FrameShape
    <3>2. \A n \in DOMAIN fSent : fSent[n].at \in Nat /\ fSent[n].at <= fClock
      BY SentFrames DEF PacedInv
    <3>3. \A n \in DOMAIN fSent' : fSent'[n].at <= fClock'
      BY <1>1, <3>1, <3>2
    <3> QED BY <1>1, <3>1, <3>3 DEF PacedInv, FrameShape
  <2>2. Due'
    BY <1>1 DEF PacedInv, Due
  <2>3. InTurn' /\ FramesArePaced'
    BY <1>1 DEF PacedInv, InTurn, RoundRobin, FramesArePaced
  <2> QED BY <2>1, <2>2, <2>3 DEF PacedInv
<1>2. fClock \in 0 .. MaxFrameTime /\ fNow \in 0 .. fClock /\ fStop \in BOOLEAN
      /\ MaxFrameTime \in Nat
  BY PacedAssumption DEF PacedInv, FrameShape
<1>3. CASE FrameTick
  BY <1>1, <1>2, <1>3 DEF FrameTick
<1>4. CASE StopEvent
  BY <1>1, <1>2, <1>4 DEF StopEvent
<1>5. CASE TestStop
  BY <1>1, <1>2, <1>5 DEF TestStop
<1>6. CASE WaitAndYield
  <2>1. CASE fStop \/ fClock >= Duration
    BY <1>1, <1>2, <1>6, <2>1 DEF WaitAndYield
  <2> QED BY <1>6, <2>1, Yield
<1>7. CASE Resumes
  BY <1>7, GoesOn
<1>8. CASE UNCHANGED pacedVars
  BY <1>1, <1>2, <1>8 DEF pacedVars
<1> QED BY <1>3, <1>4, <1>5, <1>6, <1>7, <1>8 DEF PacedNext

(* What was sent is numbered as it was counted.                             *)
LEMMA PacedTyped == PacedInv => PacedTypeOK /\ FramesArePaced
<1> SUFFICES ASSUME PacedInv PROVE PacedTypeOK
  BY DEF PacedInv
<1>1. ASSUME NEW n \in DOMAIN fSent
      PROVE  fSent[n].at \in 0 .. fClock /\ fSent[n].stream < CameraStreams
  <2>1. fSent[n].at \in Nat /\ fSent[n].stream \in Streamed /\ fSent[n].at <= fClock
    BY SentFrames DEF PacedInv
  <2>2. fClock \in Nat /\ CameraStreams \in Nat
    BY PacedAssumption DEF PacedInv, FrameShape
  <2> QED BY <2>1, <2>2 DEF Streamed
<1> QED BY <1>1 DEF PacedInv, FrameShape, Streamed, PacedTypeOK

(* However long gRPC holds the generator, and whatever the rate: no burst,  *)
(* no frame before it is due, no gap in the numbers of a stream.            *)
THEOREM Paced == PacedSpec => [](PacedTypeOK /\ FramesArePaced)
  BY PacedInitInv, PacedNextInv, PacedTyped, PTL DEF PacedSpec
-----------------------------------------------------------------------------
(* Sums of sequences of numbers.                                            *)

(* p holds what the first 0, 1, ... N numbers of s add up to.               *)
Partial(s, N, p) ==
    /\ p \in [0 .. N -> Nat] /\ p[0] = 0
    /\ \A n \in 1 .. N : p[n] = p[n - 1] + s[n]

LEMMA PartialExists ==
    ASSUME NEW N \in Nat, NEW s \in [1 .. N -> Nat]
    PROVE  \E p : Partial(s, N, p)
<1> DEFINE T == {k \in Nat : k <= N => \E p : Partial(s, k, p)}
<1>1. 0 \in T
  <2> DEFINE q == [n \in 0 .. 0 |-> 0]
  <2>1. Partial(s, 0, q)
    BY DEF Partial
  <2> HIDE DEF q
  <2> QED
    BY <2>1
<1>2. ASSUME NEW k \in Nat, k \in T PROVE k + 1 \in T
  <2> SUFFICES ASSUME k + 1 <= N PROVE \E p : Partial(s, k + 1, p)
    OBVIOUS
  <2>1. PICK p : Partial(s, k, p)
    BY <1>2
  <2> DEFINE q == [n \in 0 .. k + 1 |-> IF n = k + 1 THEN p[k] + s[k + 1] ELSE p[n]]
  <2>2. /\ p \in [0 .. k -> Nat] /\ p[0] = 0 /\ \A n \in 1 .. k : p[n] = p[n - 1] + s[n]
    BY <2>1 DEF Partial
  <2>3. s[k + 1] \in Nat /\ p[k] \in Nat
    <3>1. k + 1 \in 1 .. N /\ k \in 0 .. k
      OBVIOUS
    <3> QED
      BY <2>2, <3>1
  <2>4. q \in [0 .. k + 1 -> Nat] /\ q[0] = 0
    BY <2>2, <2>3
  <2>5. ASSUME NEW n \in 1 .. k + 1 PROVE q[n] = q[n - 1] + s[n]
    <3>1. CASE n = k + 1
      BY <3>1
    <3>2. CASE n # k + 1
      <4>1. n \in 1 .. k /\ n - 1 \in 0 .. k + 1 /\ n - 1 # k + 1 /\ n \in 0 .. k + 1
        BY <3>2
      <4> QED
        BY <2>2, <3>2, <4>1
    <3> QED
      BY <3>1, <3>2
  <2> HIDE DEF q
  <2> QED
    BY <2>4, <2>5 DEF Partial
<1> HIDE DEF T
<1>3. N \in T
  BY <1>1, <1>2, SetInduction
<1> QED
  BY <1>3 DEF T

(* sum() is the last of them.                                               *)
LEMMA SumIs ==
    ASSUME NEW N \in Nat, NEW s \in [1 .. N -> Nat], NEW p, Partial(s, N, p)
    PROVE  SumOf(s) = p[N]
<1>1. Len(s) = N
  OBVIOUS
<1>2. /\ p \in [0 .. N -> Nat] /\ p[0] = 0 /\ \A n \in 1 .. N : p[n] = p[n - 1] + s[n]
  BY DEF Partial
<1> DEFINE Adds(g) == g = [n \in 0 .. N |-> IF n = 0 THEN 0 ELSE g[n - 1] + s[n]]
           f == CHOOSE g : Adds(g)
<1>3. Adds(p)
  <2> DEFINE q == [n \in 0 .. N |-> IF n = 0 THEN 0 ELSE p[n - 1] + s[n]]
  <2>1. ASSUME NEW n \in 0 .. N PROVE p[n] = q[n]
    <3>1. CASE n = 0
      BY <1>2, <3>1
    <3>2. CASE n # 0
      <4>1. n \in 1 .. N
        BY <3>2
      <4> QED
        BY <1>2, <3>2, <4>1
    <3> QED
      BY <3>1, <3>2
  <2>2. /\ DOMAIN p = 0 .. N /\ p = [n \in DOMAIN p |-> p[n]]
        /\ DOMAIN q = 0 .. N /\ q = [n \in DOMAIN q |-> q[n]]
    BY <1>2
  <2> HIDE DEF q
  <2>3. p = q
    BY <2>1, <2>2
  <2> QED
    BY <2>3 DEF q
<1>4. Adds(f)
  BY <1>3
<1>5. SumOf(s) = f[N]
  BY <1>1 DEF SumOf
<1>6. f[0] = 0 /\ \A n \in 1 .. N : f[n] = f[n - 1] + s[n]
  <2>1. \A n \in 0 .. N : f[n] = IF n = 0 THEN 0 ELSE f[n - 1] + s[n]
    <3> HIDE DEF f
    <3> QED
      BY <1>4
  <2>2. 0 \in 0 .. N /\ \A n \in 1 .. N : n \in 0 .. N /\ n # 0
    OBVIOUS
  <2> HIDE DEF f
  <2> QED
    BY <2>1, <2>2
<1> HIDE DEF f, Adds
<1> DEFINE T == {n \in Nat : n <= N => f[n] = p[n]}
<1>7. 0 \in T
  BY <1>2, <1>6
<1>8. ASSUME NEW n \in Nat, n \in T PROVE n + 1 \in T
  <2> SUFFICES ASSUME n + 1 <= N PROVE f[n + 1] = p[n + 1]
    OBVIOUS
  <2>1. n + 1 \in 1 .. N /\ n <= N /\ (n + 1) - 1 = n
    OBVIOUS
  <2> QED
    BY <1>2, <1>6, <1>8, <2>1
<1> HIDE DEF T
<1>9. N \in T
  BY <1>7, <1>8, SetInduction
<1> QED
  BY <1>5, <1>9 DEF T

(* The sum of the first k numbers.                                          *)
LEMMA SumFirst ==
    ASSUME NEW N \in Nat, NEW s \in [1 .. N -> Nat], NEW p, Partial(s, N, p), NEW k \in 0 .. N
    PROVE  SumOf([n \in 1 .. k |-> s[n]]) = p[k]
<1> DEFINE t == [n \in 1 .. k |-> s[n]]
           q == [n \in 0 .. k |-> p[n]]
<1>1. /\ p \in [0 .. N -> Nat] /\ p[0] = 0 /\ \A n \in 1 .. N : p[n] = p[n - 1] + s[n]
  BY DEF Partial
<1>2. \A n \in 1 .. k : n \in 1 .. N /\ n \in 0 .. k /\ n - 1 \in 0 .. k
  OBVIOUS
<1>3. t \in [1 .. k -> Nat] /\ q \in [0 .. k -> Nat] /\ q[0] = 0 /\ k \in Nat
  BY <1>1
<1>4. \A n \in 1 .. k : q[n] = q[n - 1] + t[n]
  BY <1>1, <1>2
<1>5. q[k] = p[k]
  OBVIOUS
<1> HIDE DEF t, q
<1>6. Partial(t, k, q)
  BY <1>3, <1>4 DEF Partial
<1>7. SumOf(t) = p[k]
  BY <1>3, <1>5, <1>6, SumIs
<1> QED
  BY <1>7 DEF t

(* All of them at once.                                                     *)
LEMMA FirstSums ==
    ASSUME NEW N \in Nat, NEW s \in [1 .. N -> Nat]
    PROVE  \E p : /\ Partial(s, N, p)
                  /\ \A k \in 0 .. N : SumOf([n \in 1 .. k |-> s[n]]) = p[k]
<1>1. PICK p : Partial(s, N, p)
  BY PartialExists
<1>2. \A k \in 0 .. N : SumOf([n \in 1 .. k |-> s[n]]) = p[k]
  <2> TAKE k \in 0 .. N
  <2> QED
    BY <1>1, SumFirst
<1> QED
  BY <1>1, <1>2

(* What is added between two places lies between as many times the least    *)
(* and the greatest of the numbers there.                                   *)
LEMMA SumBetween ==
    ASSUME NEW N \in Nat, NEW s \in [1 .. N -> Nat], NEW a \in 0 .. N, NEW b \in a .. N
    PROVE  LET A == SumOf([n \in 1 .. a |-> s[n]])
               B == SumOf([n \in 1 .. b |-> s[n]])
           IN  /\ A \in Nat /\ B \in Nat
               /\ \A lo \in Nat : (\A n \in a + 1 .. b : lo <= s[n]) => (b - a) * lo <= B - A
               /\ \A hi \in Nat : (\A n \in a + 1 .. b : s[n] <= hi) => B - A <= (b - a) * hi
<1>1. PICK p : Partial(s, N, p)
  BY PartialExists
<1>2. /\ p \in [0 .. N -> Nat] /\ p[0] = 0 /\ \A n \in 1 .. N : p[n] = p[n - 1] + s[n]
  BY <1>1 DEF Partial
<1>3. a \in 0 .. N /\ b \in 0 .. N /\ a \in Nat /\ b \in Nat /\ a <= b /\ b - a \in Nat
  OBVIOUS
<1>4. p[a] \in Nat /\ p[b] \in Nat
  BY <1>2, <1>3
<1>8. SumOf([n \in 1 .. a |-> s[n]]) = p[a]
  BY <1>1, <1>3, SumFirst
<1>9. SumOf([n \in 1 .. b |-> s[n]]) = p[b]
  BY <1>1, <1>3, SumFirst
<1>5. ASSUME NEW d \in Nat, a + d + 1 <= b
      PROVE  /\ a + d \in 0 .. N /\ a + d + 1 \in 1 .. N /\ a + d + 1 \in a + 1 .. b
             /\ p[a + d] \in Nat /\ p[a + d + 1] \in Nat /\ s[a + d + 1] \in Nat
             /\ p[a + d + 1] = p[a + d] + s[a + d + 1]
  <2>1. a + d \in 0 .. N /\ a + d + 1 \in 1 .. N /\ a + d + 1 \in a + 1 .. b /\ a + d + 1 \in 0 .. N
    BY <1>3, <1>5
  <2>2. (a + d + 1) - 1 = a + d
    BY <1>3
  <2>3. s[a + d + 1] \in Nat
    BY <2>1
  <2> QED
    BY <1>2, <2>1, <2>2, <2>3
<1>6. ASSUME NEW lo \in Nat, \A n \in a + 1 .. b : lo <= s[n] PROVE (b - a) * lo <= p[b] - p[a]
  <2> DEFINE T == {d \in Nat : a + d <= b => d * lo <= p[a + d] - p[a]}
  <2>1. 0 \in T
    <3>1. a + 0 = a /\ 0 * lo = 0
      BY <1>3
    <3> QED
      BY <1>4, <3>1
  <2>2. ASSUME NEW d \in Nat, d \in T PROVE d + 1 \in T
    <3> SUFFICES ASSUME a + (d + 1) <= b PROVE (d + 1) * lo <= p[a + (d + 1)] - p[a]
      OBVIOUS
    <3>1. a + (d + 1) = a + d + 1 /\ a + d + 1 <= b /\ a + d <= b
      BY <1>3
    <3>2. d * lo <= p[a + d] - p[a]
      BY <2>2, <3>1
    <3>3. (d + 1) * lo = d * lo + lo /\ d * lo \in Nat
      OBVIOUS
    <3>4. lo <= s[a + d + 1]
      BY <1>5, <1>6, <3>1
    <3> DEFINE x == d * lo
               y == p[a + d]
               z == s[a + d + 1]
    <3>5. /\ x \in Nat /\ y \in Nat /\ z \in Nat /\ p[a + d + 1] = y + z /\ x <= y - p[a] /\ lo <= z
          /\ (d + 1) * lo = x + lo
      BY <1>5, <3>1, <3>2, <3>3, <3>4
    <3> HIDE DEF x, y, z
    <3>6. x + lo <= (y + z) - p[a]
      BY <1>4, <3>5
    <3> QED
      BY <3>1, <3>5, <3>6
  <2> HIDE DEF T
  <2>3. b - a \in T
    BY <1>3, <2>1, <2>2, SetInduction
  <2>4. a + (b - a) = b
    BY <1>3
  <2> QED
    BY <1>3, <2>3, <2>4 DEF T
<1>7. ASSUME NEW hi \in Nat, \A n \in a + 1 .. b : s[n] <= hi PROVE p[b] - p[a] <= (b - a) * hi
  <2> DEFINE T == {d \in Nat : a + d <= b => p[a + d] - p[a] <= d * hi}
  <2>1. 0 \in T
    <3>1. a + 0 = a /\ 0 * hi = 0
      BY <1>3
    <3> QED
      BY <1>4, <3>1
  <2>2. ASSUME NEW d \in Nat, d \in T PROVE d + 1 \in T
    <3> SUFFICES ASSUME a + (d + 1) <= b PROVE p[a + (d + 1)] - p[a] <= (d + 1) * hi
      OBVIOUS
    <3>1. a + (d + 1) = a + d + 1 /\ a + d + 1 <= b /\ a + d <= b
      BY <1>3
    <3>2. p[a + d] - p[a] <= d * hi
      BY <2>2, <3>1
    <3>3. (d + 1) * hi = d * hi + hi /\ d * hi \in Nat
      OBVIOUS
    <3>4. s[a + d + 1] <= hi
      BY <1>5, <1>7, <3>1
    <3> DEFINE x == d * hi
               y == p[a + d]
               z == s[a + d + 1]
    <3>5. /\ x \in Nat /\ y \in Nat /\ z \in Nat /\ p[a + d + 1] = y + z /\ y - p[a] <= x /\ z <= hi
          /\ (d + 1) * hi = x + hi
      BY <1>5, <3>1, <3>2, <3>3, <3>4
    <3> HIDE DEF x, y, z
    <3>6. (y + z) - p[a] <= x + hi
      BY <1>4, <3>5
    <3> QED
      BY <3>1, <3>5, <3>6
  <2> HIDE DEF T
  <2>3. b - a \in T
    BY <1>3, <2>1, <2>2, SetInduction
  <2>4. a + (b - a) = b
    BY <1>3
  <2> QED
    BY <1>3, <2>3, <2>4 DEF T
<1> QED
  BY <1>4, <1>6, <1>7, <1>8, <1>9

(* A sum of numbers is a number, and of none it is 0.                       *)
LEMMA SumNat ==
    /\ \A N \in Nat : \A s \in [1 .. N -> Nat] : SumOf(s) \in Nat
    /\ \A s \in [1 .. 0 -> Nat] : SumOf(s) = 0
<1>1. ASSUME NEW N \in Nat, NEW s \in [1 .. N -> Nat]
      PROVE  SumOf(s) \in Nat /\ (N = 0 => SumOf(s) = 0)
  <2>1. PICK p : Partial(s, N, p)
    BY PartialExists
  <2>2. SumOf(s) = p[N]
    BY <2>1, SumIs
  <2>3. p \in [0 .. N -> Nat] /\ p[0] = 0 /\ N \in 0 .. N
    BY <2>1 DEF Partial
  <2> QED
    BY <2>2, <2>3
<1> QED
  BY <1>1

SumTo(s, k) == SumOf([n \in 1 .. k |-> s[n]])

(* Sequences that agree between two places add the same between them.       *)
LEMMA SumSame ==
    ASSUME NEW N \in Nat, NEW s \in [1 .. N -> Nat], NEW t \in [1 .. N -> Nat],
           NEW a \in 0 .. N, NEW b \in a .. N
    PROVE  (\A n \in a + 1 .. b : s[n] = t[n]) =>
               SumTo(s, b) - SumTo(s, a) = SumTo(t, b) - SumTo(t, a)
<1>1. PICK p : Partial(s, N, p) /\ \A k \in 0 .. N : SumOf([n \in 1 .. k |-> s[n]]) = p[k]
  BY FirstSums
<1>2. PICK q : Partial(t, N, q) /\ \A k \in 0 .. N : SumOf([n \in 1 .. k |-> t[n]]) = q[k]
  BY FirstSums
<1>3. /\ p \in [0 .. N -> Nat] /\ \A n \in 1 .. N : p[n] = p[n - 1] + s[n]
      /\ q \in [0 .. N -> Nat] /\ \A n \in 1 .. N : q[n] = q[n - 1] + t[n]
  BY <1>1, <1>2 DEF Partial
<1>4. a \in 0 .. N /\ b \in 0 .. N /\ a \in Nat /\ b \in Nat /\ a <= b /\ b - a \in Nat
  OBVIOUS
<1>5. p[a] \in Nat /\ p[b] \in Nat /\ q[a] \in Nat /\ q[b] \in Nat
  BY <1>3, <1>4
<1> SUFFICES ASSUME \A n \in a + 1 .. b : s[n] = t[n]
             PROVE  SumOf([n \in 1 .. b |-> s[n]]) - SumOf([n \in 1 .. a |-> s[n]])
                    = SumOf([n \in 1 .. b |-> t[n]]) - SumOf([n \in 1 .. a |-> t[n]])
  BY DEF SumTo
<1> DEFINE T == {d \in Nat : a + d <= b => p[a + d] - p[a] = q[a + d] - q[a]}
<1>6. 0 \in T
  <2>1. a + 0 = a
    BY <1>4
  <2> QED
    BY <1>5, <2>1
<1>7. ASSUME NEW d \in Nat, d \in T PROVE d + 1 \in T
  <2> SUFFICES ASSUME a + (d + 1) <= b
               PROVE  p[a + (d + 1)] - p[a] = q[a + (d + 1)] - q[a]
    OBVIOUS
  <2> DEFINE m == a + d
  <2>1. /\ a + (d + 1) = m + 1 /\ m + 1 \in 1 .. N /\ m \in 0 .. N /\ (m + 1) - 1 = m
        /\ m + 1 \in a + 1 .. b /\ m <= b
    BY <1>4
  <2>2. p[m] - p[a] = q[m] - q[a]
    BY <1>7, <2>1
  <2> HIDE DEF m
  <2>3. /\ p[m + 1] = p[m] + s[m + 1] /\ q[m + 1] = q[m] + s[m + 1]
        /\ p[m] \in Nat /\ q[m] \in Nat /\ s[m + 1] \in Nat
    BY <1>3, <2>1
  <2>4. p[m + 1] - p[a] = q[m + 1] - q[a]
    <3> DEFINE x == p[m]
               y == q[m]
               u == p[a]
               v == q[a]
               w == s[m + 1]
    <3>1. /\ x \in Nat /\ y \in Nat /\ u \in Nat /\ v \in Nat /\ w \in Nat /\ x - u = y - v
          /\ p[m + 1] = x + w /\ q[m + 1] = y + w
      BY <1>5, <2>1, <2>2, <2>3
    <3> HIDE DEF x, y, u, v, w
    <3>2. (x + w) - u = (y + w) - v
      BY <3>1
    <3> QED
      BY <3>1, <3>2 DEF u, v
  <2> QED
    BY <2>1, <2>4
<1> HIDE DEF T
<1>8. b - a \in T
  BY <1>4, <1>6, <1>7, SetInduction
<1>9. a + (b - a) = b
  BY <1>4
<1>10. p[b] - p[a] = q[b] - q[a]
  BY <1>4, <1>8, <1>9 DEF T
<1>11. /\ SumOf([n \in 1 .. a |-> s[n]]) = p[a] /\ SumOf([n \in 1 .. b |-> s[n]]) = p[b]
       /\ SumOf([n \in 1 .. a |-> t[n]]) = q[a] /\ SumOf([n \in 1 .. b |-> t[n]]) = q[b]
  BY <1>1, <1>2, <1>4
<1> QED
  BY <1>10, <1>11

(* Numbers that are at most the lengths of stretches one behind the other   *)
(* add up to at most the length of it all, and to exactly that if they are  *)
(* the lengths and nothing lies between the stretches.                      *)
LEMMA Telescope ==
    ASSUME NEW m \in Nat \ {0}, NEW c \in [1 .. m -> Nat],
           NEW f \in [1 .. m -> Nat], NEW g \in [1 .. m -> Nat],
           \A k \in 1 .. m : c[k] <= g[k] - f[k],
           \A k \in 1 .. m - 1 : g[k] <= f[k + 1]
    PROVE  /\ SumOf(c) <= g[m] - f[1]
           /\ /\ \A k \in 1 .. m : c[k] = g[k] - f[k]
              /\ \A k \in 1 .. m - 1 : g[k] = f[k + 1]
              => SumOf(c) = g[m] - f[1]
<1>1. PICK p : Partial(c, m, p)
  BY PartialExists
<1>2. /\ p \in [0 .. m -> Nat] /\ p[0] = 0 /\ \A n \in 1 .. m : p[n] = p[n - 1] + c[n]
  BY <1>1 DEF Partial
<1>3. SumOf(c) = p[m]
  BY <1>1, SumIs
<1> DEFINE Exact == /\ \A k \in 1 .. m : c[k] = g[k] - f[k]
                    /\ \A k \in 1 .. m - 1 : g[k] = f[k + 1]
           T == {d \in Nat : d + 1 <= m => /\ p[d + 1] <= g[d + 1] - f[1]
                                           /\ Exact => p[d + 1] = g[d + 1] - f[1]}
<1>4. 0 \in T
  <2>1. 0 + 1 = 1 /\ 1 - 1 = 0 /\ 1 \in 1 .. m
    OBVIOUS
  <2>2. p[1] = 0 + c[1] /\ c[1] \in Nat
    BY <1>2, <2>1
  <2>3. p[1] = c[1]
    BY <2>2
  <2> QED
    BY <2>1, <2>3
<1>5. ASSUME NEW d \in Nat, d \in T PROVE d + 1 \in T
  <2> SUFFICES ASSUME d + 1 + 1 <= m
               PROVE  /\ p[d + 1 + 1] <= g[d + 1 + 1] - f[1]
                      /\ Exact => p[d + 1 + 1] = g[d + 1 + 1] - f[1]
    OBVIOUS
  <2> DEFINE k == d + 1
  <2>1. /\ k \in 1 .. m /\ k \in 1 .. m - 1 /\ k + 1 \in 1 .. m /\ (k + 1) - 1 = k
        /\ k \in 0 .. m /\ 1 \in 1 .. m
    OBVIOUS
  <2>2. p[k] <= g[k] - f[1] /\ (Exact => p[k] = g[k] - f[1])
    BY <1>5, <2>1
  <2> HIDE DEF k
  <2>3. /\ p[k + 1] = p[k] + c[k + 1] /\ p[k] \in Nat /\ c[k + 1] \in Nat
        /\ g[k] \in Nat /\ f[k + 1] \in Nat /\ g[k + 1] \in Nat /\ f[1] \in Nat
        /\ c[k + 1] <= g[k + 1] - f[k + 1] /\ g[k] <= f[k + 1]
    BY <1>2, <2>1
  <2>4. p[k + 1] <= g[k + 1] - f[1]
    <3> DEFINE x == p[k]
               y == c[k + 1]
               u == g[k]
               v == f[k + 1]
               w == g[k + 1]
               z == f[1]
    <3>1. /\ x \in Nat /\ y \in Nat /\ u \in Nat /\ v \in Nat /\ w \in Nat /\ z \in Nat
          /\ x <= u - z /\ y <= w - v /\ u <= v
      BY <2>2, <2>3
    <3> HIDE DEF x, y, u, v, w, z
    <3>2. x + y <= w - z
      BY <3>1
    <3> QED
      BY <2>3, <3>2 DEF x, y, w, z
  <2>5. ASSUME Exact PROVE p[k + 1] = g[k + 1] - f[1]
    <3> DEFINE x == p[k]
               y == c[k + 1]
               u == g[k]
               v == f[k + 1]
               w == g[k + 1]
               z == f[1]
    <3>1. y = w - v /\ u = v /\ x = u - z
      BY <2>1, <2>2, <2>5
    <3>2. /\ x \in Nat /\ y \in Nat /\ u \in Nat /\ v \in Nat /\ w \in Nat /\ z \in Nat
          /\ p[k + 1] = x + y
      BY <2>3
    <3> HIDE DEF x, y, u, v, w, z
    <3>3. x + y = w - z
      BY <3>1, <3>2
    <3> QED
      BY <3>2, <3>3 DEF w, z
  <2> QED
    BY <2>4, <2>5 DEF k
<1> HIDE DEF T
<1>6. m - 1 \in T
  <2>1. m - 1 \in Nat
    OBVIOUS
  <2> QED
    BY <1>4, <1>5, <2>1, SetInduction
<1>7. (m - 1) + 1 = m /\ m <= m
  OBVIOUS
<1> QED
  BY <1>3, <1>6, <1>7 DEF T

-----------------------------------------------------------------------------
(* HistogramWindow.                                                         *)

Entries == [at : Nat, life : Nat, ms : Durations]
Counts == [count : Nat, total : Nat, buckets : [Buckets -> Nat]]
Samples == [at : Nat, counters : Counts, life : Nat, seen : Nat]
Intervals == [at : Nat, count : Nat, total : Nat, buckets : [Buckets -> Nat],
              from : Nat, to : Nat]

(* What is logged is in order of time and of lives.                         *)
LogInv ==
    /\ hLog \in Seq(Entries) /\ hNow \in Nat /\ hLife \in Nat /\ hReset \in 0 .. hNow
    /\ hNow <= MaxTime /\ hExposed \in BOOLEAN
    /\ \A n \in DOMAIN hLog : hLog[n].at <= hNow /\ hLog[n].life <= hLife

(* A sample shows the log as it was: what came before is of no later life.  *)
Sampled(sample) ==
    /\ sample \in Samples /\ sample.at <= hNow /\ sample.life <= hLife /\ sample.seen <= Len(hLog)
    /\ sample.counters = Counters(sample.seen, sample.life)
    /\ \A n \in 1 .. sample.seen : hLog[n].at <= sample.at /\ hLog[n].life <= sample.life
    /\ \A n \in sample.seen + 1 .. Len(hLog) : hLog[n].life >= sample.life

FetchedInv ==
    hFetched # NoSample =>
       /\ Sampled(hFetched) /\ hNow <= hFetched.at + MaxDelay
       /\ \A n \in hFetched.seen + 1 .. Len(hLog) : hLog[n].at >= hFetched.at
       /\ hPrevious # NoSample => /\ hPrevious.seen <= hFetched.seen
                                  /\ hPrevious.life <= hFetched.life

(* update() takes a sample for as late as it comes.                         *)
PreviousInv ==
    IF hPrevious = NoSample THEN hIntervals = << >>
    ELSE /\ Sampled(hPrevious) /\ hReset <= hPrevious.at
         /\ \A n \in hPrevious.seen + 1 .. Len(hLog) : hLog[n].at + MaxDelay >= hPrevious.at

(* How much was logged before the first interval of the window, and the     *)
(* latencies that add up to so far.                                         *)
Before == IF hIntervals = << >> THEN hPrevious.seen ELSE hIntervals[1].from
Latencies(seen) == SumOf([n \in 1 .. seen |-> hLog[n].ms])

(* An interval counts at most what was logged between its samples, and of a *)
(* service that tells its lives apart exactly that.                         *)
Spans(i) ==
    /\ i.count > 0 /\ i.buckets[Infinity] = i.count
    /\ i.from <= i.to /\ i.to <= Len(hLog) /\ i.count <= i.to - i.from
    /\ \A n \in i.from + 1 .. Len(hLog) : hLog[n].at + MaxGap + MaxDelay >= i.at
    /\ \A n \in 1 .. i.to : hLog[n].at <= i.at
    /\ hExposed => i.count = i.to - i.from /\ i.total = Latencies(i.to) - Latencies(i.from)

InWindow(i) ==
    Spans(i) /\ i.to <= hPrevious.seen /\ i.at <= hPrevious.at /\ i.at + Window > hPrevious.at

(* One interval begins behind the other, and of such a service where the    *)
(* other ends.                                                              *)
Ordered(intervals) ==
    \A k \in 1 .. Len(intervals) - 1 :
       /\ intervals[k].at <= intervals[k + 1].at
       /\ intervals[k].to <= intervals[k + 1].from
       /\ hExposed => intervals[k].to = intervals[k + 1].from

IntervalsInv ==
    /\ hIntervals \in Seq(Intervals) /\ Ordered(hIntervals)
    /\ \A k \in 1 .. Len(hIntervals) : InWindow(hIntervals[k])

(* Of such a service nothing is missing but what the window left behind or  *)
(* the last reset.                                                          *)
CompleteInv ==
    hExposed /\ hPrevious # NoSample =>
       /\ hIntervals # << >> => hIntervals[Len(hIntervals)].to = hPrevious.seen
       /\ \A n \in 1 .. Before : hLog[n].at <= hReset \/ hLog[n].at + Window <= hPrevious.at

HistogramInv == LogInv /\ FetchedInv /\ PreviousInv /\ IntervalsInv /\ CompleteInv
-----------------------------------------------------------------------------
(* The 95th percentile.                                                     *)

LEMMA ProductGrows ==
    \A u, v, d \in Nat : v <= d => u * v <= u * d
<1> SUFFICES ASSUME NEW u \in Nat, NEW v \in Nat, NEW d \in Nat, v <= d
             PROVE  u * v <= u * d
  OBVIOUS
<1> DEFINE e == d - v
<1>1. e \in Nat /\ d = v + e
  OBVIOUS
<1> HIDE DEF e
<1>2. u * d = u * v + u * e
  BY <1>1
<1>3. u * e \in Nat /\ u * v \in Nat
  BY <1>1
<1> QED
  BY <1>2, <1>3

(* An interpolation between two bounds lies between them.                   *)
LEMMA Interpolates ==
    ASSUME NEW floor \in Nat, NEW bound \in Nat, floor < bound,
           NEW above \in Nat, NEW before \in Nat, NEW W \in Nat,
           100 * before < 95 * W, 95 * W <= 100 * above
    PROVE  LET population == above - before
               num == 100 * population * floor + (bound - floor) * (95 * W - 100 * before)
               den == 100 * population
           IN  num > den * floor /\ num <= den * bound
<1> DEFINE u == bound - floor
           v == 95 * W - 100 * before
           d == 100 * (above - before)
<1>1. u \in Nat /\ u >= 1 /\ v \in Nat /\ v >= 1 /\ d \in Nat /\ v <= d /\ bound = floor + u
  OBVIOUS
<1>2. 100 * (above - before) * floor = d * floor
  OBVIOUS
<1> HIDE DEF u, v, d
<1>3. u * v <= u * d
  BY <1>1, ProductGrows
<1>4. u * v >= 1
  <2>1. u * 1 <= u * v /\ u * 1 = u
    BY <1>1, ProductGrows
  <2>2. u * v \in Nat
    BY <1>1
  <2> QED
    BY <1>1, <2>1, <2>2
<1>5. d * bound = d * floor + u * d
  BY <1>1
<1>6. d * floor \in Nat /\ u * v \in Nat /\ u * d \in Nat
  BY <1>1
<1>7. d * floor + u * v > d * floor /\ d * floor + u * v <= d * bound
  BY <1>3, <1>4, <1>5, <1>6
<1> QED
  BY <1>2, <1>7 DEF u, v, d

(* histogram_quantile(): some bucket reaches the rank, and the estimate     *)
(* lies in the first that does.                                             *)
LEMMA QuantileInBucket ==
    ASSUME WindowCount \in Nat, WindowCount > 0,
           \A b \in Buckets : WindowBucket(b) \in Nat, WindowBucket(Infinity) = WindowCount
    PROVE  LET q == HistogramQuantile
           IN  q.over \/ (q.num > q.den * q.floor /\ q.num <= q.den * QuantileBound)
<1> DEFINE W == WindowCount
           Q == QuantileBound
           Reaches == {b \in Buckets : 100 * WindowBucket(b) >= 95 * W}
<1>1. Infinity \in Nat /\ Buckets \subseteq Nat \ {0} /\ Infinity \in Buckets
  BY WindowAssumption DEF Buckets
<1>2. Infinity \in Reaches
  <2>1. 100 * W >= 95 * W
    OBVIOUS
  <2> QED
    BY <1>1, <2>1
<1>3. PICK b \in Reaches : \A c \in Reaches : b <= c
  <2>1. Reaches \in SUBSET Nat /\ Reaches # {}
    BY <1>1, <1>2
  <2> QED
    BY <2>1, LeastElement
<1>4. /\ b \in Buckets /\ 100 * WindowBucket(b) >= 95 * W
      /\ \A c \in Buckets : c < b => 100 * WindowBucket(c) < 95 * W
  <2> SUFFICES ASSUME NEW c \in Buckets, c < b PROVE 100 * WindowBucket(c) < 95 * W
    OBVIOUS
  <2>1. c \notin Reaches
    BY <1>1, <1>3
  <2> QED
    BY <2>1
<1>5. /\ Q \in Buckets /\ 100 * WindowBucket(Q) >= 95 * W
      /\ \A c \in Buckets : c < Q => 100 * WindowBucket(c) < 95 * W
  BY <1>4 DEF QuantileBound
<1> DEFINE below == {c \in Buckets : c < Q}
           floor == IF below = {} THEN 0 ELSE CHOOSE c \in below : \A d \in below : d <= c
           before == IF below = {} THEN 0 ELSE WindowBucket(floor)
<1>6. floor \in Nat /\ floor < Q /\ before \in Nat /\ 100 * before < 95 * W
  <2>1. CASE below = {}
    BY <1>1, <1>5, <2>1
  <2>2. CASE below # {}
    <3> HIDE DEF Q
    <3> DEFINE short == {Q - c : c \in below}
    <3>1. Q \in Nat /\ below \subseteq Nat
      BY <1>1, <1>5
    <3>2. short \in SUBSET Nat /\ short # {}
      BY <2>2, <3>1
    <3>3. PICK d \in short : \A k \in short : d <= k
      BY <3>2, LeastElement
    <3>4. PICK c \in below : d = Q - c
      BY <3>3
    <3>5. ASSUME NEW k \in below PROVE k <= c
      <4>1. Q - k \in short
        OBVIOUS
      <4>2. d <= Q - k
        BY <3>3, <4>1
      <4>3. k \in Nat /\ c \in Nat /\ Q - c <= Q - k
        BY <3>1, <3>4, <4>2
      <4> QED
        BY <3>1, <4>3
    <3>6. floor \in below
      <4> HIDE DEF below
      <4> QED
        BY <2>2, <3>4, <3>5
    <3> QED
      BY <1>5, <2>2, <3>1, <3>6
  <2> QED
    BY <2>1, <2>2
<1> DEFINE population == WindowBucket(Q) - before
           num == 100 * population * floor + (Q - floor) * (95 * W - 100 * before)
           den == 100 * population
<1>7. HistogramQuantile = [over |-> Q = Infinity, floor |-> floor, num |-> num, den |-> den]
  BY DEF HistogramQuantile
<1>8. Q \in Nat /\ WindowBucket(Q) \in Nat
  BY <1>1, <1>5
<1> HIDE DEF Q, W, floor, before
<1>9. num > den * floor /\ num <= den * Q
  <2> DEFINE above == WindowBucket(Q)
  <2>1. above \in Nat /\ W \in Nat /\ 95 * W <= 100 * above
    BY <1>5, <1>8 DEF W
  <2> HIDE DEF above
  <2>2. LET p == above - before
            x == 100 * p * floor + (Q - floor) * (95 * W - 100 * before)
            y == 100 * p
        IN  x > y * floor /\ x <= y * Q
    BY <1>6, <1>8, <2>1, Interpolates
  <2> QED
    BY <2>2 DEF above
<1> QED
  BY <1>7, <1>9 DEF Q

-----------------------------------------------------------------------------
(* The counters of a life.                                                  *)

Ones(l) == [n \in 1 .. Len(hLog) |-> IF hLog[n].life = l THEN 1 ELSE 0]
Times(l) == [n \in 1 .. Len(hLog) |-> IF hLog[n].life = l THEN hLog[n].ms ELSE 0]
Unders(l, b) ==
    [n \in 1 .. Len(hLog) |-> IF hLog[n].life = l THEN IF hLog[n].ms <= b THEN 1 ELSE 0 ELSE 0]
All == [n \in 1 .. Len(hLog) |-> hLog[n].ms]

LEMMA Logged ==
    ASSUME LogInv
    PROVE  /\ Len(hLog) \in Nat /\ DOMAIN hLog = 1 .. Len(hLog)
           /\ \A n \in 1 .. Len(hLog) :
                 /\ hLog[n].at \in Nat /\ hLog[n].life \in Nat
                 /\ hLog[n].ms \in Nat /\ hLog[n].ms \in Durations
                 /\ hLog[n].ms >= 1 /\ hLog[n].ms <= Infinity
           /\ Infinity \in Nat
<1>1. hLog \in Seq(Entries)
  BY DEF LogInv
<1>2. Len(hLog) \in Nat /\ DOMAIN hLog = 1 .. Len(hLog)
  BY <1>1, LenProperties
<1>3. \A n \in 1 .. Len(hLog) : hLog[n] \in Entries
  BY <1>1, ElementOfSeq
<1>4. Infinity \in Nat /\ \A d \in Durations : d \in Nat /\ d >= 1 /\ d <= Infinity
  BY WindowAssumption
<1> QED
  BY <1>2, <1>3, <1>4 DEF Entries

LEMMA CountersAre ==
    ASSUME LogInv, NEW k \in 0 .. Len(hLog), NEW l
    PROVE  /\ DOMAIN Counters(k, l) = {"count", "total", "buckets"}
           /\ Counters(k, l) = [count |-> Counters(k, l).count, total |-> Counters(k, l).total,
                                buckets |-> Counters(k, l).buckets]
           /\ Counters(k, l).count = SumOf([n \in 1 .. k |-> Ones(l)[n]])
           /\ Counters(k, l).total = SumOf([n \in 1 .. k |-> Times(l)[n]])
           /\ Counters(k, l).buckets = [b \in Buckets |-> SumOf([n \in 1 .. k |-> Unders(l, b)[n]])]
           /\ Latencies(k) = SumOf([n \in 1 .. k |-> All[n]])
<1>1. \A n \in 1 .. k : n \in 1 .. Len(hLog)
  BY Logged
<1>2. Counters(k, l).count = SumOf([n \in 1 .. k |-> Ones(l)[n]])
  <2>1. [n \in 1 .. k |-> Ones(l)[n]] = [n \in 1 .. k |-> IF hLog[n].life = l THEN 1 ELSE 0]
    BY <1>1 DEF Ones
  <2> QED
    BY <2>1 DEF Counters
<1>3. Counters(k, l).total = SumOf([n \in 1 .. k |-> Times(l)[n]])
  <2>1. [n \in 1 .. k |-> Times(l)[n]]
        = [n \in 1 .. k |-> IF hLog[n].life = l THEN hLog[n].ms ELSE 0]
    BY <1>1 DEF Times
  <2> QED
    BY <2>1 DEF Counters
<1>4. Counters(k, l).buckets = [b \in Buckets |-> SumOf([n \in 1 .. k |-> Unders(l, b)[n]])]
  <2>1. ASSUME NEW b \in Buckets
        PROVE  [n \in 1 .. k |-> Unders(l, b)[n]]
               = [n \in 1 .. k |-> IF hLog[n].life = l
                                   THEN IF hLog[n].ms <= b THEN 1 ELSE 0 ELSE 0]
    BY <1>1 DEF Unders
  <2>2. Counters(k, l).buckets
        = [b \in Buckets |-> SumOf([n \in 1 .. k |-> IF hLog[n].life = l
                                       THEN IF hLog[n].ms <= b THEN 1 ELSE 0 ELSE 0])]
    BY DEF Counters
  <2> QED
    BY <2>1, <2>2
<1>5. Latencies(k) = SumOf([n \in 1 .. k |-> All[n]])
  <2>1. [n \in 1 .. k |-> All[n]] = [n \in 1 .. k |-> hLog[n].ms]
    BY <1>1 DEF All
  <2> QED
    BY <2>1 DEF Latencies
<1>6. /\ DOMAIN Counters(k, l) = {"count", "total", "buckets"}
      /\ Counters(k, l) = [count |-> Counters(k, l).count, total |-> Counters(k, l).total,
                           buckets |-> Counters(k, l).buckets]
  BY DEF Counters
<1> QED
  BY <1>2, <1>3, <1>4, <1>5, <1>6

LEMMA WeightsTyped ==
    ASSUME LogInv, NEW l
    PROVE  /\ Ones(l) \in [1 .. Len(hLog) -> Nat] /\ Times(l) \in [1 .. Len(hLog) -> Nat]
           /\ All \in [1 .. Len(hLog) -> Nat]
           /\ \A b : Unders(l, b) \in [1 .. Len(hLog) -> Nat]
           /\ Unders(l, Infinity) = Ones(l)
<1>1. Ones(l) \in [1 .. Len(hLog) -> Nat]
  BY DEF Ones
<1>2. Times(l) \in [1 .. Len(hLog) -> Nat]
  BY Logged DEF Times
<1>3. All \in [1 .. Len(hLog) -> Nat]
  BY Logged DEF All
<1>4. \A b : Unders(l, b) \in [1 .. Len(hLog) -> Nat]
  BY DEF Unders
<1>5. Unders(l, Infinity) = Ones(l)
  <2>1. \A n \in 1 .. Len(hLog) : hLog[n].ms <= Infinity
    BY Logged
  <2> QED
    BY <2>1 DEF Ones, Unders
<1> QED
  BY <1>1, <1>2, <1>3, <1>4, <1>5

(* What an answer to /metrics is.                                           *)
LEMMA CountersTyped ==
    ASSUME LogInv, NEW k \in 0 .. Len(hLog), NEW l
    PROVE  /\ Counters(k, l) \in Counts
           /\ Counters(k, l).buckets[Infinity] = Counters(k, l).count
           /\ Latencies(k) \in Nat
<1> DEFINE N == Len(hLog)
<1>1. N \in Nat /\ k \in k .. N /\ k \in Nat
  BY Logged
<1>2. Counters(k, l).count \in Nat
  <2>1. SumOf([n \in 1 .. k |-> Ones(l)[n]]) \in Nat
    BY <1>1, WeightsTyped, SumBetween
  <2> QED
    BY <2>1, CountersAre
<1>3. Counters(k, l).total \in Nat
  <2>1. SumOf([n \in 1 .. k |-> Times(l)[n]]) \in Nat
    BY <1>1, WeightsTyped, SumBetween
  <2> QED
    BY <2>1, CountersAre
<1>4. Latencies(k) \in Nat
  <2>1. SumOf([n \in 1 .. k |-> All[n]]) \in Nat
    BY <1>1, WeightsTyped, SumBetween
  <2> QED
    BY <2>1, CountersAre
<1>5. Counters(k, l).buckets \in [Buckets -> Nat]
  <2> DEFINE h(b) == SumOf([n \in 1 .. k |-> Unders(l, b)[n]])
  <2>1. ASSUME NEW b \in Buckets PROVE h(b) \in Nat
    BY <1>1, WeightsTyped, SumBetween
  <2>2. Counters(k, l).buckets = [b \in Buckets |-> h(b)]
    BY CountersAre
  <2> HIDE DEF h
  <2> QED
    BY <2>1, <2>2
<1>6. Counters(k, l).buckets[Infinity] = Counters(k, l).count
  <2> DEFINE h(b) == SumOf([n \in 1 .. k |-> Unders(l, b)[n]])
  <2>1. Infinity \in Buckets
    BY DEF Buckets
  <2>2. Counters(k, l).buckets = [b \in Buckets |-> h(b)]
    BY CountersAre
  <2>3. h(Infinity) = Counters(k, l).count
    <3>1. Unders(l, Infinity) = Ones(l)
      BY WeightsTyped
    <3>2. [n \in 1 .. k |-> Unders(l, Infinity)[n]] = [n \in 1 .. k |-> Ones(l)[n]]
      BY <3>1
    <3>3. Counters(k, l).count = SumOf([n \in 1 .. k |-> Ones(l)[n]])
      BY CountersAre
    <3> QED
      BY <3>2, <3>3
  <2> HIDE DEF h
  <2> QED
    BY <2>1, <2>2, <2>3
<1>7. Counters(k, l) = [count |-> Counters(k, l).count, total |-> Counters(k, l).total,
                        buckets |-> Counters(k, l).buckets]
  BY CountersAre
<1> QED
  BY <1>2, <1>3, <1>4, <1>5, <1>6, <1>7 DEF Counts

(* What they grow by, at most, and within one life.                         *)
LEMMA CountersGrow ==
    ASSUME LogInv, NEW a \in 0 .. Len(hLog), NEW b \in a .. Len(hLog), NEW l
    PROVE  /\ Counters(b, l).count - Counters(a, l).count <= b - a
           /\ (\A n \in a + 1 .. b : hLog[n].life = l) =>
                 /\ Counters(b, l).count - Counters(a, l).count = b - a
                 /\ Counters(b, l).total - Counters(a, l).total = Latencies(b) - Latencies(a)
           /\ (\A n \in 1 .. a : hLog[n].life # l) => Counters(b, l).count <= b - a
<1> DEFINE N == Len(hLog)
           A == Counters(a, l).count
           B == Counters(b, l).count
<1>1. /\ N \in Nat /\ a \in 0 .. N /\ b \in a .. N /\ b \in 0 .. N /\ a \in Nat /\ b \in Nat
      /\ b - a \in Nat
  BY Logged
<1>2. /\ A \in Nat /\ B \in Nat
      /\ A = SumOf([n \in 1 .. a |-> Ones(l)[n]]) /\ B = SumOf([n \in 1 .. b |-> Ones(l)[n]])
  <2>1. A \in Nat /\ B \in Nat
    BY <1>1, CountersTyped DEF Counts
  <2> QED
    BY <1>1, <2>1, CountersAre
<1>3. \A n \in 1 .. N : Ones(l)[n] = IF hLog[n].life = l THEN 1 ELSE 0
  BY DEF Ones
<1>4. B - A <= b - a
  <2>1. \A n \in a + 1 .. b : Ones(l)[n] <= 1
    BY <1>1, <1>3
  <2>2. B - A <= (b - a) * 1
    <3> HIDE DEF A, B, N
    <3> QED
      BY <1>1, <1>2, <2>1, WeightsTyped, SumBetween DEF N
  <2> QED
    BY <1>1, <2>2
<1>5. ASSUME \A n \in a + 1 .. b : hLog[n].life = l PROVE B - A = b - a
  <2>1. \A n \in a + 1 .. b : 1 <= Ones(l)[n]
    BY <1>1, <1>3, <1>5
  <2>2. (b - a) * 1 <= B - A
    <3> HIDE DEF A, B, N
    <3> QED
      BY <1>1, <1>2, <2>1, WeightsTyped, SumBetween DEF N
  <2> HIDE DEF A, B
  <2> QED
    BY <1>1, <1>2, <1>4, <2>2
<1>6. ASSUME \A n \in a + 1 .. b : hLog[n].life = l
      PROVE  Counters(b, l).total - Counters(a, l).total = Latencies(b) - Latencies(a)
  <2>1. \A n \in a + 1 .. b : Times(l)[n] = All[n]
    BY <1>1, <1>6 DEF Times, All
  <2>2. SumOf([n \in 1 .. b |-> Times(l)[n]]) - SumOf([n \in 1 .. a |-> Times(l)[n]])
        = SumOf([n \in 1 .. b |-> All[n]]) - SumOf([n \in 1 .. a |-> All[n]])
    <3> DEFINE s == Times(l)
               t == All
    <3>1. s \in [1 .. N -> Nat] /\ t \in [1 .. N -> Nat]
      BY WeightsTyped
    <3>2. \A n \in a + 1 .. b : s[n] = t[n]
      BY <2>1
    <3> HIDE DEF N, A, B, s, t
    <3>3. SumTo(s, b) - SumTo(s, a) = SumTo(t, b) - SumTo(t, a)
      BY <1>1, <3>1, <3>2, SumSame
    <3> QED
      BY <3>3 DEF s, t, SumTo
  <2> QED
    BY <1>1, <2>2, CountersAre
<1>7. ASSUME \A n \in 1 .. a : hLog[n].life # l PROVE B <= b - a
  <2>1. \A n \in 0 + 1 .. a : Ones(l)[n] <= 0
    BY <1>1, <1>3, <1>7
  <2>2. /\ SumOf([n \in 1 .. 0 |-> Ones(l)[n]]) = 0
    <3>1. [n \in 1 .. 0 |-> Ones(l)[n]] \in [1 .. 0 -> Nat]
      OBVIOUS
    <3> QED
      BY <3>1, SumNat
  <2>3. A - 0 <= (a - 0) * 0
    <3>1. 0 \in 0 .. N /\ a \in 0 .. N
      BY <1>1
    <3>2. A - SumOf([n \in 1 .. 0 |-> Ones(l)[n]]) <= (a - 0) * 0
      <4> HIDE DEF A, B, N
      <4> QED
        BY <1>1, <1>2, <2>1, <3>1, WeightsTyped, SumBetween DEF N
    <3> QED
      BY <2>2, <3>2
  <2> HIDE DEF A, B
  <2>4. A <= 0
    BY <1>1, <1>2, <2>3
  <2> QED
    BY <1>1, <1>2, <1>4, <2>4
<1> QED
  BY <1>4, <1>5, <1>6, <1>7

-----------------------------------------------------------------------------
(* What a list of intervals keeps.                                          *)

(* The end of a list.                                                       *)
LEMMA SliceEnd ==
    ASSUME NEW S, NEW text \in Seq(S), NEW j \in 0 .. Len(text)
    PROVE  /\ Slice(text, j, Len(text)) \in Seq(S)
           /\ Len(Slice(text, j, Len(text))) = Len(text) - j
           /\ \A k \in 1 .. Len(text) - j : Slice(text, j, Len(text))[k] = text[j + k]
<1>1. Len(text) \in Nat /\ j \in Nat /\ j <= Len(text) /\ Len(text) <= Len(text)
  BY LenProperties
<1> QED
  BY <1>1, SliceParts

(* In a list in order of time, what is newer than a cutoff is its end.      *)
LEMMA NewerIsSlice ==
    ASSUME NEW S, NEW s \in Seq(S), NEW cutoff \in Int,
           \A k \in 1 .. Len(s) : s[k].at \in Nat,
           \A k, l \in 1 .. Len(s) : k <= l => s[k].at <= s[l].at
    PROVE  \E j \in 0 .. Len(s) :
              /\ Newer(s, cutoff) = Slice(s, j, Len(s))
              /\ \A k \in 1 .. j : s[k].at <= cutoff
              /\ \A k \in j + 1 .. Len(s) : s[k].at > cutoff
<1> DEFINE m == Len(s)
<1>1. m \in Nat
  BY LenProperties
<1> DEFINE Cuts == {k \in 0 .. m : \A i \in k + 1 .. m : s[i].at > cutoff}
<1>2. PICK j \in Cuts : \A k \in Cuts : j <= k
  <2>1. m \in Cuts
    BY <1>1
  <2>2. Cuts \in SUBSET Nat
    OBVIOUS
  <2> HIDE DEF Cuts
  <2> QED
    BY <2>1, <2>2, LeastElement
<1>3. j \in 0 .. m /\ \A i \in j + 1 .. m : s[i].at > cutoff
  OBVIOUS
<1>4. ASSUME NEW k \in 1 .. j PROVE s[k].at <= cutoff
  <2>1. j \in 1 .. m /\ k \in 1 .. m /\ k <= j /\ s[j].at \in Nat /\ s[k].at \in Nat
    BY <1>1, <1>3
  <2>2. s[k].at <= s[j].at
    BY <2>1
  <2>3. ~(s[j].at > cutoff)
    <3> SUFFICES ASSUME s[j].at > cutoff PROVE FALSE
      OBVIOUS
    <3>1. \A i \in (j - 1) + 1 .. m : i = j \/ i \in j + 1 .. m
      BY <1>1, <2>1
    <3>2. j - 1 \in Cuts
      BY <1>1, <1>3, <2>1, <3>1
    <3>3. j <= j - 1
      <4> HIDE DEF Cuts
      <4> QED
        BY <1>2, <3>2
    <3> QED
      BY <2>1, <3>3
  <2> QED
    BY <2>1, <2>2, <2>3
<1> HIDE DEF Cuts
<1> DEFINE low(n) == IF n <= j THEN n ELSE j
           w == [n \in 0 .. m |-> Slice(s, low(n), n)]
           Filters(g) == g = [n \in 0 .. m |-> IF n = 0 THEN << >>
                                ELSE IF s[n].at > cutoff THEN Append(g[n - 1], s[n])
                                ELSE g[n - 1]]
           f == CHOOSE g : Filters(g)
<1>5. w[0] = << >>
  <2>1. Slice(s, 0, 0) = << >>
    BY <1>1, EmptySlice
  <2> QED
    BY <1>1, <1>3, <2>1
<1>6. ASSUME NEW n \in 1 .. m
      PROVE  w[n] = IF s[n].at > cutoff THEN Append(w[n - 1], s[n]) ELSE w[n - 1]
  <2>1. n \in 0 .. m /\ n - 1 \in 0 .. m /\ n \in Nat /\ n - 1 \in Nat /\ (n - 1) + 1 = n
    BY <1>1
  <2>2. CASE n <= j
    <3>1. w[n] = Slice(s, n, n) /\ w[n - 1] = Slice(s, n - 1, n - 1)
      BY <1>3, <2>1, <2>2
    <3>2. Slice(s, n, n) = << >> /\ Slice(s, n - 1, n - 1) = << >>
      <4>1. n <= m /\ n - 1 <= m
        BY <1>1, <2>1
      <4>2. Slice(s, n, n) = << >>
        BY <2>1, <4>1, EmptySlice
      <4> DEFINE k == n - 1
      <4>3. k \in Nat /\ k <= m
        BY <2>1, <4>1
      <4> HIDE DEF k
      <4>4. Slice(s, k, k) = << >>
        BY <4>3, EmptySlice
      <4> QED
        BY <4>2, <4>4 DEF k
    <3>3. ~(s[n].at > cutoff)
      <4>1. n \in 1 .. j
        BY <1>3, <2>2
      <4>2. s[n].at <= cutoff /\ s[n].at \in Nat
        BY <1>4, <4>1
      <4> QED
        BY <4>2
    <3> HIDE DEF w
    <3> QED
      BY <3>1, <3>2, <3>3
  <2>3. CASE ~(n <= j)
    <3>1. j \in Nat /\ j <= n - 1 /\ n - 1 < m
      BY <1>1, <1>3, <2>3
    <3>2. w[n] = Slice(s, j, n)
      BY <2>1, <2>3
    <3>3. w[n - 1] = Slice(s, j, n - 1)
      <4>1. low(n - 1) = j
        BY <3>1
      <4> QED
        BY <2>1, <4>1
    <3>4. Append(Slice(s, j, n - 1), s[(n - 1) + 1]) = Slice(s, j, (n - 1) + 1)
      <4> DEFINE k == n - 1
      <4>1. k \in Nat /\ j <= k /\ k < Len(s)
        BY <2>1, <3>1
      <4> HIDE DEF k, m
      <4>2. Append(Slice(s, j, k), s[k + 1]) = Slice(s, j, k + 1)
        BY <3>1, <4>1, SliceAppend
      <4> QED
        BY <4>2 DEF k
    <3>5. s[n].at > cutoff
      BY <1>1, <1>3, <2>3
    <3> HIDE DEF w
    <3> QED
      BY <2>1, <3>2, <3>3, <3>4, <3>5
  <2> QED
    BY <2>2, <2>3
<1>7. w[m] = Slice(s, j, m)
  BY <1>1, <1>3
<1>8. DOMAIN w = 0 .. m /\ w = [n \in DOMAIN w |-> w[n]]
  OBVIOUS
<1> HIDE DEF w
<1>9. Filters(w)
  <2> DEFINE q == [n \in 0 .. m |-> IF n = 0 THEN << >>
                      ELSE IF s[n].at > cutoff THEN Append(w[n - 1], s[n])
                      ELSE w[n - 1]]
  <2>1. ASSUME NEW n \in 0 .. m PROVE w[n] = q[n]
    <3>1. CASE n = 0
      BY <1>5, <3>1
    <3>2. CASE n # 0
      <4>1. n \in 1 .. m
        BY <3>2
      <4> QED
        BY <1>6, <3>2, <4>1
    <3> QED
      BY <3>1, <3>2
  <2>2. DOMAIN q = 0 .. m /\ q = [n \in DOMAIN q |-> q[n]]
    OBVIOUS
  <2> HIDE DEF q
  <2>3. w = q
    BY <1>8, <2>1, <2>2
  <2> QED
    BY <2>3 DEF q
<1>10. Filters(f)
  BY <1>9
<1>11. Newer(s, cutoff) = f[m]
  BY DEF Newer
<1>12. /\ f[0] = << >>
       /\ \A n \in 1 .. m : f[n] = IF s[n].at > cutoff THEN Append(f[n - 1], s[n]) ELSE f[n - 1]
  <2>1. \A n \in 0 .. m : f[n] = IF n = 0 THEN << >>
                                 ELSE IF s[n].at > cutoff THEN Append(f[n - 1], s[n])
                                 ELSE f[n - 1]
    <3> HIDE DEF f
    <3> QED
      BY <1>10
  <2>2. 0 \in 0 .. m /\ \A n \in 1 .. m : n \in 0 .. m /\ n # 0
    BY <1>1
  <2> HIDE DEF f
  <2> QED
    BY <2>1, <2>2
<1> HIDE DEF f, Filters, m
<1> DEFINE T == {n \in Nat : n <= m => f[n] = w[n]}
<1>13. 0 \in T
  BY <1>5, <1>12
<1>14. ASSUME NEW n \in Nat, n \in T PROVE n + 1 \in T
  <2> SUFFICES ASSUME n + 1 <= m PROVE f[n + 1] = w[n + 1]
    OBVIOUS
  <2>1. n + 1 \in 1 .. m /\ n <= m /\ (n + 1) - 1 = n
    BY <1>1
  <2> QED
    BY <1>6, <1>12, <1>14, <2>1
<1> HIDE DEF T
<1>15. m \in T
  BY <1>1, <1>13, <1>14, SetInduction
<1>16. Newer(s, cutoff) = Slice(s, j, m)
  BY <1>1, <1>7, <1>11, <1>15 DEF T
<1> QED
  BY <1>3, <1>4, <1>16 DEF m

(* Times that never fall from one interval to the next are in order.        *)
LEMMA InOrder ==
    ASSUME NEW S, NEW s \in Seq(S), \A k \in 1 .. Len(s) : s[k].at \in Nat,
           \A k \in 1 .. Len(s) - 1 : s[k].at <= s[k + 1].at
    PROVE  \A k, l \in 1 .. Len(s) : k <= l => s[k].at <= s[l].at
<1>1. Len(s) \in Nat
  BY LenProperties
<1> SUFFICES ASSUME NEW k \in 1 .. Len(s)
             PROVE  \A l \in 1 .. Len(s) : k <= l => s[k].at <= s[l].at
  OBVIOUS
<1> DEFINE T == {d \in Nat : k + d <= Len(s) => s[k].at <= s[k + d].at}
<1>2. 0 \in T
  <2>1. k + 0 = k
    OBVIOUS
  <2>2. s[k].at \in Nat
    OBVIOUS
  <2> QED
    BY <2>1, <2>2
<1>3. ASSUME NEW d \in Nat, d \in T PROVE d + 1 \in T
  <2> SUFFICES ASSUME k + (d + 1) <= Len(s) PROVE s[k].at <= s[k + (d + 1)].at
    OBVIOUS
  <2> DEFINE e == k + d
  <2>1. e \in 1 .. Len(s) /\ e \in 1 .. Len(s) - 1 /\ e + 1 \in 1 .. Len(s)
        /\ k + (d + 1) = e + 1 /\ k + d <= Len(s)
    BY <1>1
  <2>2. s[k].at <= s[e].at
    BY <1>3, <2>1
  <2> HIDE DEF e
  <2>3. s[e].at <= s[e + 1].at /\ s[k].at \in Nat /\ s[e].at \in Nat /\ s[e + 1].at \in Nat
    BY <2>1
  <2>4. s[k].at <= s[e + 1].at
    <3> DEFINE x == s[k].at
               y == s[e].at
               z == s[e + 1].at
    <3>1. x \in Nat /\ y \in Nat /\ z \in Nat /\ x <= y /\ y <= z
      BY <2>2, <2>3
    <3> HIDE DEF x, y, z
    <3>2. x <= z
      BY <3>1
    <3> QED
      BY <3>2 DEF x, z
  <2>5. k + (d + 1) = e + 1
    BY <2>1
  <2> QED
    BY <2>4, <2>5, Zenon
<1> HIDE DEF T
<1>4. ASSUME NEW l \in 1 .. Len(s), k <= l PROVE s[k].at <= s[l].at
  <2>1. l - k \in Nat /\ k + (l - k) = l /\ l <= Len(s)
    BY <1>4
  <2>2. l - k \in T
    BY <1>2, <1>3, <2>1, SetInduction
  <2> QED
    BY <2>1, <2>2 DEF T
<1> QED
  BY <1>4

-----------------------------------------------------------------------------
(* The steps.                                                               *)

(* What was counted stays counted.                                          *)
LEMMA CountersKept ==
    ASSUME NEW k \in Nat, \A n \in 1 .. k : hLog'[n] = hLog[n]
    PROVE  /\ \A l : Counters(k, l)' = Counters(k, l)
           /\ Latencies(k)' = Latencies(k)
<1>1. ASSUME NEW l PROVE Counters(k, l)' = Counters(k, l)
  <2>1. [n \in 1 .. k |-> IF hLog'[n].life = l THEN 1 ELSE 0]
        = [n \in 1 .. k |-> IF hLog[n].life = l THEN 1 ELSE 0]
    OBVIOUS
  <2>2. [n \in 1 .. k |-> IF hLog'[n].life = l THEN hLog'[n].ms ELSE 0]
        = [n \in 1 .. k |-> IF hLog[n].life = l THEN hLog[n].ms ELSE 0]
    OBVIOUS
  <2>3. ASSUME NEW b \in Buckets
        PROVE  [n \in 1 .. k |-> IF hLog'[n].life = l
                                 THEN IF hLog'[n].ms <= b THEN 1 ELSE 0 ELSE 0]
               = [n \in 1 .. k |-> IF hLog[n].life = l
                                   THEN IF hLog[n].ms <= b THEN 1 ELSE 0 ELSE 0]
    OBVIOUS
  <2>4. [b \in Buckets |-> SumOf([n \in 1 .. k |-> IF hLog'[n].life = l
                                   THEN IF hLog'[n].ms <= b THEN 1 ELSE 0 ELSE 0])]
        = [b \in Buckets |-> SumOf([n \in 1 .. k |-> IF hLog[n].life = l
                                   THEN IF hLog[n].ms <= b THEN 1 ELSE 0 ELSE 0])]
    BY <2>3
  <2> QED
    BY <2>1, <2>2, <2>4 DEF Counters
<1>2. Latencies(k)' = Latencies(k)
  <2>1. [n \in 1 .. k |-> hLog'[n].ms] = [n \in 1 .. k |-> hLog[n].ms]
    OBVIOUS
  <2> QED
    BY <2>1 DEF Latencies
<1> QED
  BY <1>1, <1>2

(* A sample has a time, which NoSample has not.                             *)
LEMMA SamplesAreSome == NoSample \notin Samples
<1>1. DOMAIN NoSample = {"none"}
  BY DEF NoSample
<1>2. \A s \in Samples : DOMAIN s = {"at", "counters", "life", "seen"}
  BY DEF Samples
<1>3. "at" # "none"
  OBVIOUS
<1> QED
  BY <1>1, <1>2, <1>3

LEMMA HistogramInitInv == HistogramInit => HistogramInv
<1> SUFFICES ASSUME HistogramInit PROVE HistogramInv
  OBVIOUS
<1>1. /\ hNow = 0 /\ hLog = << >> /\ hLife = 0 /\ hExposed \in BOOLEAN /\ hFetched = NoSample
      /\ hPrevious = NoSample /\ hIntervals = << >> /\ hReset = 0
  BY DEF HistogramInit
<1>2. << >> \in Seq(Entries) /\ << >> \in Seq(Intervals) /\ Len(<< >>) = 0 /\ DOMAIN << >> = {}
  OBVIOUS
<1>3. LogInv
  BY <1>1, <1>2, WindowAssumption DEF LogInv
<1>4. FetchedInv /\ PreviousInv /\ CompleteInv
  BY <1>1 DEF FetchedInv, PreviousInv, CompleteInv
<1>5. IntervalsInv
  BY <1>1, <1>2 DEF IntervalsInv, Ordered
<1> QED
  BY <1>3, <1>4, <1>5 DEF HistogramInv

(* Observations, restarts and time add to the log at its end, later than    *)
(* what is there; the samples and the intervals stay what they were.        *)
LEMMA LaterKeeps ==
    ASSUME HistogramInv, LogInv',
           Len(hLog) <= Len(hLog'), \A n \in 1 .. Len(hLog) : hLog'[n] = hLog[n],
           \A n \in Len(hLog) + 1 .. Len(hLog') : hLog'[n].at = hNow /\ hLog'[n].life = hLife,
           hNow <= hNow', hLife <= hLife', hFetched # NoSample => hNow' <= hFetched.at + MaxDelay,
           UNCHANGED <<hExposed, hFetched, hPrevious, hIntervals, hReset>>
    PROVE  HistogramInv'
<1> USE WindowAssumption
<1>1. /\ LogInv /\ FetchedInv /\ PreviousInv /\ IntervalsInv /\ CompleteInv
      /\ Len(hLog) \in Nat /\ Len(hLog') \in Nat /\ hNow \in Nat /\ hLife \in Nat /\ hNow' \in Nat
      /\ hLife' \in Nat
  <2>1. hLog \in Seq(Entries) /\ hLog' \in Seq(Entries)
    BY DEF HistogramInv, LogInv
  <2>2. Len(hLog) \in Nat /\ Len(hLog') \in Nat
    BY <2>1, LenProperties
  <2> QED
    BY <2>2 DEF HistogramInv, LogInv
<1>2. \A n \in 1 .. Len(hLog') : hLog'[n].at \in Nat /\ hLog'[n].life \in Nat
  <2>1. hLog' \in Seq(Entries)
    BY DEF LogInv
  <2>2. \A n \in 1 .. Len(hLog') : hLog'[n] \in Entries
    BY <2>1, ElementOfSeq
  <2> QED
    BY <2>2 DEF Entries
<1>3. ASSUME NEW k \in Nat, k <= Len(hLog)
      PROVE  /\ \A l : Counters(k, l)' = Counters(k, l)
             /\ Latencies(k)' = Latencies(k)
  <2>1. \A n \in 1 .. k : hLog'[n] = hLog[n]
    BY <1>1, <1>3
  <2> QED
    BY <1>3, <2>1, CountersKept
<1>4. ASSUME NEW s, Sampled(s)
      PROVE  /\ s \in Samples /\ s.at <= hNow' /\ s.life <= hLife' /\ s.seen <= Len(hLog')
             /\ s.counters = Counters(s.seen, s.life)'
             /\ \A n \in 1 .. s.seen : hLog'[n].at <= s.at /\ hLog'[n].life <= s.life
             /\ \A n \in s.seen + 1 .. Len(hLog') : hLog'[n].life >= s.life
  <2>1. /\ s \in Samples /\ s.at <= hNow /\ s.life <= hLife /\ s.seen <= Len(hLog)
        /\ s.counters = Counters(s.seen, s.life)
        /\ \A n \in 1 .. s.seen : hLog[n].at <= s.at /\ hLog[n].life <= s.life
        /\ \A n \in s.seen + 1 .. Len(hLog) : hLog[n].life >= s.life
    BY <1>4 DEF Sampled
  <2>2. s.at \in Nat /\ s.life \in Nat /\ s.seen \in Nat
    BY <2>1 DEF Samples
  <2> DEFINE c == s.seen
             l == s.life
             a == s.at
  <2>3. /\ c \in Nat /\ l \in Nat /\ a \in Nat /\ a <= hNow /\ l <= hLife /\ c <= Len(hLog)
        /\ s.counters = Counters(c, l)
        /\ \A n \in 1 .. c : hLog[n].at <= a /\ hLog[n].life <= l
        /\ \A n \in c + 1 .. Len(hLog) : hLog[n].life >= l
    BY <2>1, <2>2
  <2> HIDE DEF c, l, a
  <2>4. s.counters = Counters(c, l)'
    BY <1>3, <2>3
  <2>5. \A n \in 1 .. c : hLog'[n].at <= a /\ hLog'[n].life <= l
    <3>1. \A n \in 1 .. c : n \in 1 .. Len(hLog)
      BY <1>1, <2>3
    <3>2. \A n \in 1 .. c : hLog'[n] = hLog[n]
      BY <3>1
    <3> QED
      BY <2>3, <3>2
  <2>6. ASSUME NEW n \in c + 1 .. Len(hLog') PROVE hLog'[n].life >= l
    <3>1. CASE n <= Len(hLog)
      <4>1. n \in c + 1 .. Len(hLog) /\ n \in 1 .. Len(hLog)
        BY <1>1, <2>3, <3>1
      <4> QED
        BY <2>3, <4>1
    <3>2. CASE ~(n <= Len(hLog))
      <4>1. n \in Len(hLog) + 1 .. Len(hLog')
        BY <1>1, <2>3, <3>2
      <4> QED
        BY <1>1, <2>3, <4>1
    <3> QED
      BY <3>1, <3>2
  <2>7. a <= hNow' /\ l <= hLife' /\ c <= Len(hLog')
    BY <1>1, <2>3
  <2> QED
    BY <2>1, <2>4, <2>5, <2>6, <2>7 DEF a, l, c
<1>5. ASSUME NEW c \in Nat, NEW t \in Nat, t <= hNow, NEW d \in Nat,
             \A n \in c + 1 .. Len(hLog) : hLog[n].at + d >= t
      PROVE  \A n \in c + 1 .. Len(hLog') : hLog'[n].at + d >= t
  <2> SUFFICES ASSUME NEW n \in c + 1 .. Len(hLog') PROVE hLog'[n].at + d >= t
    OBVIOUS
  <2>1. CASE n <= Len(hLog)
    <3>1. n \in c + 1 .. Len(hLog) /\ n \in 1 .. Len(hLog)
      BY <1>1, <2>1
    <3> QED
      BY <1>5, <3>1
  <2>2. CASE ~(n <= Len(hLog))
    <3>1. n \in Len(hLog) + 1 .. Len(hLog')
      BY <1>1, <2>2
    <3> DEFINE x == hLog'[n].at
    <3>2. x \in Nat /\ hNow \in Nat /\ x >= hNow
      BY <1>1, <1>2, <3>1
    <3> HIDE DEF x
    <3>3. x + d >= t
      BY <1>5, <3>2
    <3> QED
      BY <3>3 DEF x
  <2> QED
    BY <2>1, <2>2, Zenon
<1>6. FetchedInv'
  <2> SUFFICES ASSUME hFetched # NoSample PROVE FetchedInv'
    BY DEF FetchedInv
  <2>1. /\ Sampled(hFetched)
        /\ \A n \in hFetched.seen + 1 .. Len(hLog) : hLog[n].at >= hFetched.at
        /\ hPrevious # NoSample => /\ hPrevious.seen <= hFetched.seen
                                   /\ hPrevious.life <= hFetched.life
    BY <1>1 DEF FetchedInv
  <2>2. hFetched.seen \in Nat /\ hFetched.at \in Nat /\ hFetched.at <= hNow
    BY <2>1 DEF Sampled, Samples
  <2>3. Sampled(hFetched)'
    BY <1>4, <2>1 DEF Sampled
  <2> DEFINE c == hFetched.seen
             t == hFetched.at
  <2>4. /\ \A n \in c + 1 .. Len(hLog) : hLog[n].at + 0 >= t
        /\ c \in Nat /\ t \in Nat /\ t <= hNow
    <3>1. \A n \in c + 1 .. Len(hLog) : hLog[n].at \in Nat
      <4>1. \A n \in c + 1 .. Len(hLog) : n \in 1 .. Len(hLog) /\ n \in 1 .. Len(hLog')
        <5>1. c \in Nat
          BY <2>2
        <5> HIDE DEF c, t
        <5> QED
          BY <1>1, <5>1
      <4> QED
        BY <1>2, <4>1
    <3> QED
      BY <2>1, <2>2, <3>1
  <2> HIDE DEF c, t
  <2>5. \A n \in c + 1 .. Len(hLog') : hLog'[n].at + 0 >= t
    BY <1>5, <2>4
  <2>6. \A n \in c + 1 .. Len(hLog') : hLog'[n].at >= t
    <3>1. \A n \in c + 1 .. Len(hLog') : hLog'[n].at \in Nat
      <4>1. \A n \in c + 1 .. Len(hLog') : n \in 1 .. Len(hLog')
        BY <1>1, <2>4
      <4> QED
        BY <1>2, <4>1
    <3> QED
      BY <2>4, <2>5, <3>1
  <2> QED
    BY <2>1, <2>3, <2>6 DEF FetchedInv, c, t
<1>7. PreviousInv'
  <2>1. CASE hPrevious = NoSample
    BY <1>1, <2>1 DEF PreviousInv
  <2>2. CASE hPrevious # NoSample
    <3>1. /\ Sampled(hPrevious) /\ hReset <= hPrevious.at
          /\ \A n \in hPrevious.seen + 1 .. Len(hLog) : hLog[n].at + MaxDelay >= hPrevious.at
      BY <1>1, <2>2 DEF PreviousInv
    <3> DEFINE c == hPrevious.seen
               t == hPrevious.at
    <3>2. c \in Nat /\ t \in Nat /\ t <= hNow
      BY <3>1 DEF Sampled, Samples
    <3>3. \A n \in c + 1 .. Len(hLog) : hLog[n].at + MaxDelay >= t
      BY <3>1
    <3>4. Sampled(hPrevious)'
      BY <1>4, <3>1 DEF Sampled
    <3> HIDE DEF c, t
    <3>5. \A n \in c + 1 .. Len(hLog') : hLog'[n].at + MaxDelay >= t
      BY <1>5, <3>2, <3>3
    <3> QED
      BY <2>2, <3>1, <3>4, <3>5 DEF PreviousInv, c, t
  <2> QED
    BY <2>1, <2>2
<1>8. ASSUME NEW i \in Intervals, Spans(i), i.at <= hNow PROVE Spans(i)'
  <2>1. i.from \in Nat /\ i.to \in Nat /\ i.at \in Nat /\ i.from <= i.to /\ i.to <= Len(hLog)
    BY <1>8 DEF Intervals, Spans
  <2>2. i.from <= Len(hLog) /\ i.to <= Len(hLog')
    <3> DEFINE a == i.from
               b == i.to
    <3>1. a \in Nat /\ b \in Nat /\ a <= b /\ b <= Len(hLog)
      BY <2>1
    <3> HIDE DEF a, b
    <3>2. a <= Len(hLog) /\ b <= Len(hLog')
      BY <1>1, <3>1
    <3> QED
      BY <3>2 DEF a, b
  <2>3. Latencies(i.to)' = Latencies(i.to) /\ Latencies(i.from)' = Latencies(i.from)
    BY <1>3, <2>1, <2>2
  <2>4. \A n \in 1 .. i.to : hLog'[n].at <= i.at
    <3>1. \A n \in 1 .. i.to : n \in 1 .. Len(hLog)
      BY <1>1, <2>1
    <3> QED
      BY <1>8, <3>1 DEF Spans
  <2>5. \A n \in i.from + 1 .. Len(hLog') : hLog'[n].at + MaxGap + MaxDelay >= i.at
    <3> DEFINE c == i.from
               t == i.at
    <3> DEFINE d == MaxGap + MaxDelay
    <3>1. c \in Nat /\ t \in Nat /\ t <= hNow /\ d \in Nat
      BY <1>8, <2>1
    <3>2. \A n \in c + 1 .. Len(hLog) : hLog[n].at + d >= t
      <4>1. \A n \in c + 1 .. Len(hLog) : n \in 1 .. Len(hLog') /\ n \in 1 .. Len(hLog)
        <5> HIDE DEF c, t, d
        <5> QED
          BY <1>1, <3>1
      <4>2. \A n \in c + 1 .. Len(hLog) : hLog[n].at \in Nat
        BY <1>2, <4>1
      <4>3. \A n \in c + 1 .. Len(hLog) : hLog[n].at + MaxGap + MaxDelay >= t
        BY <1>8 DEF Spans
      <4>4. \A x \in Nat : x + d = x + MaxGap + MaxDelay
        OBVIOUS
      <4> HIDE DEF c, t, d
      <4> QED
        BY <4>2, <4>3, <4>4
    <3>3. \A n \in c + 1 .. Len(hLog') : n \in 1 .. Len(hLog')
      BY <1>1, <3>1
    <3>4. \A x \in Nat : x + d = x + MaxGap + MaxDelay
      OBVIOUS
    <3> HIDE DEF c, t, d
    <3>5. \A n \in c + 1 .. Len(hLog') : hLog'[n].at + d >= t
      BY <1>5, <3>1, <3>2
    <3>6. \A n \in c + 1 .. Len(hLog') : hLog'[n].at + MaxGap + MaxDelay >= t
      BY <1>2, <3>3, <3>4, <3>5
    <3> QED
      BY <3>6 DEF c, t
  <2> QED
    BY <1>8, <2>2, <2>3, <2>4, <2>5 DEF Spans
<1>9. IntervalsInv'
  <2>1. /\ hIntervals \in Seq(Intervals) /\ Ordered(hIntervals)
        /\ \A k \in 1 .. Len(hIntervals) : InWindow(hIntervals[k])
    BY <1>1 DEF IntervalsInv
  <2>2. ASSUME NEW k \in 1 .. Len(hIntervals) PROVE InWindow(hIntervals[k])'
    <3>1. hIntervals[k] \in Intervals /\ InWindow(hIntervals[k])
      BY <2>1, ElementOfSeq
    <3>2. hPrevious # NoSample
      BY <1>1, <2>2 DEF PreviousInv
    <3>3. hPrevious.at \in Nat /\ hPrevious.at <= hNow
      BY <1>1, <3>2 DEF PreviousInv, Sampled, Samples
    <3>4. hIntervals[k].at \in Nat /\ hIntervals[k].at <= hPrevious.at
      BY <3>1 DEF InWindow, Intervals
    <3>5. hIntervals[k].at <= hNow
      <4> DEFINE x == hIntervals[k].at
                 y == hPrevious.at
      <4>1. x \in Nat /\ y \in Nat /\ x <= y /\ y <= hNow /\ hNow \in Nat
        BY <1>1, <3>3, <3>4
      <4> HIDE DEF x, y
      <4>2. x <= hNow
        BY <4>1
      <4> QED
        BY <4>2 DEF x
    <3>6. Spans(hIntervals[k])'
      BY <1>8, <3>1, <3>5 DEF InWindow
    <3> QED
      BY <3>1, <3>6 DEF InWindow
  <2>3. Ordered(hIntervals)'
    BY <2>1 DEF Ordered
  <2> QED
    BY <2>1, <2>2, <2>3 DEF IntervalsInv
<1>10. CompleteInv'
  <2> SUFFICES ASSUME hExposed, hPrevious # NoSample PROVE CompleteInv'
    BY DEF CompleteInv
  <2>1. /\ hIntervals # << >> => hIntervals[Len(hIntervals)].to = hPrevious.seen
        /\ \A n \in 1 .. Before : hLog[n].at <= hReset \/ hLog[n].at + Window <= hPrevious.at
    BY <1>1 DEF CompleteInv
  <2>2. Before \in Nat /\ Before <= Len(hLog) /\ Before' = Before
    <3>1. hPrevious.seen \in Nat /\ hPrevious.seen <= Len(hLog)
      BY <1>1 DEF PreviousInv, Sampled, Samples
    <3>2. CASE hIntervals = << >>
      BY <3>1, <3>2 DEF Before
    <3>3. CASE hIntervals # << >>
      <4>1. hIntervals \in Seq(Intervals)
        BY <1>1 DEF IntervalsInv
      <4>2. 1 \in 1 .. Len(hIntervals)
        BY <3>3, <4>1, EmptySeq
      <4>3. hIntervals[1] \in Intervals /\ Spans(hIntervals[1])
        BY <1>1, <4>1, <4>2, ElementOfSeq DEF IntervalsInv, InWindow
      <4>4. /\ hIntervals[1].from \in Nat /\ hIntervals[1].to \in Nat
            /\ hIntervals[1].from <= hIntervals[1].to /\ hIntervals[1].to <= Len(hLog)
        BY <4>3 DEF Intervals, Spans
      <4> QED
        BY <1>1, <3>3, <4>4 DEF Before
    <3> QED
      BY <3>2, <3>3
  <2>3. \A n \in 1 .. Before : n \in 1 .. Len(hLog)
    BY <1>1, <2>2
  <2>4. \A n \in 1 .. Before : hLog'[n].at <= hReset \/ hLog'[n].at + Window <= hPrevious.at
    BY <2>1, <2>3
  <2> QED
    BY <2>1, <2>2, <2>4 DEF CompleteInv
<1> QED
  BY <1>6, <1>7, <1>9, <1>10 DEF HistogramInv

LEMMA ObserveInv == HistogramInv /\ Observe => HistogramInv'
<1> SUFFICES ASSUME HistogramInv, Observe PROVE HistogramInv'
  OBVIOUS
<1> USE WindowAssumption
<1>1. PICK d \in Durations : hLog' = Append(hLog, [at |-> hNow, life |-> hLife, ms |-> d])
  BY DEF Observe
<1> DEFINE e == [at |-> hNow, life |-> hLife, ms |-> d]
<1>2. UNCHANGED <<hNow, hLife, hExposed, hFetched, hPrevious, hIntervals, hReset>>
  BY DEF Observe
<1>3. LogInv
  BY DEF HistogramInv
<1>4. e \in Entries /\ hLog \in Seq(Entries)
  BY <1>3 DEF LogInv, Entries
<1>5. e.at = hNow /\ e.life = hLife
  OBVIOUS
<1> HIDE DEF e
<1>6. /\ hLog' \in Seq(Entries) /\ Len(hLog') = Len(hLog) + 1 /\ Len(hLog) \in Nat
      /\ \A n \in 1 .. Len(hLog) : hLog'[n] = hLog[n]
      /\ hLog'[Len(hLog) + 1] = e
  <2>1. hLog' = Append(hLog, e)
    BY <1>1 DEF e
  <2> QED
    BY <1>4, <2>1, AppendProperties, LenProperties
<1>7. \A n \in Len(hLog) + 1 .. Len(hLog') : hLog'[n].at = hNow /\ hLog'[n].life = hLife
  <2>1. \A n \in Len(hLog) + 1 .. Len(hLog') : n = Len(hLog) + 1
    BY <1>6
  <2> QED
    BY <1>5, <1>6, <2>1
<1>8. LogInv'
  <2>1. /\ hNow \in Nat /\ hLife \in Nat /\ DOMAIN hLog = 1 .. Len(hLog)
        /\ \A n \in 1 .. Len(hLog) : hLog[n].at <= hNow /\ hLog[n].life <= hLife
    BY <1>3, <1>4, LenProperties DEF LogInv
  <2>2. ASSUME NEW n \in 1 .. Len(hLog') PROVE hLog'[n].at <= hNow /\ hLog'[n].life <= hLife
    <3>1. CASE n \in 1 .. Len(hLog)
      BY <1>6, <2>1, <3>1
    <3>2. CASE n \notin 1 .. Len(hLog)
      <4>1. n \in Len(hLog) + 1 .. Len(hLog')
        BY <1>6, <3>2
      <4> QED
        BY <1>7, <2>1, <4>1
    <3> QED
      BY <3>1, <3>2
  <2>3. DOMAIN hLog' = 1 .. Len(hLog')
    BY <1>6, LenProperties
  <2> QED
    BY <1>2, <1>3, <1>6, <2>2, <2>3 DEF LogInv
<1>9. hNow <= hNow' /\ hLife <= hLife' /\ Len(hLog) <= Len(hLog')
  BY <1>2, <1>3, <1>6 DEF LogInv
<1>10. hFetched # NoSample => hNow' <= hFetched.at + MaxDelay
  BY <1>2 DEF HistogramInv, FetchedInv
<1> QED
  BY <1>2, <1>6, <1>7, <1>8, <1>9, <1>10, LaterKeeps

LEMMA RestartInv == HistogramInv /\ Restart => HistogramInv'
<1> SUFFICES ASSUME HistogramInv, Restart PROVE HistogramInv'
  OBVIOUS
<1> USE WindowAssumption
<1>1. /\ hLife' = hLife + 1
      /\ UNCHANGED <<hNow, hLog, hExposed, hFetched, hPrevious, hIntervals, hReset>>
  BY DEF Restart
<1>2. LogInv /\ hLog \in Seq(Entries)
  BY DEF HistogramInv, LogInv
<1>3. Len(hLog) \in Nat /\ DOMAIN hLog = 1 .. Len(hLog)
  BY <1>2, LenProperties
<1>4. \A n \in 1 .. Len(hLog) : hLog[n].life \in Nat
  <2>1. \A n \in 1 .. Len(hLog) : hLog[n] \in Entries
    BY <1>2, ElementOfSeq
  <2> QED
    BY <2>1 DEF Entries
<1>5. LogInv'
  BY <1>1, <1>2, <1>3, <1>4 DEF LogInv
<1>6. /\ hNow <= hNow' /\ hLife <= hLife' /\ Len(hLog) <= Len(hLog')
      /\ \A n \in 1 .. Len(hLog) : hLog'[n] = hLog[n]
      /\ \A n \in Len(hLog) + 1 .. Len(hLog') : hLog'[n].at = hNow /\ hLog'[n].life = hLife
  BY <1>1, <1>2, <1>3 DEF LogInv
<1>7. hFetched # NoSample => hNow' <= hFetched.at + MaxDelay
  BY <1>1 DEF HistogramInv, FetchedInv
<1> QED
  BY <1>1, <1>5, <1>6, <1>7, LaterKeeps

LEMMA PassesInv == HistogramInv /\ Passes => HistogramInv'
<1> SUFFICES ASSUME HistogramInv, Passes PROVE HistogramInv'
  OBVIOUS
<1> USE WindowAssumption
<1>1. /\ hNow < MaxTime /\ hNow' = hNow + 1
      /\ hFetched # NoSample => hNow < hFetched.at + MaxDelay
      /\ UNCHANGED <<hLog, hLife, hExposed, hFetched, hPrevious, hIntervals, hReset>>
  BY DEF Passes
<1>2. LogInv /\ hLog \in Seq(Entries)
  BY DEF HistogramInv, LogInv
<1>3. Len(hLog) \in Nat /\ DOMAIN hLog = 1 .. Len(hLog)
  BY <1>2, LenProperties
<1>4. \A n \in 1 .. Len(hLog) : hLog[n].at \in Nat
  <2>1. \A n \in 1 .. Len(hLog) : hLog[n] \in Entries
    BY <1>2, ElementOfSeq
  <2> QED
    BY <2>1 DEF Entries
<1>5. LogInv'
  BY <1>1, <1>2, <1>3, <1>4 DEF LogInv
<1>6. /\ hNow <= hNow' /\ hLife <= hLife' /\ Len(hLog) <= Len(hLog')
      /\ \A n \in 1 .. Len(hLog) : hLog'[n] = hLog[n]
      /\ \A n \in Len(hLog) + 1 .. Len(hLog') : hLog'[n].at = hNow /\ hLog'[n].life = hLife
  BY <1>1, <1>2, <1>3 DEF LogInv
<1>7. hFetched # NoSample => hNow' <= hFetched.at + MaxDelay
  <2>1. hFetched # NoSample => hFetched.at \in Nat
    BY DEF HistogramInv, FetchedInv, Sampled, Samples
  <2> QED
    BY <1>1, <1>2, <2>1 DEF LogInv
<1> QED
  BY <1>1, <1>5, <1>6, <1>7, LaterKeeps

LEMMA CollectInv == HistogramInv /\ CollectMetric => HistogramInv'
<1> SUFFICES ASSUME HistogramInv, CollectMetric PROVE HistogramInv'
  OBVIOUS
<1> USE WindowAssumption
<1>1. /\ hFetched' = [at |-> hNow, counters |-> ParseHistogram, life |-> hLife, seen |-> Len(hLog)]
      /\ UNCHANGED <<hNow, hLog, hLife, hExposed, hPrevious, hIntervals, hReset>>
  BY DEF CollectMetric
<1>2. LogInv /\ PreviousInv /\ IntervalsInv /\ CompleteInv /\ hLog \in Seq(Entries)
  BY DEF HistogramInv, LogInv
<1>3. Len(hLog) \in Nat /\ DOMAIN hLog = 1 .. Len(hLog)
  BY <1>2, LenProperties
<1>4. \A l, k : Counters(k, l)' = Counters(k, l) /\ Latencies(k)' = Latencies(k)
  BY <1>1 DEF Counters, Latencies
<1>5. Sampled(hFetched)'
  <2> DEFINE f == [at |-> hNow, counters |-> ParseHistogram, life |-> hLife, seen |-> Len(hLog)]
  <2>1. /\ f.at = hNow /\ f.counters = Counters(Len(hLog), hLife) /\ f.life = hLife
        /\ f.seen = Len(hLog)
    BY DEF ParseHistogram
  <2>2. Counters(Len(hLog), hLife) \in Counts
    <3>1. Len(hLog) \in 0 .. Len(hLog)
      BY <1>3
    <3> QED
      BY <1>2, <3>1, CountersTyped
  <2>3. f \in Samples
    BY <1>2, <1>3, <2>1, <2>2 DEF Samples, LogInv
  <2>4. /\ f.at <= hNow /\ f.life <= hLife /\ f.seen <= Len(hLog)
        /\ \A n \in 1 .. Len(hLog) : hLog[n].at <= f.at /\ hLog[n].life <= f.life
        /\ \A n \in Len(hLog) + 1 .. Len(hLog) : hLog[n].life >= f.life
    BY <1>2, <1>3, <2>1 DEF LogInv
  <2> HIDE DEF f
  <2>5. hFetched' = f
    BY <1>1 DEF f
  <2> QED
    BY <1>1, <1>4, <2>1, <2>3, <2>4, <2>5 DEF Sampled
<1>6. FetchedInv'
  <2>1. hFetched'.at = hNow /\ hFetched'.seen = Len(hLog) /\ hFetched'.life = hLife
    BY <1>1
  <2>2. hNow <= hNow + MaxDelay /\ \A n \in Len(hLog) + 1 .. Len(hLog) : FALSE
    BY <1>2, <1>3 DEF LogInv
  <2>3. hPrevious # NoSample => hPrevious.seen <= Len(hLog) /\ hPrevious.life <= hLife
    BY <1>2 DEF PreviousInv, Sampled
  <2> QED
    BY <1>1, <1>5, <2>1, <2>2, <2>3 DEF FetchedInv
<1>7. LogInv'
  BY <1>1, <1>2 DEF LogInv
<1>8. PreviousInv'
  BY <1>1, <1>2, <1>4 DEF PreviousInv, Sampled
<1>9. IntervalsInv'
  <2>1. \A i : InWindow(i)' <=> InWindow(i)
    BY <1>1, <1>4 DEF InWindow, Spans
  <2>2. Ordered(hIntervals)' <=> Ordered(hIntervals)
    BY <1>1 DEF Ordered
  <2> QED
    BY <1>1, <1>2, <2>1, <2>2 DEF IntervalsInv
<1>10. CompleteInv'
  <2>1. Before' = Before
    BY <1>1 DEF Before
  <2> QED
    BY <1>1, <1>2, <2>1 DEF CompleteInv
<1> QED
  BY <1>6, <1>7, <1>8, <1>9, <1>10 DEF HistogramInv

(* What was sampled and not declared a reset is an interval.                *)
LEMMA DifferenceSpans ==
    ASSUME HistogramInv, hFetched # NoSample, hPrevious # NoSample,
           ~IsReset(hPrevious.counters, hFetched.counters)
    PROVE  LET next == Difference(hPrevious.counters, hFetched.counters) IN
           /\ next \in Intervals /\ next.at = hNow
           /\ next.from = hPrevious.seen /\ next.to = hFetched.seen
           /\ hExposed => next.count = hFetched.seen - hPrevious.seen
           /\ next.count > 0 => Spans(next)
<1> USE WindowAssumption
<1> DEFINE old == hPrevious.counters
           new == hFetched.counters
           next == Difference(old, new)
           a == hPrevious.seen
           b == hFetched.seen
           l == hPrevious.life
           m == hFetched.life
           t == hPrevious.at
           u == hFetched.at
           N == Len(hLog)
<1>1. /\ LogInv /\ Sampled(hFetched) /\ Sampled(hPrevious)
      /\ hNow <= u + MaxDelay /\ a <= b /\ l <= m
      /\ \A n \in a + 1 .. N : hLog[n].at + MaxDelay >= t
  BY DEF HistogramInv, FetchedInv, PreviousInv
<1>2. /\ N \in Nat /\ hNow \in Nat /\ a \in Nat /\ b \in Nat /\ l \in Nat /\ m \in Nat
      /\ t \in Nat /\ u \in Nat /\ b <= N /\ t <= hNow /\ u <= hNow
      /\ old \in Counts /\ new \in Counts /\ old = Counters(a, l) /\ new = Counters(b, m)
      /\ \A n \in 1 .. a : hLog[n].life <= l
      /\ \A n \in a + 1 .. N : hLog[n].life >= l
      /\ \A n \in 1 .. b : hLog[n].at <= u /\ hLog[n].life <= m
  BY <1>1, Logged DEF Sampled, Samples, LogInv
<1>3. /\ hNow - t <= MaxGap /\ (hExposed => l = m)
      /\ new.count >= old.count /\ new.total >= old.total
      /\ \A c \in Buckets : new.buckets[c] >= old.buckets[c]
  <2>1. /\ ~(hNow - t > MaxGap) /\ ~(hExposed /\ l # m)
        /\ ~(new.count < old.count) /\ ~(new.total < old.total)
        /\ \A c \in Buckets : ~(new.buckets[c] < old.buckets[c])
    BY DEF IsReset
  <2>2. /\ new.count \in Nat /\ old.count \in Nat /\ new.total \in Nat /\ old.total \in Nat
        /\ \A c \in Buckets : new.buckets[c] \in Nat /\ old.buckets[c] \in Nat
    BY <1>2 DEF Counts
  <2> HIDE DEF old, new, t, l, m
  <2>3. hNow - t <= MaxGap
    BY <1>2, <2>1
  <2>4. hExposed => l = m
    BY <2>1
  <2>5. new.count >= old.count /\ new.total >= old.total
    BY <2>1, <2>2
  <2>6. ASSUME NEW c \in Buckets PROVE new.buckets[c] >= old.buckets[c]
    BY <2>1, <2>2
  <2> QED
    BY <2>3, <2>4, <2>5, <2>6
<1>4. /\ next.at = hNow /\ next.count = new.count - old.count
      /\ next.total = new.total - old.total
      /\ next.buckets = [c \in Buckets |-> new.buckets[c] - old.buckets[c]]
      /\ next.from = a /\ next.to = b
      /\ next = [at |-> next.at, count |-> next.count, total |-> next.total,
                 buckets |-> next.buckets, from |-> next.from, to |-> next.to]
  BY DEF Difference
<1>5. /\ old.buckets[Infinity] = old.count /\ new.buckets[Infinity] = new.count
      /\ Latencies(a) \in Nat /\ Latencies(b) \in Nat
  <2>1. a \in 0 .. N /\ b \in 0 .. N
    BY <1>1, <1>2
  <2> HIDE DEF a, b, l, m, old, new
  <2> QED
    BY <1>1, <1>2, <2>1, CountersTyped
<1>6. b \in a .. N /\ a \in 0 .. N
  BY <1>1, <1>2
<1>7. \A n \in 1 .. N : hLog[n].life \in Nat /\ hLog[n].at \in Nat
  BY <1>1, Logged
<1> HIDE DEF next, old, new, a, b, l, m, t, u, N
<1>8. /\ new.count \in Nat /\ old.count \in Nat /\ new.total \in Nat /\ old.total \in Nat
      /\ \A c \in Buckets : new.buckets[c] \in Nat /\ old.buckets[c] \in Nat
  BY <1>2 DEF Counts
<1>9. next \in Intervals
  <2>1. next.count \in Nat /\ next.total \in Nat
    BY <1>3, <1>4, <1>8
  <2>2. next.buckets \in [Buckets -> Nat]
    <3>1. ASSUME NEW c \in Buckets PROVE new.buckets[c] - old.buckets[c] \in Nat
      BY <1>3, <1>8
    <3> QED
      BY <1>4, <3>1
  <2> QED
    BY <1>2, <1>4, <2>1, <2>2 DEF Intervals
<1>10. next.buckets[Infinity] = next.count
  <2>1. Infinity \in Buckets
    BY DEF Buckets
  <2> QED
    BY <1>4, <1>5, <2>1
<1>11. new.count - old.count <= b - a
  <2>1. CASE l = m
    <3>1. Counters(b, l).count - Counters(a, l).count <= b - a
      BY <1>1, <1>6, CountersGrow DEF N
    <3> QED
      BY <1>2, <2>1, <3>1
  <2>2. CASE l # m
    <3>1. \A n \in 1 .. a : hLog[n].life # m
      <4>1. ASSUME NEW n \in 1 .. a PROVE hLog[n].life # m
        <5>1. n \in 1 .. N
          BY <1>2, <1>6
        <5> QED
          BY <1>1, <1>2, <1>7, <2>2, <5>1
      <4> QED
        BY <4>1
    <3>2. Counters(b, m).count <= b - a
      BY <1>1, <1>6, <3>1, CountersGrow DEF N
    <3> QED
      BY <1>2, <1>6, <1>8, <3>2
  <2> QED
    BY <2>1, <2>2
<1>12. ASSUME hExposed
       PROVE  new.count - old.count = b - a /\ new.total - old.total = Latencies(b) - Latencies(a)
  <2>1. l = m
    BY <1>3, <1>12
  <2>2. ASSUME NEW n \in a + 1 .. b PROVE hLog[n].life = l
    <3>1. n \in 1 .. N /\ n \in a + 1 .. N /\ n \in 1 .. b
      BY <1>2, <1>6
    <3> QED
      BY <1>2, <1>7, <2>1, <3>1
  <2>3. /\ Counters(b, l).count - Counters(a, l).count = b - a
        /\ Counters(b, l).total - Counters(a, l).total = Latencies(b) - Latencies(a)
    BY <1>1, <1>6, <2>2, CountersGrow DEF N
  <2> QED
    BY <1>2, <2>1, <2>3
<1>13. ASSUME NEW n \in a + 1 .. N PROVE hLog[n].at + MaxGap + MaxDelay >= hNow
  <2>1. n \in 1 .. N /\ hLog[n].at \in Nat
    BY <1>2, <1>7
  <2>2. hLog[n].at + MaxDelay >= t
    BY <1>1
  <2> DEFINE x == hLog[n].at
  <2> HIDE DEF x
  <2>3. x \in Nat /\ x + MaxDelay >= t
    BY <2>1, <2>2 DEF x
  <2>4. x + MaxGap + MaxDelay >= hNow
    BY <1>2, <1>3, <2>3
  <2> QED
    BY <2>4 DEF x
<1>14. ASSUME NEW n \in 1 .. b PROVE hLog[n].at <= hNow
  <2>1. n \in 1 .. N /\ hLog[n].at \in Nat
    BY <1>2, <1>7
  <2> QED
    BY <1>2, <2>1
<1>15. ASSUME next.count > 0 PROVE Spans(next)
  BY <1>1, <1>2, <1>4, <1>10, <1>11, <1>12, <1>13, <1>14, <1>15 DEF Spans, N
<1> QED
  BY <1>4, <1>9, <1>12, <1>15 DEF next, old, new, a, b

(* The intervals of the window, with the one that just ended.               *)
LEMMA ListedIntervals ==
    ASSUME HistogramInv, hFetched # NoSample, hPrevious # NoSample,
           ~IsReset(hPrevious.counters, hFetched.counters), NEW list,
           LET next == Difference(hPrevious.counters, hFetched.counters)
           IN  list = IF next.count > 0 THEN Append(hIntervals, next) ELSE hIntervals
    PROVE  /\ list \in Seq(Intervals) /\ Ordered(list)
           /\ \A k \in 1 .. Len(list) :
                 Spans(list[k]) /\ list[k].to <= hFetched.seen /\ list[k].at <= hNow
           /\ hExposed => /\ list = << >> => hFetched.seen = Before
                          /\ list # << >> => /\ list[Len(list)].to = hFetched.seen
                                             /\ list[1].from = Before
<1> USE WindowAssumption
<1> DEFINE next == Difference(hPrevious.counters, hFetched.counters)
           a == hPrevious.seen
           b == hFetched.seen
           m == Len(hIntervals)
<1>1. /\ next \in Intervals /\ next.at = hNow /\ next.from = a /\ next.to = b
      /\ hExposed => next.count = b - a
      /\ next.count > 0 => Spans(next)
  BY DifferenceSpans
<1>2. list = IF next.count > 0 THEN Append(hIntervals, next) ELSE hIntervals
  OBVIOUS
<1>3. /\ a \in Nat /\ b \in Nat /\ a <= b /\ hNow \in Nat
      /\ hPrevious.at \in Nat /\ hPrevious.at <= hNow
  BY DEF HistogramInv, FetchedInv, PreviousInv, Sampled, Samples, LogInv
<1>4. /\ hIntervals \in Seq(Intervals) /\ Ordered(hIntervals)
      /\ \A k \in 1 .. m : InWindow(hIntervals[k])
  BY DEF HistogramInv, IntervalsInv
<1>5. m \in Nat /\ DOMAIN hIntervals = 1 .. m /\ (hIntervals = << >> <=> m = 0)
  <2>1. m \in Nat /\ DOMAIN hIntervals = 1 .. m
    BY <1>4, LenProperties
  <2> QED
    BY <1>4, <2>1, EmptySeq
<1>6. hExposed => (hIntervals # << >> => hIntervals[m].to = a)
  BY DEF HistogramInv, CompleteInv
<1>7. /\ hIntervals = << >> => Before = a
      /\ hIntervals # << >> => Before = hIntervals[1].from
  BY DEF Before
<1> HIDE DEF next, a, b, m
<1>8. ASSUME NEW k \in 1 .. m
      PROVE  /\ hIntervals[k] \in Intervals /\ Spans(hIntervals[k]) /\ hIntervals[k].to <= a
             /\ hIntervals[k].to <= b /\ hIntervals[k].at <= hNow
             /\ hIntervals[k].at \in Nat /\ hIntervals[k].to \in Nat
  <2>1. hIntervals[k] \in Intervals /\ InWindow(hIntervals[k])
    BY <1>4, ElementOfSeq DEF m
  <2>2. hIntervals[k].at \in Nat /\ hIntervals[k].to \in Nat
    BY <2>1 DEF Intervals
  <2>3. hIntervals[k].to <= a /\ hIntervals[k].at <= hPrevious.at /\ Spans(hIntervals[k])
    BY <2>1 DEF InWindow, a
  <2>4. hIntervals[k].to <= b /\ hIntervals[k].at <= hNow
    <3> DEFINE x == hIntervals[k].to
               y == hIntervals[k].at
               z == hPrevious.at
    <3>1. /\ x \in Nat /\ y \in Nat /\ z \in Nat /\ x <= a /\ y <= z /\ z <= hNow
      BY <1>3, <2>2, <2>3
    <3> HIDE DEF x, y, z
    <3>2. x <= b /\ y <= hNow
      BY <1>3, <3>1
    <3> QED
      BY <3>2 DEF x, y
  <2> QED
    BY <2>1, <2>2, <2>3, <2>4, Zenon
<1>9. CASE next.count > 0
  <2>1. list = Append(hIntervals, next)
    BY <1>2, <1>9
  <2>2. /\ list \in Seq(Intervals) /\ list # << >> /\ Len(list) = m + 1
        /\ \A k \in 1 .. m : list[k] = hIntervals[k]
        /\ list[m + 1] = next
    BY <1>1, <1>4, <2>1, AppendProperties DEF m
  <2>3. ASSUME NEW k \in 1 .. Len(list)
        PROVE  Spans(list[k]) /\ list[k].to <= b /\ list[k].at <= hNow
    <3>1. CASE k \in 1 .. m
      BY <1>8, <2>2, <3>1
    <3>2. CASE k = m + 1
      BY <1>1, <1>3, <1>9, <2>2, <3>2
    <3>3. k \in 1 .. m \/ k = m + 1
      BY <1>5, <2>2
    <3> QED
      BY <3>1, <3>2, <3>3
  <2>4. ASSUME NEW k \in 1 .. Len(list) - 1
        PROVE  /\ list[k].at <= list[k + 1].at /\ list[k].to <= list[k + 1].from
               /\ hExposed => list[k].to = list[k + 1].from
    <3>1. CASE k \in 1 .. m - 1
      <4>1. k \in 1 .. m /\ k + 1 \in 1 .. m
        BY <1>5, <3>1
      <4>2. list[k] = hIntervals[k] /\ list[k + 1] = hIntervals[k + 1]
        BY <2>2, <4>1
      <4> QED
        BY <1>4, <3>1, <4>2 DEF Ordered, m
    <3>2. CASE k = m
      <4>1. m \in 1 .. m
        BY <1>5, <3>2
      <4>2. list[k] = hIntervals[m] /\ list[k + 1] = next
        BY <2>2, <3>2, <4>1
      <4> QED
        BY <1>1, <1>5, <1>6, <1>8, <4>1, <4>2
    <3>3. k \in 1 .. m - 1 \/ k = m
      BY <1>5, <2>2
    <3> QED
      BY <3>1, <3>2, <3>3
  <2>5. list[Len(list)].to = b
    BY <1>1, <2>2
  <2>6. list[1].from = Before
    <3>1. CASE m = 0
      BY <1>1, <1>5, <1>7, <2>2, <3>1
    <3>2. CASE m # 0
      <4>1. 1 \in 1 .. m
        BY <1>5, <3>2
      <4> QED
        BY <1>5, <1>7, <2>2, <4>1
    <3> QED
      BY <3>1, <3>2
  <2> QED
    BY <2>2, <2>3, <2>4, <2>5, <2>6 DEF Ordered, b
<1>10. CASE ~(next.count > 0)
  <2>1. list = hIntervals
    BY <1>2, <1>10
  <2>2. ASSUME hExposed PROVE a = b
    <3>1. next.count = b - a /\ next.count \in Nat
      BY <1>1, <2>2 DEF Intervals
    <3> QED
      BY <1>3, <1>10, <3>1
  <2>3. ASSUME hExposed, list # << >> PROVE list[Len(list)].to = b /\ list[1].from = Before
    BY <1>6, <1>7, <2>1, <2>2, <2>3 DEF m
  <2>4. ASSUME hExposed, list = << >> PROVE b = Before
    BY <1>7, <2>1, <2>2, <2>4
  <2>5. \A k \in 1 .. Len(list) : Spans(list[k]) /\ list[k].to <= b /\ list[k].at <= hNow
    BY <1>8, <2>1 DEF m
  <2> QED
    BY <1>4, <2>1, <2>3, <2>4, <2>5 DEF b
<1> QED
  BY <1>9, <1>10

LEMMA UpdateInv == HistogramInv /\ Update => HistogramInv'
<1> SUFFICES ASSUME HistogramInv, Update PROVE HistogramInv'
  OBVIOUS
<1> USE WindowAssumption
<1>1. /\ hFetched # NoSample /\ hFetched' = NoSample /\ hPrevious' = [hFetched EXCEPT !.at = hNow]
      /\ UNCHANGED <<hNow, hLog, hLife, hExposed>>
  BY DEF Update
<1>2. /\ LogInv /\ Sampled(hFetched) /\ hNow <= hFetched.at + MaxDelay
      /\ \A n \in hFetched.seen + 1 .. Len(hLog) : hLog[n].at >= hFetched.at
      /\ PreviousInv /\ IntervalsInv /\ CompleteInv
  BY <1>1 DEF HistogramInv, FetchedInv
<1> DEFINE b == hFetched.seen
           p == hPrevious'
<1>3. /\ hFetched \in Samples /\ hFetched.at \in Nat /\ b \in Nat /\ b <= Len(hLog) /\ hNow \in Nat
      /\ hFetched.at <= hNow /\ hReset \in 0 .. hNow
      /\ \A n \in 1 .. Len(hLog) : hLog[n].at \in Nat
      /\ Len(hLog) \in Nat
  BY <1>2, Logged DEF Sampled, Samples, LogInv
<1>4. /\ p \in Samples /\ p.at = hNow /\ p.seen = b /\ p.life = hFetched.life
      /\ p.counters = hFetched.counters /\ p # NoSample
  <2>1. /\ p \in Samples /\ p.at = hNow /\ p.seen = b /\ p.life = hFetched.life
        /\ p.counters = hFetched.counters
    BY <1>1, <1>3 DEF Samples
  <2> QED
    BY <2>1, SamplesAreSome
<1>5. \A l, k : Counters(k, l)' = Counters(k, l) /\ Latencies(k)' = Latencies(k)
  BY <1>1 DEF Counters, Latencies
<1>6. FetchedInv'
  BY <1>1 DEF FetchedInv
<1>7. hReset' \in 0 .. hNow
  BY <1>3 DEF Update
<1>8. LogInv'
  BY <1>1, <1>2, <1>7 DEF LogInv
<1>9. PreviousInv'
  <2>1. \A n \in 1 .. b : hLog[n].at <= hNow /\ hLog[n].life <= p.life
    <3>1. \A n \in 1 .. b : n \in 1 .. Len(hLog) /\ hLog[n].at <= hFetched.at
                            /\ hLog[n].life <= hFetched.life
      BY <1>2, <1>3 DEF Sampled
    <3> QED
      BY <1>3, <1>4, <3>1
  <2>2. \A n \in b + 1 .. Len(hLog) : hLog[n].life >= p.life
    BY <1>2, <1>4 DEF Sampled
  <2>3. p.counters = Counters(b, p.life) /\ p.life <= hLife
    BY <1>2, <1>4 DEF Sampled
  <2>4. Sampled(hPrevious)'
    BY <1>1, <1>3, <1>4, <1>5, <2>1, <2>2, <2>3 DEF Sampled
  <2>5. \A n \in b + 1 .. Len(hLog) : hLog[n].at + MaxDelay >= hNow
    <3>1. \A n \in b + 1 .. Len(hLog) : n \in 1 .. Len(hLog) /\ hLog[n].at >= hFetched.at
      BY <1>2, <1>3
    <3>2. \A x \in Nat : x >= hFetched.at => x + MaxDelay >= hNow
      BY <1>2, <1>3
    <3> QED
      BY <1>3, <3>1, <3>2
  <2> QED
    BY <1>1, <1>3, <1>4, <1>7, <2>4, <2>5 DEF PreviousInv
<1>10. CASE hPrevious = NoSample \/ IsReset(hPrevious.counters, hFetched.counters)
  <2>1. hIntervals' = << >> /\ hReset' = hNow
    BY <1>10 DEF Update
  <2>2. IntervalsInv'
    <3>1. << >> \in Seq(Intervals) /\ Len(<< >>) = 0
      OBVIOUS
    <3> QED
      BY <2>1, <3>1 DEF IntervalsInv, Ordered
  <2>3. CompleteInv'
    <3>1. Before' = b
      BY <1>4, <2>1 DEF Before
    <3>2. \A n \in 1 .. b : hLog[n].at <= hNow
      <4>1. \A n \in 1 .. b : n \in 1 .. Len(hLog) /\ hLog[n].at <= hFetched.at
        BY <1>2, <1>3 DEF Sampled
      <4> QED
        BY <1>3, <4>1
    <3> QED
      BY <1>1, <2>1, <3>1, <3>2 DEF CompleteInv
  <2> QED
    BY <1>6, <1>8, <1>9, <2>2, <2>3 DEF HistogramInv
<1>11. CASE ~(hPrevious = NoSample \/ IsReset(hPrevious.counters, hFetched.counters))
  <2> DEFINE next == Difference(hPrevious.counters, hFetched.counters)
             list == IF next.count > 0 THEN Append(hIntervals, next) ELSE hIntervals
             cutoff == hNow - Window
             m == Len(list)
  <2>1. hIntervals' = Newer(list, cutoff) /\ hReset' = hReset
    BY <1>11 DEF Update, Prune
  <2>2. /\ list \in Seq(Intervals) /\ Ordered(list)
        /\ \A k \in 1 .. m : Spans(list[k]) /\ list[k].to <= b /\ list[k].at <= hNow
        /\ hExposed => /\ list = << >> => b = Before
                       /\ list # << >> => list[m].to = b /\ list[1].from = Before
    BY <1>1, <1>11, ListedIntervals
  <2> HIDE DEF list, next, b, p
  <2>3. m \in Nat /\ (list = << >> <=> m = 0)
    BY <2>2, LenProperties, EmptySeq
  <2>4. ASSUME NEW k \in 1 .. m
        PROVE  list[k] \in Intervals /\ list[k].at \in Nat /\ list[k].to \in Nat
               /\ list[k].from \in Nat
    <3>1. list[k] \in Intervals
      BY <2>2, ElementOfSeq
    <3> QED
      BY <3>1 DEF Intervals
  <2>5. PICK j \in 0 .. m :
           /\ Newer(list, cutoff) = Slice(list, j, m)
           /\ \A k \in 1 .. j : list[k].at <= cutoff
           /\ \A k \in j + 1 .. m : list[k].at > cutoff
    <3>1. \A k \in 1 .. m - 1 : list[k].at <= list[k + 1].at
      BY <2>2 DEF Ordered
    <3>2. \A k, l \in 1 .. m : k <= l => list[k].at <= list[l].at
      BY <2>2, <2>4, <3>1, InOrder
    <3>3. cutoff \in Int
      BY <1>3
    <3> HIDE DEF cutoff
    <3> QED
      BY <2>2, <2>4, <3>2, <3>3, NewerIsSlice
  <2>6. /\ hIntervals' \in Seq(Intervals) /\ Len(hIntervals') = m - j
        /\ \A k \in 1 .. m - j : hIntervals'[k] = list[j + k]
        /\ j \in Nat /\ j <= m
    <3>1. j \in Nat /\ j <= m
      BY <2>3
    <3> DEFINE rest == Slice(list, j, m)
    <3>2. /\ rest \in Seq(Intervals) /\ Len(rest) = m - j
          /\ \A k \in 1 .. m - j : rest[k] = list[j + k]
      <4>1. list \in Seq(Intervals) /\ j \in 0 .. Len(list)
        BY <2>2
      <4>2. /\ Slice(list, j, Len(list)) \in Seq(Intervals)
            /\ Len(Slice(list, j, Len(list))) = Len(list) - j
            /\ \A k \in 1 .. Len(list) - j : Slice(list, j, Len(list))[k] = list[j + k]
        BY <4>1, SliceEnd
      <4> QED
        BY <4>2
    <3>3. hIntervals' = rest
      BY <2>1, <2>5
    <3> HIDE DEF rest, m
    <3> QED
      BY <3>1, <3>2, <3>3
  <2>7. ASSUME NEW i \in Intervals, Spans(i), i.to <= b, i.at <= hNow, i.at > cutoff
        PROVE  Spans(i) /\ i.to <= p.seen /\ i.at <= p.at /\ i.at + Window > p.at
    <3>1. i.at \in Nat
      BY <2>7 DEF Intervals
    <3> DEFINE t == i.at
    <3>2. t \in Nat /\ t > hNow - Window
      BY <2>7, <3>1
    <3> HIDE DEF t
    <3>3. t + Window > hNow
      BY <1>3, <3>2
    <3> QED
      BY <1>4, <2>7, <3>3 DEF t
  <2>8. \A k \in 1 .. m - j : j + k \in 1 .. m /\ j + k \in j + 1 .. m
    BY <2>3, <2>6
  <2>9. IntervalsInv'
    <3>1. ASSUME NEW k \in 1 .. Len(hIntervals') PROVE InWindow(hIntervals[k])'
      <4>1. hIntervals'[k] = list[j + k] /\ j + k \in 1 .. m /\ j + k \in j + 1 .. m
        BY <2>6, <2>8
      <4>2. /\ list[j + k] \in Intervals /\ Spans(list[j + k]) /\ list[j + k].to <= b
            /\ list[j + k].at <= hNow /\ list[j + k].at > cutoff
        BY <2>2, <2>4, <2>5, <4>1
      <4> DEFINE i == hIntervals'[k]
      <4>3. Spans(i) /\ i.to <= p.seen /\ i.at <= p.at /\ i.at + Window > p.at
        BY <2>7, <4>1, <4>2
      <4>4. Spans(hIntervals[k])'
        BY <1>1, <1>5, <4>3 DEF Spans
      <4> QED
        BY <4>3, <4>4 DEF InWindow, p
    <3>2. Ordered(hIntervals)'
      <4> SUFFICES ASSUME NEW k \in 1 .. Len(hIntervals') - 1
                   PROVE  /\ hIntervals'[k].at <= hIntervals'[k + 1].at
                          /\ hIntervals'[k].to <= hIntervals'[k + 1].from
                          /\ hExposed => hIntervals'[k].to = hIntervals'[k + 1].from
        BY <1>1 DEF Ordered
      <4> DEFINE e == j + k
      <4>1. k \in 1 .. m - j /\ k + 1 \in 1 .. m - j /\ e \in 1 .. m - 1 /\ j + (k + 1) = e + 1
        <5>1. Len(hIntervals') = m - j
          BY <2>6
        <5>2. k \in 1 .. m - j - 1 /\ m \in Nat /\ j \in Nat /\ j <= m
          BY <2>3, <5>1
        <5> QED
          BY <5>2
      <4>2. hIntervals'[k] = list[e] /\ hIntervals'[k + 1] = list[e + 1]
        BY <2>6, <4>1
      <4> HIDE DEF e
      <4> QED
        BY <2>2, <4>1, <4>2 DEF Ordered
    <3> QED
      BY <2>6, <3>1, <3>2 DEF IntervalsInv
  <2>10. CompleteInv'
    <3> SUFFICES ASSUME hExposed
                 PROVE  /\ hIntervals' # << >> => hIntervals'[Len(hIntervals')].to = b
                        /\ \A n \in 1 .. Before' :
                              hLog[n].at <= hReset \/ hLog[n].at + Window <= hNow
      BY <1>1, <1>4, <2>1 DEF CompleteInv, p
    <3>1. hIntervals' # << >> => m - j >= 1
      BY <2>3, <2>6, EmptySeq
    <3>2. ASSUME hIntervals' # << >> PROVE hIntervals'[Len(hIntervals')].to = b
      <4>1. m - j \in 1 .. m - j /\ j + (m - j) = m /\ list # << >>
        BY <2>3, <2>6, <3>1, <3>2
      <4>2. hIntervals'[m - j] = list[m]
        BY <2>6, <4>1
      <4> QED
        BY <2>2, <2>6, <4>1, <4>2
    <3>3. ASSUME NEW k \in 1 .. j, NEW n \in 1 .. list[k].to PROVE hLog[n].at + Window <= hNow
      <4>1. k \in 1 .. m
        BY <2>3, <2>6
      <4>2. /\ list[k].at <= cutoff /\ hLog[n].at <= list[k].at /\ list[k].at \in Nat
            /\ list[k].to \in Nat /\ list[k].to <= Len(hLog)
        BY <2>2, <2>4, <2>5, <4>1 DEF Spans
      <4>3. n \in 1 .. Len(hLog)
        <5> DEFINE z == list[k].to
        <5>1. z \in Nat /\ z <= Len(hLog) /\ Len(hLog) \in Nat /\ n \in 1 .. z
          BY <1>3, <4>2
        <5> HIDE DEF z
        <5> QED
          BY <5>1
      <4>4. hLog[n].at \in Nat
        BY <1>3, <4>3
      <4> DEFINE x == hLog[n].at
                 y == list[k].at
      <4>5. x \in Nat /\ y \in Nat /\ x <= y /\ y <= hNow - Window
        BY <4>2, <4>4
      <4> HIDE DEF x, y
      <4>6. x + Window <= hNow
        BY <1>3, <4>5
      <4> QED
        BY <4>6 DEF x
    <3>4. \A n \in 1 .. Before : hLog[n].at <= hReset \/ hLog[n].at + Window <= hNow
      <4>1. hPrevious # NoSample
        BY <1>11
      <4>2. \A n \in 1 .. Before : hLog[n].at <= hReset \/ hLog[n].at + Window <= hPrevious.at
        BY <1>2, <4>1 DEF CompleteInv
      <4>3. hPrevious.at \in Nat /\ hPrevious.at <= hNow
        BY <1>2, <4>1 DEF PreviousInv, Sampled, Samples
      <4>4. Before \in Nat /\ Before <= Len(hLog)
        <5>1. CASE list = << >>
          BY <1>3, <2>2, <5>1 DEF b
        <5>2. CASE list # << >>
          <6>1. 1 \in 1 .. m
            BY <2>3, <5>2
          <6>2. list[1].from \in Nat /\ list[1].to \in Nat /\ list[1].from <= list[1].to
                /\ list[1].to <= Len(hLog)
            BY <2>2, <2>4, <6>1 DEF Spans
          <6>3. list[1].from = Before
            BY <2>2, <5>2
          <6> QED
            BY <1>3, <6>2, <6>3
        <5> QED
          BY <5>1, <5>2
      <4>5. ASSUME NEW n \in 1 .. Before PROVE hLog[n].at <= hReset \/ hLog[n].at + Window <= hNow
        <5>1. n \in 1 .. Len(hLog)
          BY <1>3, <4>4
        <5>2. hLog[n].at \in Nat
          BY <1>3, <5>1
        <5> DEFINE x == hLog[n].at
                   t == hPrevious.at
        <5>3. x \in Nat /\ t \in Nat /\ t <= hNow /\ (x <= hReset \/ x + Window <= t)
          BY <4>2, <4>3, <5>2
        <5> HIDE DEF x, t
        <5>4. x <= hReset \/ x + Window <= hNow
          BY <1>3, <5>3
        <5> QED
          BY <5>4 DEF x
      <4> QED
        BY <4>5
    <3>5. CASE hIntervals' = << >>
      <4>1. Before' = b
        BY <1>4, <3>5 DEF Before, p
      <4>2. j = m
        BY <2>3, <2>6, <3>5, EmptySeq
      <4>3. CASE m = 0
        <5>1. b = Before
          BY <2>2, <2>3, <4>3
        <5> QED
          BY <3>4, <3>5, <4>1, <5>1
      <4>4. CASE m # 0
        <5>1. m \in 1 .. j /\ list # << >>
          BY <2>3, <4>2, <4>4
        <5>2. list[m].to = b
          BY <2>2, <5>1
        <5>3. \A n \in 1 .. b : hLog[n].at + Window <= hNow
          BY <3>3, <5>1, <5>2
        <5> QED
          BY <3>5, <4>1, <5>3
      <4> QED
        BY <4>3, <4>4
    <3>6. CASE hIntervals' # << >>
      <4>1. Before' = list[j + 1].from /\ j + 1 \in 1 .. m
        <5>1. 1 \in 1 .. m - j
          BY <2>3, <2>6, <3>1, <3>6
        <5>2. hIntervals'[1] = list[j + 1] /\ j + 1 \in 1 .. m
          BY <2>3, <2>6, <5>1
        <5> QED
          BY <3>6, <5>2 DEF Before
      <4>2. CASE j = 0
        <5>1. list # << >> /\ j + 1 = 1
          BY <2>3, <4>1, <4>2
        <5>2. Before' = Before
          BY <2>2, <4>1, <5>1
        <5> QED
          BY <3>2, <3>4, <3>6, <5>2
      <4>3. CASE j # 0
        <5>1. j \in 1 .. j /\ j \in 1 .. m - 1
          BY <2>3, <2>6, <4>1, <4>3
        <5>2. list[j].to = list[j + 1].from
          BY <2>2, <5>1 DEF Ordered
        <5>3. \A n \in 1 .. Before' : hLog[n].at + Window <= hNow
          BY <3>3, <4>1, <5>1, <5>2
        <5> QED
          BY <3>2, <3>6, <5>3
      <4> QED
        BY <4>2, <4>3
    <3> QED
      BY <3>5, <3>6
  <2> QED
    BY <1>6, <1>8, <1>9, <2>9, <2>10 DEF HistogramInv
<1> QED
  BY <1>10, <1>11

LEMMA HistogramNextInv == HistogramInv /\ [HistogramNext]_histogramVars => HistogramInv'
<1> SUFFICES ASSUME HistogramInv, [HistogramNext]_histogramVars PROVE HistogramInv'
  OBVIOUS
<1>1. CASE Observe
  BY <1>1, ObserveInv
<1>2. CASE Restart
  BY <1>2, RestartInv
<1>3. CASE Passes
  BY <1>3, PassesInv
<1>4. CASE CollectMetric
  BY <1>4, CollectInv
<1>5. CASE Update
  BY <1>5, UpdateInv
<1>6. CASE UNCHANGED histogramVars
  <2>1. LogInv'
    BY <1>6 DEF histogramVars, HistogramInv, LogInv
  <2>2. FetchedInv'
    BY <1>6 DEF histogramVars, HistogramInv, FetchedInv, Sampled, Counters
  <2>3. PreviousInv'
    BY <1>6 DEF histogramVars, HistogramInv, PreviousInv, Sampled, Counters
  <2>4. IntervalsInv'
    BY <1>6 DEF histogramVars, HistogramInv, IntervalsInv, InWindow, Spans, Ordered, Latencies
  <2>5. CompleteInv'
    BY <1>6 DEF histogramVars, HistogramInv, CompleteInv, Before
  <2> QED
    BY <2>1, <2>2, <2>3, <2>4, <2>5 DEF HistogramInv
<1> QED
  BY <1>1, <1>2, <1>3, <1>4, <1>5, <1>6 DEF HistogramNext

-----------------------------------------------------------------------------
(* What the window says.                                                    *)

(* Of what was logged between two places some took least and some longest.  *)
LEMMA Extremes ==
    ASSUME LogInv, NEW a \in Nat, NEW b \in Nat, a < b, b <= Len(hLog)
    PROVE  /\ \E i \in a + 1 .. b : \A n \in a + 1 .. b : All[i] <= All[n]
           /\ \E j \in a + 1 .. b : \A n \in a + 1 .. b : All[n] <= All[j]
<1> DEFINE M == Infinity
           s == All
<1>1. M \in Nat /\ \A n \in a + 1 .. b : s[n] \in Nat /\ M - s[n] \in Nat
  <2>1. \A n \in a + 1 .. b : n \in 1 .. Len(hLog)
    BY Logged
  <2>2. \A n \in 1 .. Len(hLog) : s[n] \in Nat /\ s[n] <= M /\ M \in Nat
    BY Logged DEF All
  <2>3. \A n \in 1 .. Len(hLog) : M - s[n] \in Nat
    <3> HIDE DEF s, M
    <3> QED
      BY <2>2
  <2> QED
    BY <2>1, <2>2, <2>3, Logged
<1> HIDE DEF M, s
<1>2. b \in a + 1 .. b
  OBVIOUS
<1> DEFINE T == {s[n] : n \in a + 1 .. b}
           U == {M - s[n] : n \in a + 1 .. b}
<1>3. PICK i \in a + 1 .. b : \A n \in a + 1 .. b : s[i] <= s[n]
  <2>1. T \in SUBSET Nat /\ T # {}
    BY <1>1, <1>2
  <2>2. PICK m \in T : \A k \in T : m <= k
    <3> HIDE DEF T
    <3> QED
      BY <2>1, LeastElement
  <2> QED
    BY <2>2
<1>4. PICK j \in a + 1 .. b : \A n \in a + 1 .. b : s[n] <= s[j]
  <2>1. U \in SUBSET Nat /\ U # {}
    BY <1>1, <1>2
  <2>2. PICK m \in U : \A k \in U : m <= k
    <3> HIDE DEF U
    <3> QED
      BY <2>1, LeastElement
  <2>3. PICK j \in a + 1 .. b : m = M - s[j]
    BY <2>2
  <2>4. ASSUME NEW n \in a + 1 .. b PROVE s[n] <= s[j]
    <3>1. M - s[j] <= M - s[n]
      BY <2>2, <2>3
    <3>2. s[j] \in Nat /\ s[n] \in Nat
      BY <1>1
    <3> DEFINE x == s[j]
               y == s[n]
    <3> HIDE DEF x, y
    <3>3. M \in Nat /\ x \in Nat /\ y \in Nat /\ M - x <= M - y
      BY <1>1, <3>1, <3>2 DEF x, y
    <3>4. y <= x
      BY <3>3
    <3> QED
      BY <3>4 DEF x, y
  <2> QED
    BY <2>4
<1> QED
  BY <1>3, <1>4 DEF s

(* The numbers the window adds up are numbers.                              *)
LEMMA WindowNumbers ==
    ASSUME HistogramInv
    PROVE  /\ Len(hIntervals) \in Nat /\ DOMAIN hIntervals = 1 .. Len(hIntervals)
           /\ \A k \in 1 .. Len(hIntervals) :
                 /\ hIntervals[k] \in Intervals /\ InWindow(hIntervals[k])
                 /\ hIntervals[k].count \in Nat /\ hIntervals[k].total \in Nat
                 /\ hIntervals[k].at \in Nat /\ hIntervals[k].from \in Nat
                 /\ hIntervals[k].to \in Nat
           /\ WindowCount \in Nat /\ WindowTotal \in Nat
           /\ \A b \in Buckets : WindowBucket(b) \in Nat
           /\ WindowBucket(Infinity) = WindowCount
<1> DEFINE m == Len(hIntervals)
<1>1. hIntervals \in Seq(Intervals) /\ \A k \in 1 .. m : InWindow(hIntervals[k])
  BY DEF HistogramInv, IntervalsInv
<1>2. m \in Nat /\ DOMAIN hIntervals = 1 .. m
  BY <1>1, LenProperties
<1>3. ASSUME NEW k \in 1 .. m
      PROVE  /\ hIntervals[k] \in Intervals /\ InWindow(hIntervals[k])
             /\ hIntervals[k].count \in Nat /\ hIntervals[k].total \in Nat
             /\ hIntervals[k].at \in Nat /\ hIntervals[k].from \in Nat /\ hIntervals[k].to \in Nat
             /\ \A b \in Buckets : hIntervals[k].buckets[b] \in Nat
             /\ hIntervals[k].buckets[Infinity] = hIntervals[k].count
  <2>1. hIntervals[k] \in Intervals /\ InWindow(hIntervals[k])
    BY <1>1, ElementOfSeq
  <2> QED
    BY <2>1 DEF Intervals, InWindow, Spans
<1> HIDE DEF m
<1>4. WindowCount \in Nat
  <2> DEFINE s == [n \in 1 .. m |-> hIntervals[n].count]
  <2>1. s \in [1 .. m -> Nat]
    BY <1>3
  <2>2. SumOf(s) \in Nat
    BY <1>2, <2>1, SumNat
  <2> QED
    BY <1>2, <2>2 DEF WindowCount
<1>5. WindowTotal \in Nat
  <2> DEFINE s == [n \in 1 .. m |-> hIntervals[n].total]
  <2>1. s \in [1 .. m -> Nat]
    BY <1>3
  <2>2. SumOf(s) \in Nat
    BY <1>2, <2>1, SumNat
  <2> QED
    BY <1>2, <2>2 DEF WindowTotal
<1>6. ASSUME NEW b \in Buckets PROVE WindowBucket(b) \in Nat
  <2> DEFINE s == [n \in 1 .. m |-> hIntervals[n].buckets[b]]
  <2>1. s \in [1 .. m -> Nat]
    BY <1>3
  <2>2. SumOf(s) \in Nat
    BY <1>2, <2>1, SumNat
  <2> QED
    BY <1>2, <2>2 DEF WindowBucket
<1>7. WindowBucket(Infinity) = WindowCount
  <2>1. [n \in 1 .. m |-> hIntervals[n].buckets[Infinity]] = [n \in 1 .. m |-> hIntervals[n].count]
    BY <1>3
  <2> QED
    BY <1>2, <2>1 DEF WindowBucket, WindowCount
<1> QED
  BY <1>2, <1>3, <1>4, <1>5, <1>6, <1>7 DEF m

(* The window counts at most what was logged behind Before, and of a service*)
(* that tells its lives apart exactly that, latencies and all.              *)
LEMMA WindowSums ==
    ASSUME HistogramInv, hPrevious # NoSample
    PROVE  /\ Before \in Nat /\ hPrevious.seen \in Nat /\ Before <= hPrevious.seen
           /\ hPrevious.seen <= Len(hLog)
           /\ WindowCount <= hPrevious.seen - Before
           /\ hExposed => /\ WindowCount = hPrevious.seen - Before
                          /\ WindowTotal = Latencies(hPrevious.seen) - Latencies(Before)
<1> DEFINE m == Len(hIntervals)
           b == hPrevious.seen
<1>1. /\ LogInv /\ IntervalsInv /\ CompleteInv /\ b \in Nat /\ b <= Len(hLog)
      /\ Len(hLog) \in Nat
  BY Logged DEF HistogramInv, PreviousInv, Sampled, Samples
<1>2. /\ m \in Nat /\ DOMAIN hIntervals = 1 .. m
      /\ \A k \in 1 .. m :
            /\ hIntervals[k] \in Intervals /\ InWindow(hIntervals[k])
            /\ hIntervals[k].count \in Nat /\ hIntervals[k].total \in Nat
            /\ hIntervals[k].from \in Nat /\ hIntervals[k].to \in Nat
  BY WindowNumbers
<1>3. hIntervals = << >> <=> m = 0
  <2>1. hIntervals \in Seq(Intervals)
    BY <1>1 DEF IntervalsInv
  <2> QED
    BY <1>2, <2>1, EmptySeq
<1>4. \A k \in 0 .. Len(hLog) : Latencies(k) \in Nat
  BY <1>1, CountersTyped
<1> HIDE DEF m, b
<1>5. CASE m = 0
  <2>1. Before = b
    BY <1>3, <1>5 DEF Before, b
  <2>2. WindowCount = 0 /\ WindowTotal = 0
    <3> DEFINE s == [n \in 1 .. 0 |-> hIntervals[n].count]
               t == [n \in 1 .. 0 |-> hIntervals[n].total]
    <3>1. s \in [1 .. 0 -> Nat] /\ t \in [1 .. 0 -> Nat]
      OBVIOUS
    <3>2. SumOf(s) = 0 /\ SumOf(t) = 0
      BY <3>1, SumNat
    <3> QED
      BY <1>2, <1>5, <3>2 DEF WindowCount, WindowTotal
  <2>3. b \in 0 .. Len(hLog)
    BY <1>1
  <2>4. Latencies(b) \in Nat
    BY <1>4, <2>3
  <2> QED
    BY <1>1, <2>1, <2>2, <2>4 DEF b
<1>6. CASE m # 0
  <2>1. m \in Nat \ {0} /\ 1 \in 1 .. m /\ m \in 1 .. m
    BY <1>2, <1>6
  <2> DEFINE c == [k \in 1 .. m |-> hIntervals[k].count]
             w == [k \in 1 .. m |-> hIntervals[k].total]
             f == [k \in 1 .. m |-> hIntervals[k].from]
             g == [k \in 1 .. m |-> hIntervals[k].to]
             ff == [k \in 1 .. m |-> Latencies(hIntervals[k].from)]
             gg == [k \in 1 .. m |-> Latencies(hIntervals[k].to)]
  <2>2. ASSUME NEW k \in 1 .. m
        PROVE  /\ hIntervals[k].count <= hIntervals[k].to - hIntervals[k].from
               /\ hIntervals[k].from <= hIntervals[k].to /\ hIntervals[k].to <= b
               /\ hExposed =>
                    /\ hIntervals[k].count = hIntervals[k].to - hIntervals[k].from
                    /\ hIntervals[k].total
                       = Latencies(hIntervals[k].to) - Latencies(hIntervals[k].from)
    BY <1>2 DEF InWindow, Spans, b
  <2>3. ASSUME NEW k \in 1 .. m - 1
        PROVE  /\ hIntervals[k].to <= hIntervals[k + 1].from
               /\ hExposed => hIntervals[k].to = hIntervals[k + 1].from
    BY <1>1 DEF IntervalsInv, Ordered, m
  <2>4. \A k \in 1 .. m - 1 : k \in 1 .. m /\ k + 1 \in 1 .. m
    BY <1>2
  <2>5. /\ c \in [1 .. m -> Nat] /\ w \in [1 .. m -> Nat]
        /\ f \in [1 .. m -> Nat] /\ g \in [1 .. m -> Nat]
    BY <1>2
  <2>6. ff \in [1 .. m -> Nat] /\ gg \in [1 .. m -> Nat]
    <3>1. ASSUME NEW k \in 1 .. m
          PROVE  Latencies(hIntervals[k].from) \in Nat /\ Latencies(hIntervals[k].to) \in Nat
      <4>1. hIntervals[k].from \in 0 .. Len(hLog) /\ hIntervals[k].to \in 0 .. Len(hLog)
        BY <1>1, <1>2, <2>2
      <4> QED
        BY <1>4, <4>1
    <3> QED
      BY <3>1
  <2>7. WindowCount = SumOf(c) /\ WindowTotal = SumOf(w)
    BY <1>2 DEF WindowCount, WindowTotal
  <2>8. \A k \in 1 .. m : c[k] <= g[k] - f[k]
    BY <2>2
  <2>9. \A k \in 1 .. m - 1 : g[k] <= f[k + 1]
    BY <2>3, <2>4
  <2>10. Before = f[1] /\ g[m] <= b /\ f[1] <= g[1]
    BY <1>3, <1>6, <2>1, <2>2 DEF Before
  <2>11. ASSUME hExposed
         PROVE  /\ \A k \in 1 .. m : c[k] = g[k] - f[k] /\ w[k] = gg[k] - ff[k]
                /\ \A k \in 1 .. m - 1 : g[k] = f[k + 1] /\ gg[k] = ff[k + 1]
                /\ g[m] = b /\ gg[m] = Latencies(b) /\ ff[1] = Latencies(Before)
    <3>1. \A k \in 1 .. m : c[k] = g[k] - f[k] /\ w[k] = gg[k] - ff[k]
      BY <2>2, <2>11
    <3>2. \A k \in 1 .. m - 1 : g[k] = f[k + 1] /\ gg[k] = ff[k + 1]
      BY <2>3, <2>4, <2>11
    <3>3. g[m] = b
      BY <1>1, <1>3, <1>6, <2>1, <2>11 DEF CompleteInv, m, b
    <3>4. gg[m] = Latencies(g[m]) /\ ff[1] = Latencies(f[1])
      BY <2>1
    <3> QED
      BY <2>10, <3>1, <3>2, <3>3, <3>4
  <2> HIDE DEF c, w, f, g, ff, gg
  <2>12. /\ SumOf(c) <= g[m] - f[1]
         /\ /\ \A k \in 1 .. m : c[k] = g[k] - f[k]
            /\ \A k \in 1 .. m - 1 : g[k] = f[k + 1]
            => SumOf(c) = g[m] - f[1]
    BY <2>1, <2>5, <2>8, <2>9, Telescope
  <2>13. ASSUME hExposed PROVE SumOf(w) = gg[m] - ff[1]
    <3>1. \A k \in 1 .. m : w[k] <= gg[k] - ff[k]
      BY <2>5, <2>6, <2>11, <2>13
    <3>2. \A k \in 1 .. m - 1 : gg[k] <= ff[k + 1]
      BY <2>4, <2>6, <2>11, <2>13
    <3>3. /\ \A k \in 1 .. m : w[k] = gg[k] - ff[k]
          /\ \A k \in 1 .. m - 1 : gg[k] = ff[k + 1]
      BY <2>11, <2>13
    <3> QED
      BY <2>1, <2>5, <2>6, <3>1, <3>2, <3>3, Telescope
  <2>14. f[1] \in Nat /\ g[m] \in Nat /\ SumOf(c) \in Nat
    BY <2>1, <2>5, SumNat
  <2>15. f[1] <= b
    <3>1. 1 \in 1 .. m
      BY <2>1
    <3>2. f[1] = hIntervals[1].from /\ hIntervals[1].from <= hIntervals[1].to
          /\ hIntervals[1].to <= b /\ hIntervals[1].from \in Nat /\ hIntervals[1].to \in Nat
      BY <1>2, <2>2, <3>1 DEF f
    <3> QED
      BY <1>1, <3>2
  <2>16. WindowCount <= b - f[1]
    BY <1>1, <2>7, <2>10, <2>12, <2>14
  <2>17. ASSUME hExposed
         PROVE  WindowCount = b - f[1] /\ WindowTotal = Latencies(b) - Latencies(Before)
    BY <2>7, <2>11, <2>12, <2>13, <2>17
  <2> QED
    BY <1>1, <2>10, <2>14, <2>15, <2>16, <2>17 DEF b
<1> QED
  BY <1>5, <1>6

LEMMA TruthFromInv == HistogramInv => WindowTellsTruth
<1> SUFFICES ASSUME HistogramInv, hPrevious # NoSample, hPrevious.at = hNow
             PROVE  /\ WindowCount <= SeenAfter(hNow - Window - MaxGap - MaxDelay)
                    /\ hExposed =>
                         /\ \A t \in {hReset, hNow - Window} :
                              (\A u \in {hReset, hNow - Window} : u <= t)
                                  => WindowCount >= SeenAfter(t)
                         /\ WindowCount > 0 =>
                              /\ \E d \in Seen : WindowTotal <= WindowCount * d
                              /\ \E d \in Seen : WindowTotal >= WindowCount * d
                              /\ LET q == HistogramQuantile IN
                                 q.over \/ (q.num > q.den * q.floor
                                            /\ q.num <= q.den * QuantileBound)
  BY DEF WindowTellsTruth
<1> USE WindowAssumption
<1> DEFINE a == Before
           b == hPrevious.seen
           After(t) == {n \in 1 .. b : hLog[n].at > t}
<1>1. /\ LogInv /\ IntervalsInv /\ CompleteInv
      /\ hNow \in Nat /\ hReset \in Nat /\ Len(hLog) \in Nat
      /\ \A n \in 1 .. Len(hLog) : hLog[n].at \in Nat
  BY Logged DEF HistogramInv, LogInv
<1>2. /\ a \in Nat /\ b \in Nat /\ a <= b /\ b <= Len(hLog) /\ WindowCount <= b - a
      /\ hExposed => WindowCount = b - a /\ WindowTotal = Latencies(b) - Latencies(a)
  BY WindowSums
<1>3. WindowCount \in Nat /\ WindowTotal \in Nat
  BY WindowNumbers
<1>4. \A t : /\ IsFiniteSet(After(t)) /\ Cardinality(After(t)) \in Nat
             /\ SeenAfter(t) = Cardinality(After(t))
  <2>1. ASSUME NEW t PROVE IsFiniteSet(After(t)) /\ Cardinality(After(t)) \in Nat
    <3>1. IsFiniteSet(1 .. b) /\ After(t) \subseteq 1 .. b
      <4>1. 1 \in Int /\ b \in Int
        BY <1>2
      <4>2. IsFiniteSet(1 .. b)
        BY <4>1, FS_Interval
      <4> QED
        BY <4>2
    <3> HIDE DEF After
    <3> QED
      BY <3>1, FS_Subset, FS_CardinalityType
  <2> QED
    BY <2>1 DEF SeenAfter
<1>5. IsFiniteSet(a + 1 .. b) /\ Cardinality(a + 1 .. b) = b - a
  <2>1. a + 1 \in Int /\ b \in Int
    BY <1>2
  <2>2. /\ IsFiniteSet(a + 1 .. b)
        /\ Cardinality(a + 1 .. b) = IF a + 1 > b THEN 0 ELSE b - (a + 1) + 1
    BY <2>1, FS_Interval
  <2> QED
    BY <1>2, <2>2
<1> HIDE DEF a, b
<1>6. WindowCount <= SeenAfter(hNow - Window - MaxGap - MaxDelay)
  <2> DEFINE t == hNow - Window - MaxGap - MaxDelay
  <2>1. CASE hIntervals = << >>
    <3>1. a = b
      BY <2>1 DEF Before, a, b
    <3>2. WindowCount <= 0
      BY <1>2, <1>3, <3>1
    <3> HIDE DEF After, t
    <3>3. SeenAfter(t) \in Nat
      BY <1>4
    <3> QED
      BY <1>3, <3>2, <3>3 DEF t
  <2>2. CASE hIntervals # << >>
    <3>1. a = hIntervals[1].from /\ 1 \in 1 .. Len(hIntervals)
      <4>1. hIntervals \in Seq(Intervals)
        BY <1>1 DEF IntervalsInv
      <4> QED
        BY <2>2, <4>1, EmptySeq DEF Before, a
    <3>2. /\ hIntervals[1].at \in Nat /\ hIntervals[1].at + Window > hNow
          /\ \A n \in a + 1 .. Len(hLog) : hLog[n].at + MaxGap + MaxDelay >= hIntervals[1].at
      BY <3>1, WindowNumbers DEF InWindow, Spans
    <3>3. a + 1 .. b \subseteq After(t)
      <4> SUFFICES ASSUME NEW n \in a + 1 .. b PROVE n \in After(t)
        OBVIOUS
      <4>1. n \in 1 .. b /\ n \in a + 1 .. Len(hLog) /\ n \in 1 .. Len(hLog)
        BY <1>1, <1>2
      <4> DEFINE x == hLog[n].at
                 y == hIntervals[1].at
      <4>2. x \in Nat /\ y \in Nat /\ y + Window > hNow /\ x + MaxGap + MaxDelay >= y
        BY <1>1, <3>2, <4>1
      <4> HIDE DEF x, y
      <4>3. x > hNow - Window - MaxGap - MaxDelay
        <5>1. {hNow, Window, MaxGap, MaxDelay} \subseteq Nat
          BY <1>1
        <5> QED
          BY <4>2, <5>1
      <4> QED
        BY <4>1, <4>3 DEF x
    <3> HIDE DEF After, t
    <3>4. b - a <= Cardinality(After(t))
      BY <1>4, <1>5, <3>3, FS_Subset
    <3>5. SeenAfter(t) = Cardinality(After(t)) /\ Cardinality(After(t)) \in Nat
      BY <1>4
    <3> QED
      BY <1>2, <1>3, <3>4, <3>5 DEF t
  <2> QED
    BY <2>1, <2>2
<1>7. ASSUME hExposed, NEW t \in {hReset, hNow - Window},
             \A u \in {hReset, hNow - Window} : u <= t
      PROVE  WindowCount >= SeenAfter(t)
  <2>1. t \in Int /\ hReset <= t /\ hNow - Window <= t
    BY <1>1, <1>7
  <2>2. \A n \in 1 .. a : hLog[n].at <= hReset \/ hLog[n].at + Window <= hNow
    BY <1>1, <1>7 DEF CompleteInv, a
  <2>3. After(t) \subseteq a + 1 .. b
    <3> SUFFICES ASSUME NEW n \in 1 .. b, hLog[n].at > t, n <= a PROVE FALSE
      BY <1>2
    <3>1. n \in 1 .. Len(hLog) /\ n \in 1 .. a
      BY <1>1, <1>2
    <3> DEFINE x == hLog[n].at
    <3>2. x \in Nat /\ x > t /\ (x <= hReset \/ x + Window <= hNow)
      BY <1>1, <2>2, <3>1
    <3> HIDE DEF x
    <3> QED
      BY <1>1, <2>1, <3>2
  <2> HIDE DEF After
  <2>4. Cardinality(After(t)) <= b - a
    BY <1>4, <1>5, <2>3, FS_Subset
  <2>5. SeenAfter(t) = Cardinality(After(t)) /\ Cardinality(After(t)) \in Nat
    BY <1>4
  <2> QED
    BY <1>2, <1>3, <1>7, <2>4, <2>5
<1>8. ASSUME hExposed, WindowCount > 0
      PROVE  /\ \E d \in Seen : WindowTotal <= WindowCount * d
             /\ \E d \in Seen : WindowTotal >= WindowCount * d
  <2> DEFINE N == Len(hLog)
             s == All
  <2>1. s \in [1 .. N -> Nat] /\ N \in Nat /\ Infinity \in Nat
        /\ \A n \in 1 .. N : s[n] <= Infinity /\ s[n] = hLog[n].ms
    BY <1>1, Logged DEF All
  <2>2. a \in 0 .. N /\ b \in a .. N /\ b \in a + 1 .. N /\ a \in 0 .. N /\ b \in 0 .. N
    BY <1>2, <1>3, <1>8
  <2>3. WindowCount = b - a /\ WindowTotal = Latencies(b) - Latencies(a)
    BY <1>2, <1>8
  <2>4. /\ Latencies(a) = SumOf([n \in 1 .. a |-> s[n]])
        /\ Latencies(b) = SumOf([n \in 1 .. b |-> s[n]])
    BY <1>1, <2>2, CountersAre
  <2> HIDE DEF s, N
  <2>14. /\ \E i \in a + 1 .. b : \A n \in a + 1 .. b : s[i] <= s[n]
         /\ \E j \in a + 1 .. b : \A n \in a + 1 .. b : s[n] <= s[j]
    <3>1. a \in Nat /\ b \in Nat /\ a < b /\ b <= Len(hLog)
      BY <1>2, <1>3, <1>8
    <3> QED
      BY <1>1, <3>1, Extremes DEF s
  <2>5. PICK i \in a + 1 .. b : \A n \in a + 1 .. b : s[i] <= s[n]
    BY <2>14
  <2>15. PICK j \in a + 1 .. b : \A n \in a + 1 .. b : s[n] <= s[j]
    BY <2>14
  <2>6. /\ i \in 1 .. N /\ j \in 1 .. N /\ s[i] \in Nat /\ s[j] \in Nat
        /\ i \in 1 .. b /\ j \in 1 .. b
    BY <1>2, <2>1, <2>2
  <2>7. s[i] \in Seen /\ s[j] \in Seen
    BY <2>1, <2>6 DEF Seen, b
  <2>8. LET A == SumOf([n \in 1 .. a |-> s[n]])
            B == SumOf([n \in 1 .. b |-> s[n]])
        IN  /\ \A lo \in Nat : (\A n \in a + 1 .. b : lo <= s[n]) => (b - a) * lo <= B - A
            /\ \A hi \in Nat : (\A n \in a + 1 .. b : s[n] <= hi) => B - A <= (b - a) * hi
    BY <2>1, <2>2, SumBetween
  <2>9. (b - a) * s[i] <= Latencies(b) - Latencies(a)
    BY <2>4, <2>5, <2>6, <2>8
  <2>10. Latencies(b) - Latencies(a) <= (b - a) * s[j]
    BY <2>4, <2>6, <2>8, <2>15
  <2>11. WindowCount * s[i] <= WindowTotal /\ WindowTotal <= WindowCount * s[j]
    BY <2>3, <2>9, <2>10
  <2>12. WindowCount * s[i] \in Nat
    BY <1>3, <2>6
  <2> QED
    BY <1>3, <2>7, <2>11, <2>12
<1>9. ASSUME WindowCount > 0
      PROVE  LET q == HistogramQuantile
             IN  q.over \/ (q.num > q.den * q.floor /\ q.num <= q.den * QuantileBound)
  BY <1>9, WindowNumbers, QuantileInBucket
<1> QED
  BY <1>6, <1>7, <1>8, <1>9

(* The invariant says what the types need.                                  *)
LEMMA HistogramTyped == HistogramInv => HistogramTypeOK
<1> SUFFICES ASSUME HistogramInv PROVE HistogramTypeOK
  OBVIOUS
<1>1. /\ LogInv /\ PreviousInv /\ IntervalsInv /\ DOMAIN hLog = 1 .. Len(hLog)
      /\ \A n \in 1 .. Len(hLog) : hLog[n].at \in Nat /\ hLog[n].ms \in Durations
  BY Logged DEF HistogramInv
<1>2. hNow \in 0 .. MaxTime /\ hLife \in Nat /\ hReset \in 0 .. MaxTime
  BY <1>1, WindowAssumption DEF LogInv
<1>3. \A n \in DOMAIN hLog : hLog[n].at \in 0 .. hNow /\ hLog[n].ms \in Durations
  BY <1>1 DEF LogInv
<1>4. ASSUME NEW n \in DOMAIN hIntervals
      PROVE  /\ hIntervals[n].count > 0 /\ hIntervals[n].at \in 0 .. hNow
             /\ hIntervals[n].buckets[Infinity] = hIntervals[n].count
  <2>1. /\ Len(hIntervals) \in Nat /\ n \in 1 .. Len(hIntervals) /\ hIntervals[n].at \in Nat
        /\ InWindow(hIntervals[n])
    BY <1>4, WindowNumbers
  <2>2. hIntervals # << >>
    BY <2>1
  <2>3. hPrevious # NoSample
    BY <1>1, <2>2 DEF PreviousInv
  <2>4. hPrevious.at \in Nat /\ hPrevious.at <= hNow /\ hNow \in Nat
    BY <1>1, <2>3 DEF PreviousInv, Sampled, Samples, LogInv
  <2> QED
    BY <2>1, <2>4 DEF InWindow, Spans
<1> QED
  BY <1>2, <1>3, <1>4 DEF HistogramTypeOK

(* The window of a service, the answer collect() waits with and what was    *)
(* logged are what they should be: no interval is empty, none is of later   *)
(* than now, and its last bucket counts all of it (HistogramWindow.update). *)
THEOREM WindowTyped == HistogramSpec => []HistogramTypeOK
  BY HistogramTyped, HistogramInitInv, HistogramNextInv, PTL DEF HistogramSpec

(* Whatever restarts, gaps and slow answers there were, the window counts   *)
(* nothing older than it says and, of a service that publishes its start    *)
(* time, misses nothing since its last reset; its average lies among the    *)
(* latencies observed and its 95th percentile in the bucket that holds it   *)
(* (HistogramWindow, histogram_quantile, Collector.collect).                *)
THEOREM WindowTrue == HistogramSpec => []WindowTellsTruth
  BY HistogramInitInv, HistogramNextInv, TruthFromInv, PTL DEF HistogramSpec

-----------------------------------------------------------------------------
(* The types of the other machines, and all of them side by side.           *)

(* The files are what the programs leave there.                             *)
FilesTyped ==
    /\ pKey \in KeyContents /\ pVoice \in Contents /\ pDraft \in Contents
    /\ pFile \in [Programs -> {"none", "draft", "voice", "gone"}]
    /\ pOverlapped \in BOOLEAN

(* A step that touches none of them.                                        *)
LEMMA FilesKept ==
    ASSUME FilesTyped, UNCHANGED <<pKey, voiceVars>>
    PROVE  FilesTyped'
  BY DEF FilesTyped, voiceVars

(* A program goes where a program can be, with what it can hold.            *)
LEMMA ProgramTyped ==
    ASSUME ProvisioningTypeOK, NEW p \in Programs, NEW step \in Steps0,
           NEW token \in {"none", "empty"} \cup Programs, NEW wav \in {"none", "pinned", "other"},
           step = "off" => token = "none" /\ wav = "none",
           pAt' = [pAt EXCEPT ![p] = step], pToken' = [pToken EXCEPT ![p] = token],
           pLoaded' = [pLoaded EXCEPT ![p] = wav],
           FilesTyped'
    PROVE  ProvisioningTypeOK'
<1>1. /\ pAt \in [Programs -> Steps0] /\ pToken \in [Programs -> {"none", "empty"} \cup Programs]
      /\ pLoaded \in [Programs -> {"none", "pinned", "other"}]
      /\ \A q \in Programs : pAt[q] = "off" => pToken[q] = "none" /\ pLoaded[q] = "none"
  BY DEF ProvisioningTypeOK
<1>2. /\ pAt' \in [Programs -> Steps0] /\ pToken' \in [Programs -> {"none", "empty"} \cup Programs]
      /\ pLoaded' \in [Programs -> {"none", "pinned", "other"}]
  BY <1>1
<1>3. /\ pAt'[p] = step /\ pToken'[p] = token /\ pLoaded'[p] = wav
      /\ \A q \in Programs \ {p} :
            pAt'[q] = pAt[q] /\ pToken'[q] = pToken[q] /\ pLoaded'[q] = pLoaded[q]
  BY <1>1
<1>4. \A q \in Programs : pAt'[q] = "off" => pToken'[q] = "none" /\ pLoaded'[q] = "none"
  BY <1>1, <1>3
<1> QED
  BY <1>2, <1>4 DEF ProvisioningTypeOK, FilesTyped

LEMMA ProceedsTyped ==
    ASSUME ProvisioningTypeOK, NEW p \in Programs, NEW step \in Steps0, step # "off",
           Proceeds(p, step), FilesTyped'
    PROVE  ProvisioningTypeOK'
<1>1. /\ pToken \in [Programs -> {"none", "empty"} \cup Programs]
      /\ pLoaded \in [Programs -> {"none", "pinned", "other"}]
  BY DEF ProvisioningTypeOK
<1>2. /\ pAt' = [pAt EXCEPT ![p] = step] /\ pToken' = [pToken EXCEPT ![p] = pToken[p]]
      /\ pLoaded' = [pLoaded EXCEPT ![p] = pLoaded[p]]
      /\ pToken[p] \in {"none", "empty"} \cup Programs /\ pLoaded[p] \in {"none", "pinned", "other"}
  BY <1>1 DEF Proceeds
<1> QED
  BY <1>2, ProgramTyped

LEMMA QuitsTyped ==
    ASSUME ProvisioningTypeOK, NEW p \in Programs, Quits(p),
           FilesTyped'
    PROVE  ProvisioningTypeOK'
<1>1. /\ pAt' = [pAt EXCEPT ![p] = "off"] /\ pToken' = [pToken EXCEPT ![p] = "none"]
      /\ pLoaded' = [pLoaded EXCEPT ![p] = "none"]
      /\ "off" \in Steps0 /\ "none" \in {"none", "empty"} \cup Programs
      /\ "none" \in {"none", "pinned", "other"}
  BY DEF Quits, Steps0
<1> QED
  BY <1>1, ProgramTyped

LEMMA ProvisioningNextTyped ==
    ProvisioningTypeOK /\ [ProvisioningNext]_provisioningVars => ProvisioningTypeOK'
<1> SUFFICES ASSUME ProvisioningTypeOK, [ProvisioningNext]_provisioningVars
             PROVE  ProvisioningTypeOK'
  OBVIOUS
<1>1. /\ FilesTyped
      /\ pAt \in [Programs -> Steps0] /\ pToken \in [Programs -> {"none", "empty"} \cup Programs]
      /\ pLoaded \in [Programs -> {"none", "pinned", "other"}]
  BY DEF ProvisioningTypeOK, FilesTyped
<1>2. CASE UNCHANGED provisioningVars
  BY <1>2 DEF provisioningVars, programVars, voiceVars, ProvisioningTypeOK
<1>3. ASSUME NEW p \in Programs,
             \/ Launch(p) \/ Ended(p) \/ Config(p) \/ PortProbe(p)
             \/ KeyExists(p) \/ Create(p) \/ WriteKey(p) \/ Validate(p)
             \/ LoadRuntimeConfig(p) \/ ReadKey(p) \/ LoadEngine(p)
             \/ Derive(p) \/ Save(p) \/ Compare(p) \/ Discard(p) \/ PublishVoice(p)
      PROVE  ProvisioningTypeOK'
  <2>1. CASE Launch(p)
    <3>1. FirstStep[Role[p]] \in Steps0 /\ FirstStep[Role[p]] # "off"
      <4>1. Role[p] \in {"service", "init", "gateway", "monitor", "voice"}
        BY ProvisioningAssumption
      <4> QED
        BY <4>1 DEF FirstStep, Steps0
    <3> QED
      BY <1>1, <2>1, <3>1, ProceedsTyped, FilesKept DEF Launch
  <2>2. CASE Ended(p)
    <3>1. FilesTyped'
      BY <1>1, <2>2 DEF Ended, FilesTyped
    <3> QED
      BY <2>2, <3>1, QuitsTyped DEF Ended
  <2>3. CASE Config(p)
    <3>1. "probe" \in Steps0
      BY DEF Steps0
    <3> QED
      BY <1>1, <2>3, <3>1, ProceedsTyped, FilesKept DEF Config
  <2>4. CASE PortProbe(p)
    <3>1. "exists" \in Steps0
      BY DEF Steps0
    <3> QED
      BY <1>1, <2>4, <3>1, ProceedsTyped, FilesKept DEF PortProbe
  <2>5. CASE KeyExists(p)
    <3> DEFINE step == IF pKey = "absent" THEN "create" ELSE "validate"
    <3>1. step \in Steps0 /\ step # "off"
      BY DEF Steps0
    <3>2. /\ Proceeds(p, step) /\ FilesTyped'
      BY <1>1, <2>5, FilesKept DEF KeyExists
    <3> HIDE DEF step
    <3> QED
      BY <3>1, <3>2, ProceedsTyped
  <2>6. CASE Create(p)
    <3>1. "write" \in Steps0 /\ "empty" \in KeyContents
      BY DEF Steps0, KeyContents
    <3>2. CASE pKey = "absent"
      <4>1. Proceeds(p, "write") /\ FilesTyped'
        BY <1>1, <2>6, <3>1, <3>2 DEF Create, FilesTyped, voiceVars
      <4> QED
        BY <3>1, <4>1, ProceedsTyped
    <3>3. CASE pKey # "absent"
      BY <1>1, <2>6, <3>3, QuitsTyped, FilesKept DEF Create
    <3> QED
      BY <3>2, <3>3
  <2>7. CASE WriteKey(p)
    <3>1. "validate" \in Steps0 /\ p \in KeyContents
      BY DEF Steps0, KeyContents
    <3> QED
      <4>1. Proceeds(p, "validate") /\ FilesTyped'
        BY <1>1, <2>7, <3>1 DEF WriteKey, FilesTyped, voiceVars
      <4> QED
        BY <3>1, <4>1, ProceedsTyped
  <2>8. CASE Validate(p)
    <3>1. "runtime" \in Steps0 /\ "up" \in Steps0
      BY DEF Steps0
    <3>2. /\ pKey \in Programs /\ FilesTyped'
      BY <1>1, <2>8, FilesKept DEF Validate
    <3>3. CASE Role[p] = "service"
      <4>1. Proceeds(p, "runtime")
        BY <2>8, <3>3 DEF Validate
      <4> QED
        BY <3>1, <3>2, <4>1, ProceedsTyped
    <3>4. CASE Role[p] = "gateway"
      <4>1. /\ pAt' = [pAt EXCEPT ![p] = "up"] /\ pToken' = [pToken EXCEPT ![p] = pKey]
            /\ pLoaded' = [pLoaded EXCEPT ![p] = pLoaded[p]]
            /\ pLoaded[p] \in {"none", "pinned", "other"} /\ pKey \in {"none", "empty"} \cup Programs
        BY <1>1, <2>8, <3>2, <3>4 DEF Validate
      <4> QED
        BY <3>1, <3>2, <4>1, ProgramTyped
    <3>5. CASE Role[p] # "service" /\ Role[p] # "gateway"
      <4>1. Quits(p)
        BY <2>8, <3>5 DEF Validate
      <4> QED
        BY <3>2, <4>1, QuitsTyped
    <3> QED
      BY <3>3, <3>4, <3>5
  <2>9. CASE LoadRuntimeConfig(p)
    <3>1. "key" \in Steps0
      BY DEF Steps0
    <3> QED
      BY <1>1, <2>9, <3>1, ProceedsTyped, FilesKept DEF LoadRuntimeConfig
  <2>10. CASE ReadKey(p)
    <3> DEFINE step == IF Role[p] = "service" THEN "load" ELSE "up"
    <3>1. step \in Steps0 /\ step # "off"
      BY DEF Steps0
    <3>2. /\ pAt' = [pAt EXCEPT ![p] = step] /\ pToken' = [pToken EXCEPT ![p] = pKey]
          /\ pLoaded' = [pLoaded EXCEPT ![p] = pLoaded[p]]
          /\ pLoaded[p] \in {"none", "pinned", "other"} /\ pKey \in {"none", "empty"} \cup Programs
          /\ FilesTyped'
      BY <1>1, <2>10, FilesKept DEF ReadKey, KeyContents, FilesTyped
    <3> HIDE DEF step
    <3> QED
      BY <3>1, <3>2, ProgramTyped
  <2>11. CASE LoadEngine(p)
    <3>1. /\ pAt' = [pAt EXCEPT ![p] = "up"] /\ pToken' = [pToken EXCEPT ![p] = pToken[p]]
          /\ pLoaded' = [pLoaded EXCEPT ![p] = pVoice]
          /\ pVoice \in {"none", "pinned", "other"} /\ pToken[p] \in {"none", "empty"} \cup Programs
          /\ FilesTyped'
      BY <1>1, <2>11, FilesKept DEF LoadEngine, FilesTyped, Contents
    <3>2. "up" \in Steps0
      BY DEF Steps0
    <3> QED
      BY <3>1, <3>2, ProgramTyped
  <2>12. CASE Derive(p)
    <3>1. "saving" \in Steps0
      BY DEF Steps0
    <3>2. Proceeds(p, "saving") /\ FilesTyped'
      BY <1>1, <2>12 DEF Derive, FilesTyped, Contents
    <3> QED
      BY <3>1, <3>2, ProceedsTyped
  <2>13. CASE Save(p)
    <3>1. "saved" \in Steps0
      BY DEF Steps0
    <3>2. Proceeds(p, "saved") /\ FilesTyped'
      BY <1>1, <2>13 DEF Save, FilesTyped, Contents
    <3> QED
      BY <3>1, <3>2, ProceedsTyped
  <2>14. CASE Compare(p)
    <3>1. FilesTyped'
      BY <1>1, <2>14, FilesKept DEF Compare
    <3>2. CASE pDraft \in {"pinned", "other"}
      <4>1. PICK step \in {"publish", "discard"} : Proceeds(p, step)
        BY <2>14, <3>2 DEF Compare
      <4> QED
        BY <3>1, <4>1, ProceedsTyped DEF Steps0
    <3>3. CASE pDraft \notin {"pinned", "other"}
      BY <2>14, <3>1, <3>3, QuitsTyped DEF Compare
    <3> QED
      BY <3>2, <3>3
  <2>15. CASE Discard(p)
    <3>1. Quits(p) /\ FilesTyped'
      BY <1>1, <2>15 DEF Discard, FilesTyped, Contents
    <3> QED
      BY <3>1, QuitsTyped
  <2>16. CASE PublishVoice(p)
    <3>1. Quits(p) /\ FilesTyped'
      BY <1>1, <2>16 DEF PublishVoice, FilesTyped, voiceVars, Contents
    <3> QED
      BY <3>1, QuitsTyped
  <2> QED
    BY <1>3, <2>1, <2>2, <2>3, <2>4, <2>5, <2>6, <2>7, <2>8, <2>9, <2>10, <2>11, <2>12, <2>13,
       <2>14, <2>15, <2>16
<1> QED
  BY <1>2, <1>3 DEF ProvisioningNext

LEMMA ProvisioningInitTyped == ProvisioningInit => ProvisioningTypeOK
<1> SUFFICES ASSUME ProvisioningInit PROVE ProvisioningTypeOK
  OBVIOUS
<1>1. pKey \in KeyContents /\ pVoice \in Contents /\ pDraft \in Contents
      /\ pOverlapped \in BOOLEAN
  BY DEF ProvisioningInit, KeyContents, Contents
<1>2. pFile \in [Programs -> {"none", "draft", "voice", "gone"}]
  BY DEF ProvisioningInit
<1>3. pAt \in [Programs -> Steps0]
  BY DEF ProvisioningInit, Steps0
<1>4. /\ pToken \in [Programs -> {"none", "empty"} \cup Programs]
      /\ pLoaded \in [Programs -> {"none", "pinned", "other"}]
  BY DEF ProvisioningInit
<1>5. \A p \in Programs : pAt[p] = "off" => pToken[p] = "none" /\ pLoaded[p] = "none"
  BY DEF ProvisioningInit
<1> QED
  BY <1>1, <1>2, <1>3, <1>4, <1>5 DEF ProvisioningTypeOK

(* A program that is not running holds nothing, and the files are never     *)
(* anything but what the programs leave there (init_key, prepare_voice).    *)
THEOREM ProvisioningTyped == ProvisioningSpec => []ProvisioningTypeOK
  BY ProvisioningInitTyped, ProvisioningNextTyped, PTL DEF ProvisioningSpec

(* The service has no more calls in its hands than it has threads.          *)
ServedInv == DetectorTypeOK /\ IsFiniteSet(Served)

(* A step of a handler takes a thread only while one is free.               *)
LEMMA ServesTyped ==
    ASSUME ServedInv, NEW s \in Streams, NEW next \in Call, Serves(s, next),
           next.at \in {"next", "received", "submitted", "responds"} =>
              s \in Served \/ Cardinality(Served) < Workers
    PROVE  ServedInv'
<1>1. /\ dCalls \in [Streams -> Call] /\ dCalls' = [dCalls EXCEPT ![s] = next]
      /\ IsFiniteSet(Served) /\ Cardinality(Served) <= Workers
      /\ UNCHANGED <<dMain, dSignal, dHealth, dServer, dSched>>
  BY DEF ServedInv, DetectorTypeOK, Serves
<1>2. dCalls' \in [Streams -> Call] /\ dCalls'[s] = next
      /\ \A t \in Streams \ {s} : dCalls'[t] = dCalls[t]
  BY <1>1
<1>3. Workers \in Nat /\ Cardinality(Served) \in Nat
  BY <1>1, DetectorAssumption, FS_CardinalityType
<1>4. IsFiniteSet(Served') /\ Cardinality(Served') <= Workers
  <2>1. CASE next.at \in {"next", "received", "submitted", "responds"} /\ s \notin Served
    <3>1. Served' \subseteq Served \cup {s}
      BY <1>2 DEF Served
    <3>2. IsFiniteSet(Served \cup {s}) /\ Cardinality(Served \cup {s}) = Cardinality(Served) + 1
      BY <1>1, <2>1, FS_AddElement
    <3>3. Cardinality(Served \cup {s}) <= Workers
      BY <1>3, <2>1, <3>2
    <3>4. IsFiniteSet(Served') /\ Cardinality(Served') <= Cardinality(Served \cup {s})
      BY <3>1, <3>2, FS_Subset
    <3>5. Cardinality(Served') \in Nat
      BY <3>4, FS_CardinalityType
    <3> QED
      BY <1>3, <3>2, <3>3, <3>4, <3>5
  <2>2. CASE ~(next.at \in {"next", "received", "submitted", "responds"} /\ s \notin Served)
    <3>1. Served' \subseteq Served
      BY <1>2, <2>2 DEF Served
    <3>2. IsFiniteSet(Served') /\ Cardinality(Served') <= Cardinality(Served)
      BY <1>1, <3>1, FS_Subset
    <3>3. Cardinality(Served') \in Nat
      BY <3>2, FS_CardinalityType
    <3> QED
      BY <1>1, <1>3, <3>2, <3>3
  <2> QED
    BY <2>1, <2>2
<1> QED
  BY <1>1, <1>2, <1>4 DEF ServedInv, DetectorTypeOK

LEMMA ServedNextInv == ServedInv /\ [DetectorNext]_detectorVars => ServedInv'
<1> SUFFICES ASSUME ServedInv, [DetectorNext]_detectorVars PROVE ServedInv'
  OBVIOUS
<1> USE DetectorAssumption
<1>1. CASE UNCHANGED detectorVars
  BY <1>1 DEF detectorVars, ServedInv, DetectorTypeOK, Served
<1>2. CASE MainStep \/ Signal
  <2>1. UNCHANGED dCalls
    BY <1>2 DEF MainStep, Signal, SetLive, StartScheduler, StartGrpc, StartFails, Announce,
       BeginStop, Unready, StopGrpc, WaitGrpc, CloseScheduler, SetDead
  <2>2. Served' = Served
    BY <2>1 DEF Served
  <2>3. /\ dMain \in StartSteps \cup StopSteps \cup {"runs", "returned", "raised"}
        /\ dSignal \in BOOLEAN /\ dServer \in {"off", "open", "stopping", "cancelled"}
        /\ dSched \in {"new", "open", "closed"}
        /\ dHealth \in [live : BOOLEAN, ready : BOOLEAN, serving : BOOLEAN, http : BOOLEAN]
    BY DEF ServedInv, DetectorTypeOK
  <2>4. /\ dMain' \in StartSteps \cup StopSteps \cup {"runs", "returned", "raised"}
        /\ dSignal' \in BOOLEAN /\ dServer' \in {"off", "open", "stopping", "cancelled"}
        /\ dSched' \in {"new", "open", "closed"}
        /\ dHealth' \in [live : BOOLEAN, ready : BOOLEAN, serving : BOOLEAN, http : BOOLEAN]
    BY <1>2, <2>3 DEF MainStep, Signal, SetLive, StartScheduler, StartGrpc, StartFails, Announce,
       BeginStop, Unready, StopGrpc, WaitGrpc, CloseScheduler, SetDead, StartSteps, StopSteps
  <2> QED
    BY <2>1, <2>2, <2>4 DEF ServedInv, DetectorTypeOK
<1>3. CASE GraceEnds
  <2>1. dCalls \in [Streams -> Call]
    BY DEF ServedInv, DetectorTypeOK
  <2>2. dCalls' \in [Streams -> Call] /\ \A s \in Streams : dCalls'[s].at = dCalls[s].at
    BY <1>3, <2>1 DEF GraceEnds, Call
  <2>3. Served' = Served
    BY <2>2 DEF Served
  <2> QED
    BY <1>3, <2>2, <2>3 DEF GraceEnds, ServedInv, DetectorTypeOK
<1>4. ASSUME NEW s \in Streams,
             \/ Opens(s) \/ RequireAuthentication(s) \/ RequestsEnd(s) \/ Receives(s)
             \/ Submit(s) \/ Answered(s) \/ Responds(s) \/ Cancels(s)
      PROVE  ServedInv'
  <2>1. PICK next \in Call :
           /\ Serves(s, next)
           /\ next.at \in {"next", "received", "submitted", "responds"} =>
                 s \in Served \/ Cardinality(Served) < Workers
    <3>1. dCalls[s] \in Call
      BY DEF ServedInv, DetectorTypeOK
    <3>2. CASE Opens(s)
      BY <3>1, <3>2 DEF Opens, Call
    <3>3. CASE RequireAuthentication(s)
      BY <3>1, <3>3 DEF RequireAuthentication, Call
    <3>4. CASE RequestsEnd(s)
      BY <3>1, <3>4 DEF RequestsEnd, Call
    <3>5. CASE Receives(s)
      <4> DEFINE next == [dCalls[s] EXCEPT !.at = "received", !.frames = @ + 1]
      <4>1. Serves(s, next) /\ s \in Served
        BY <3>5 DEF Receives, Served
      <4>2. next \in Call
        <5>1. dCalls[s].frames + 1 \in 0 .. MaxFrames
          BY <3>1, <3>5 DEF Receives, Call
        <5> QED
          BY <3>1, <5>1 DEF Call
      <4> QED
        BY <4>1, <4>2
    <3>6. CASE Submit(s)
      BY <3>1, <3>6 DEF Submit, Says, Call, Codes, Served
    <3>7. CASE Answered(s)
      BY <3>1, <3>7 DEF Answered, Says, Call, Codes, Served
    <3>8. CASE Responds(s)
      BY <3>1, <3>8 DEF Responds, Call, Served
    <3>9. CASE Cancels(s)
      <4> DEFINE next == [dCalls[s] EXCEPT !.cancelled = TRUE]
      <4>1. Serves(s, next)
        BY <3>9 DEF Cancels
      <4>2. next \in Call /\ next.at = dCalls[s].at
        BY <3>1 DEF Call
      <4>3. next.at \in {"next", "received", "submitted", "responds"} => s \in Served
        BY <4>2 DEF Served
      <4> QED
        BY <4>1, <4>2, <4>3
    <3> QED
      BY <1>4, <3>2, <3>3, <3>4, <3>5, <3>6, <3>7, <3>8, <3>9
  <2> QED
    BY <2>1, ServesTyped
<1> QED
  BY <1>1, <1>2, <1>3, <1>4 DEF DetectorNext

LEMMA ServedInitInv == DetectorInit => ServedInv
<1> SUFFICES ASSUME DetectorInit PROVE ServedInv
  OBVIOUS
<1>1. dCalls \in [Streams -> Call] /\ \A s \in Streams : dCalls[s].at = "none"
  BY DetectorAssumption DEF DetectorInit, Call, Codes
<1>2. Served = {}
  BY <1>1 DEF Served
<1>3. IsFiniteSet(Served) /\ Cardinality(Served) = 0
  BY <1>2, FS_EmptySet
<1>4. Cardinality(Served) <= Workers
  BY <1>3, DetectorAssumption
<1>5. /\ dMain \in StartSteps /\ dSignal \in BOOLEAN /\ dServer = "off" /\ dSched = "new"
      /\ dHealth \in [live : BOOLEAN, ready : BOOLEAN, serving : BOOLEAN, http : BOOLEAN]
  BY DEF DetectorInit, StartSteps
<1> QED
  BY <1>1, <1>3, <1>4, <1>5 DEF ServedInv, DetectorTypeOK

(* The detector serves no more calls at once than its pool has threads, for *)
(* any number of streams (grpc_server.py, ThreadPoolExecutor(grpc_workers)).*)
THEOREM DetectorTyped == DetectorSpec => []DetectorTypeOK
<1>1. ServedInv => DetectorTypeOK
  BY DEF ServedInv
<1> QED
  BY <1>1, ServedInitInv, ServedNextInv, PTL DEF DetectorSpec

(* What each machine keeps while a behaviour is about it.                   *)
MachinesInv ==
    /\ machine \in {"manager", "routes", "files", "detector", "window", "text", "frames"}
    /\ machine = "manager" => Inv
    /\ machine = "routes" => RoutesInv
    /\ machine = "files" => ProvisionInv /\ ProvisioningTypeOK
    /\ machine = "detector" => ServedInv
    /\ machine = "window" => HistogramInv
    /\ machine = "text" => TextInv
    /\ machine = "frames" => PacedInv

LEMMA MachinesInitInv == MachinesInit => MachinesInv
<1> SUFFICES ASSUME MachinesInit PROVE MachinesInv
  OBVIOUS
<1>1. /\ machine \in {"manager", "routes", "files", "detector", "window", "text", "frames"}
      /\ Init /\ DetectorInit /\ PacedInit /\ ProvisioningInit /\ HistogramInit
      /\ machine = "routes" => RoutesInit
      /\ machine = "text" => TextInit
  BY DEF MachinesInit
<1> QED
  BY <1>1, InitInv, RoutesInitInv, InitProvision, ProvisioningInitTyped, ServedInitInv,
     HistogramInitInv, TextInitInv, PacedInitInv DEF MachinesInv

(* A step of one machine leaves "machine" alone, so that nothing is said of *)
(* the others.                                                              *)
LEMMA MachinesNextInv ==
    /\ MachinesInv
    /\ [MachinesNext]_<<machine, vars, routesVars, provisioningVars, detectorVars, histogramVars,
                        textVars, pacedVars>>
    => MachinesInv'
<1> SUFFICES ASSUME MachinesInv,
                    [MachinesNext]_<<machine, vars, routesVars, provisioningVars, detectorVars,
                                     histogramVars, textVars, pacedVars>>
             PROVE  MachinesInv'
  OBVIOUS
<1>1. machine' = machine
      /\ machine \in {"manager", "routes", "files", "detector", "window", "text", "frames"}
  BY DEF MachinesNext, ManagerStep, RoutesStep, FilesStep, DetectorStep, WindowStep, TextStep,
     FramesStep, MachinesInv
<1>2. ASSUME machine = "manager" PROVE Inv'
  <2>1. Inv /\ [Next]_vars
    BY <1>2 DEF MachinesInv, MachinesNext, ManagerStep, RoutesStep, FilesStep, DetectorStep,
       WindowStep, TextStep, FramesStep
  <2> QED
    BY <2>1, NextInv
<1>3. ASSUME machine = "routes" PROVE RoutesInv'
  <2>1. RoutesInv /\ [RoutesNext]_routesVars
    BY <1>3 DEF MachinesInv, MachinesNext, ManagerStep, RoutesStep, FilesStep, DetectorStep,
       WindowStep, TextStep, FramesStep
  <2> QED
    BY <2>1, RoutesNextInv
<1>4. ASSUME machine = "files" PROVE ProvisionInv' /\ ProvisioningTypeOK'
  <2>1. ProvisionInv /\ ProvisioningTypeOK /\ [ProvisioningNext]_provisioningVars
    BY <1>4 DEF MachinesInv, MachinesNext, ManagerStep, RoutesStep, FilesStep, DetectorStep,
       WindowStep, TextStep, FramesStep
  <2> QED
    BY <2>1, NextProvision, ProvisioningNextTyped
<1>5. ASSUME machine = "detector" PROVE ServedInv'
  <2>1. ServedInv /\ [DetectorNext]_detectorVars
    BY <1>5 DEF MachinesInv, MachinesNext, ManagerStep, RoutesStep, FilesStep, DetectorStep,
       WindowStep, TextStep, FramesStep
  <2> QED
    BY <2>1, ServedNextInv
<1>6. ASSUME machine = "window" PROVE HistogramInv'
  <2>1. HistogramInv /\ [HistogramNext]_histogramVars
    BY <1>6 DEF MachinesInv, MachinesNext, ManagerStep, RoutesStep, FilesStep, DetectorStep,
       WindowStep, TextStep, FramesStep
  <2> QED
    BY <2>1, HistogramNextInv
<1>7. ASSUME machine = "text" PROVE TextInv'
  <2>1. TextInv /\ [TextNext]_textVars
    BY <1>7 DEF MachinesInv, MachinesNext, ManagerStep, RoutesStep, FilesStep, DetectorStep,
       WindowStep, TextStep, FramesStep
  <2> QED
    BY <2>1, TextNextInv
<1>8. ASSUME machine = "frames" PROVE PacedInv'
  <2>1. PacedInv /\ [PacedNext]_pacedVars
    BY <1>8 DEF MachinesInv, MachinesNext, ManagerStep, RoutesStep, FilesStep, DetectorStep,
       WindowStep, TextStep, FramesStep
  <2> QED
    BY <2>1, PacedNextInv
<1> QED
  BY <1>1, <1>2, <1>3, <1>4, <1>5, <1>6, <1>7, <1>8 DEF MachinesInv

(* Whichever of the machines around the sessions runs, its state stays of   *)
(* its type, for any number of managers, requests, programs, streams, times *)
(* and characters (service.py, prepare_configs.py, application.py,          *)
(* telemetry.py, text.py, client.py).                                       *)
THEOREM MachinesTyped == MachinesSpec => []MachinesTypeOK
<1>1. MachinesInv => MachinesTypeOK
  <2>1. Inv => TypeOK
    BY DEF Inv
  <2>2. RoutesInv => RoutesTypeOK
    BY DEF RoutesInv, Shaped, Responses, RoutesTypeOK
  <2>3. ServedInv => DetectorTypeOK
    BY DEF ServedInv
  <2> QED
    BY <2>1, <2>2, <2>3, HistogramTyped, TextTyped, PacedTyped DEF MachinesInv, MachinesTypeOK
<1> QED
  BY <1>1, MachinesInitInv, MachinesNextInv, PTL DEF MachinesSpec

=============================================================================

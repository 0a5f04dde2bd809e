-------------------------- MODULE SegmentPipeline --------------------------
(***************************************************************************)
(* One WebSocket session of the 300M TTS backend,                          *)
(* tts_300m_sft_service/scripts/cosyvoice300m_session.py.                  *)
(*                                                                         *)
(* Three asyncio tasks share the pipeline: the receiver takes the client's *)
(* messages, the worker synthesizes one segment after the other, and the   *)
(* supervisor (serve_session) waits for either to end, stops the other and *)
(* reports.  Code between two awaits is one action; the pipeline lock is   *)
(* visible where a task keeps it over an await, which is while it writes   *)
(* to the socket.  next() on the vendor generator runs in a thread.        *)
(***************************************************************************)
EXTENDS Naturals, Sequences, SequencesExt, FiniteSets

CONSTANTS
    Ids,            \* segment IDs the client may use
    None,           \* no segment
    Size,           \* characters of the text sent under each ID
    MaxQueued,      \* max_queued_segments
    MaxCharacters,  \* max_queued_characters
    MaxChunks,      \* bound: PCM chunks one segment produces
    MaxMessages     \* bound: messages the peer sends

ASSUME IdsAssumption == None \notin Ids
ASSUME BoundsAssumption ==
    /\ Size \in [Ids -> Nat]
    /\ MaxQueued \in Nat /\ MaxCharacters \in Nat
    /\ MaxChunks \in Nat /\ MaxMessages \in Nat

VARIABLES
    inbox,        \* the client's messages not yet received
    said,         \* how many messages the client has sent
    connected,    \* the client is still there
    wire,         \* the latest event written to the socket, see After
    acceptedIds,  \* accepted_ids
    pending,      \* pending
    pendingChars, \* pending_characters
    active,       \* active
    started,      \* started
    cancelled,    \* cancelled
    stopping,     \* stopping
    ready,        \* ready
    lock,         \* the task that keeps the pipeline lock over an await
    receiver,     \* where the receiver is
    message,      \* the message the receiver is handling
    receiverEnd,  \* how the receiver ended
    worker,       \* where the worker is
    workerEnd,    \* how the worker ended
    generator,    \* the segment whose vendor generator is open
    chunks,       \* chunks the open generator has produced
    ending,       \* the closing event the worker is about to send
    supervisor,   \* where serve_session is
    closeCode,    \* the WebSocket close code sent, 0 for none
    slot          \* the engine slot is held

queueVars  == <<acceptedIds, pending, pendingChars, active>>
flagVars   == <<started, cancelled, stopping, ready>>
recvVars   == <<receiver, message, receiverEnd>>
workVars   == <<worker, workerEnd, generator, chunks, ending>>
superVars  == <<supervisor, closeCode, slot>>
peerVars   == <<inbox, said, connected>>
vars == <<peerVars, wire, queueVars, flagVars, lock, recvVars, workVars,
          superVars>>

SegmentMessage(i, ok) == [kind |-> "segment", id |-> i, ok |-> ok]
CancelMessage(i)      == [kind |-> "cancel", id |-> i, ok |-> TRUE]
CloseMessage          == [kind |-> "close", id |-> None, ok |-> TRUE]
JunkMessage           == [kind |-> "junk", id |-> None, ok |-> FALSE]
NoMessage             == [kind |-> "none", id |-> None, ok |-> FALSE]

Messages == {SegmentMessage(i, ok) : i \in Ids, ok \in BOOLEAN}
            \cup {CancelMessage(i) : i \in Ids} \cup {CloseMessage, JunkMessage}

Failures       == {"input_timeout", "output_timeout", "session_failed", "inference_failed"}

(* The socket: a new write replaces the event on it and flips odd, so that  *)
(* writing the same event twice shows as two writes.                        *)
EventKinds    == {"created", "accepted", "start", "audio", "done", "cancelled", "rejected",
                  "error", "fatal"}
Event         == [kind : EventKinds, id : Ids \cup {None}]
After(w, k, i) == [event |-> [kind |-> k, id |-> i], odd |-> ~w.odd]

TypeOK ==
    /\ inbox \in Seq(Messages)
    /\ said \in 0 .. MaxMessages
    /\ connected \in BOOLEAN
    /\ wire \in [event : Event, odd : BOOLEAN]
    /\ acceptedIds \in SUBSET Ids
    /\ pending \in Seq(Ids)
    /\ pendingChars \in Nat
    /\ active \in Ids \cup {None}
    /\ started \in BOOLEAN /\ cancelled \in BOOLEAN
    /\ stopping \in BOOLEAN /\ ready \in BOOLEAN
    /\ lock \in {"free", "receiver", "worker"}
    /\ receiver \in {"receive", "lock", "ack", "error", "done"}
    /\ message \in Messages \cup {NoMessage}
    /\ receiverEnd \in {"none", "closed", "returned", "eof", "stopped"} \cup Failures
    /\ worker \in {"ready", "start", "next", "chunk", "unwind", "drain", "finish",
                  "end", "done"}
    /\ workerEnd \in {"none", "returned"} \cup Failures
    /\ generator \in Ids \cup {None}
    /\ chunks \in 0 .. MaxChunks
    /\ ending \in {"none", "done", "cancelled"}
    /\ supervisor \in {"wait", "join", "released"}
    /\ closeCode \in {0, 1000, 1011}
    /\ slot \in BOOLEAN

(* The state after session.created, with the slot acquired by realtime().   *)
Init ==
    /\ inbox = << >> /\ said = 0 /\ connected = TRUE
    /\ wire = [event |-> [kind |-> "created", id |-> None], odd |-> FALSE]
    /\ acceptedIds = {} /\ pending = << >> /\ pendingChars = 0 /\ active = None
    /\ started = FALSE /\ cancelled = FALSE /\ stopping = FALSE /\ ready = FALSE
    /\ lock = "free"
    /\ receiver = "receive" /\ message = NoMessage /\ receiverEnd = "none"
    /\ worker = "ready" /\ workerEnd = "none" /\ generator = None
    /\ chunks = 0 /\ ending = "none"
    /\ supervisor = "wait" /\ closeCode = 0 /\ slot = TRUE

-----------------------------------------------------------------------------
(* The peer, as the session sees it.                                       *)

PeerSends(m) ==
    /\ connected
    /\ said < MaxMessages
    /\ said' = said + 1
    /\ inbox' = Append(inbox, m)
    /\ UNCHANGED <<connected, wire, queueVars, flagVars, lock, recvVars, workVars, superVars>>

PeerLeaves ==
    /\ connected
    /\ connected' = FALSE
    /\ UNCHANGED <<inbox, said, wire, queueVars, flagVars, lock, recvVars, workVars, superVars>>

-----------------------------------------------------------------------------
(* stop(): what both tasks and the supervisor do without an await.         *)

(* A slip: the worker asleep on ready is not woken.                         *)
StoppedAsleep ==
    /\ stopping' = TRUE
    /\ cancelled' = TRUE
    /\ pending' = << >>
    /\ pendingChars' = 0
    /\ UNCHANGED ready

Stopped ==
    /\ stopping' = TRUE
    /\ cancelled' = TRUE
    /\ pending' = << >>
    /\ pendingChars' = 0
    /\ ready' = TRUE

(* A write that succeeds; the bytes are lost when the peer has left.        *)
Write(k, i) == wire' = IF connected THEN After(wire, k, i) ELSE wire

-----------------------------------------------------------------------------
(* The receiver: receive(), receive_next(), handle() and accept().         *)

ReceiverEnds(how) ==
    /\ receiver' = "done"
    /\ receiverEnd' = how
    /\ message' = NoMessage
    /\ Stopped
    /\ UNCHANGED <<acceptedIds, active, started>>

(* receive_next() returns a message; a message that is not valid JSON is    *)
(* refused at once, without the lock.                                       *)
Receive ==
    /\ receiver = "receive"
    /\ inbox # << >>
    /\ inbox' = Tail(inbox)
    /\ message' = Head(inbox)
    /\ receiver' = IF Head(inbox).kind = "junk" THEN "error" ELSE "lock"
    /\ UNCHANGED <<said, connected, wire, queueVars, flagVars, lock, receiverEnd, workVars,
                   superVars>>

(* websocket.disconnect, after everything sent before it.                   *)
ReceiveEof ==
    /\ receiver = "receive"
    /\ inbox = << >>
    /\ ~connected
    /\ ReceiverEnds("eof")
    /\ UNCHANGED <<peerVars, wire, lock, workVars, superVars>>

(* The idle timeout runs only while the pipeline is idle.                   *)
IdleTimeout ==
    /\ receiver = "receive"
    /\ inbox = << >>
    /\ active = None
    /\ ReceiverEnds("input_timeout")
    /\ UNCHANGED <<peerVars, wire, lock, workVars, superVars>>

(* Under the lock the receiver finds that the worker failed meanwhile.      *)
ReceiverSeesStop ==
    /\ receiver = "lock" /\ lock = "free"
    /\ stopping
    /\ ReceiverEnds("returned")
    /\ UNCHANGED <<peerVars, wire, lock, workVars, superVars>>

(* A slip: one waiting segment too many.                                   *)
QueueOverfull(i) ==
    /\ active # None
    /\ \/ Len(pending) > MaxQueued
       \/ pendingChars + Size[i] > MaxCharacters

(* accept()'s test of the two waiting limits.                               *)
QueueFull(i) ==
    /\ active # None
    /\ \/ Len(pending) >= MaxQueued
       \/ pendingChars + Size[i] > MaxCharacters

Admissible(m) ==
    /\ m.kind = "segment"
    /\ m.ok
    /\ m.id \notin acceptedIds
    /\ ~cancelled
    /\ ~QueueFull(m.id)

(* A slip: an active segment not begun yet can be cancelled.                *)
MatchesUnstarted(m) ==
    /\ m.kind = "cancel"
    /\ active # None /\ m.id = active
    /\ ~cancelled

MatchesActive(m) ==
    /\ m.kind = "cancel"
    /\ active # None /\ m.id = active
    /\ started /\ ~cancelled

(* A slip: a close is accepted while a segment is active.                   *)
MayCloseBusy(m) == m.kind = "close" /\ pending = << >>

MayClose(m) == m.kind = "close" /\ active = None /\ pending = << >>

Handling == receiver = "lock" /\ lock = "free" /\ ~stopping

(* accept() passes its tests and writes the acknowledgement under the lock. *)
HandleSegment ==
    /\ Handling
    /\ Admissible(message)
    /\ lock' = "receiver"
    /\ receiver' = "ack"
    /\ UNCHANGED <<peerVars, wire, queueVars, flagVars, message, receiverEnd,
                   workVars, superVars>>

(* The acknowledgement is written: the segment is admitted.  The worker may *)
(* have failed during the write; the loop then ends, clearing the queue.    *)
AckWritten ==
    /\ receiver = "ack"
    /\ Write("accepted", message.id)
    /\ acceptedIds' = acceptedIds \cup {message.id}
    /\ active' = IF active = None THEN message.id ELSE active
    /\ IF stopping
       THEN /\ Stopped
            /\ receiver' = "done"
            /\ receiverEnd' = "returned"
       ELSE /\ IF active = None
               THEN UNCHANGED <<pending, pendingChars>>
               ELSE /\ pending' = Append(pending, message.id)
                    /\ pendingChars' = pendingChars + Size[message.id]
            /\ ready' = TRUE
            /\ receiver' = "receive"
            /\ UNCHANGED <<cancelled, stopping, receiverEnd>>
    /\ message' = NoMessage
    /\ lock' = "free"
    /\ UNCHANGED <<peerVars, started, workVars, superVars>>

(* A slip: the count of waiting characters is cleared, the queue is not.    *)
HandleCancelKeepsQueue ==
    /\ Handling
    /\ MatchesActive(message)
    /\ cancelled' = TRUE
    /\ pendingChars' = 0
    /\ receiver' = "receive"
    /\ message' = NoMessage
    /\ UNCHANGED <<peerVars, wire, acceptedIds, pending, active, started, stopping, ready,
                   lock, receiverEnd, workVars, superVars>>

(* A slip: the queue is cleared, but the cancelled event is never set.      *)
HandleCancelUnset ==
    /\ Handling
    /\ MatchesActive(message)
    /\ pending' = << >>
    /\ pendingChars' = 0
    /\ receiver' = "receive"
    /\ message' = NoMessage
    /\ UNCHANGED <<peerVars, wire, acceptedIds, active, flagVars, lock, receiverEnd, workVars,
                   superVars>>

HandleCancel ==
    /\ Handling
    /\ MatchesActive(message)
    /\ cancelled' = TRUE
    /\ pending' = << >>
    /\ pendingChars' = 0
    /\ receiver' = "receive"
    /\ message' = NoMessage
    /\ UNCHANGED <<peerVars, wire, acceptedIds, active, started, stopping, ready,
                   lock, receiverEnd, workVars, superVars>>

HandleClose ==
    /\ Handling
    /\ MayClose(message)
    /\ ReceiverEnds("closed")
    /\ UNCHANGED <<peerVars, wire, lock, workVars, superVars>>

(* Every other message is a ProtocolError that is not fatal.                *)
HandleError ==
    /\ Handling
    /\ ~Admissible(message) /\ ~MatchesActive(message) /\ ~MayClose(message)
    /\ receiver' = "error"
    /\ UNCHANGED <<peerVars, wire, queueVars, flagVars, lock, message, receiverEnd,
                   workVars, superVars>>

(* The error event is written after the lock was left.                      *)
ErrorKind == IF message.kind = "segment" THEN "rejected" ELSE "error"

ErrorWritten ==
    /\ receiver = "error"
    /\ Write(ErrorKind, message.id)
    /\ IF stopping
       THEN ReceiverEnds("returned")
       ELSE /\ receiver' = "receive"
            /\ message' = NoMessage
            /\ UNCHANGED <<queueVars, flagVars, receiverEnd>>
    /\ UNCHANGED <<peerVars, lock, workVars, superVars>>

(* A write of the receiver times out, or raises because the peer left. Such  *)
(* a write counts as not sent, here and where the worker's fails, although   *)
(* the transport may have taken it before the timeout.                       *)
ReceiverWriteFails ==
    /\ receiver \in {"ack", "error"}
    /\ \E how \in {"output_timeout", "session_failed"} :
          /\ how = "session_failed" => ~connected
          /\ ReceiverEnds(how)
    /\ lock' = IF receiver = "ack" THEN "free" ELSE lock
    /\ UNCHANGED <<peerVars, wire, workVars, superVars>>

-----------------------------------------------------------------------------
(* The worker: work() and synthesize().                                    *)

WorkerEnds(how) ==
    /\ worker' = "done"
    /\ workerEnd' = how
    /\ Stopped
    /\ UNCHANGED <<acceptedIds, active, started>>

(* Under the lock, woken by ready or back from synthesize(), it finds the   *)
(* pipeline stopped.                                                        *)
WorkerSeesStop ==
    /\ (worker = "ready" /\ ready) \/ worker = "finish"
    /\ lock = "free"
    /\ stopping
    /\ WorkerEnds("returned")
    /\ UNCHANGED <<peerVars, wire, lock, recvVars, generator, chunks, ending, superVars>>

(* ready is set and the lock is free: take the active segment, or go back   *)
(* to sleep when there is none.                                             *)
BeginSegment ==
    /\ worker = "ready" /\ ready
    /\ lock = "free" /\ ~stopping
    /\ IF active = None
       THEN ready' = FALSE /\ UNCHANGED <<lock, worker>>
       ELSE lock' = "worker" /\ worker' = "start" /\ UNCHANGED ready
    /\ UNCHANGED <<peerVars, wire, queueVars, started, cancelled, stopping,
                   recvVars, workerEnd, generator, chunks, ending, superVars>>

(* audio.start is written; synthesize() then makes the generator and, if    *)
(* nothing stopped the pipeline meanwhile, hands it to a thread.            *)
StartWritten ==
    /\ worker = "start"
    /\ Write("start", active)
    /\ started' = TRUE
    /\ lock' = "free"
    /\ generator' = active
    /\ chunks' = 0
    /\ worker' = IF stopping \/ cancelled THEN "drain" ELSE "next"
    /\ UNCHANGED <<peerVars, queueVars, cancelled, stopping, ready, recvVars,
                   workerEnd, ending, superVars>>

(* The thread returns from next() with a chunk, which is written under the  *)
(* lock unless the segment was cancelled while the thread computed it.      *)
NextChunk ==
    /\ worker = "next"
    /\ lock = "free"
    /\ chunks < MaxChunks
    /\ chunks' = chunks + 1
    /\ IF stopping \/ cancelled
       THEN worker' = "drain" /\ UNCHANGED lock
       ELSE worker' = "chunk" /\ lock' = "worker"
    /\ UNCHANGED <<peerVars, wire, queueVars, flagVars, recvVars, workerEnd,
                   generator, ending, superVars>>

(* The generator is exhausted.                                              *)
NextDone ==
    /\ worker = "next"
    /\ lock = "free"
    /\ worker' = "drain"
    /\ UNCHANGED <<peerVars, wire, queueVars, flagVars, lock, recvVars, workerEnd,
                   generator, chunks, ending, superVars>>

ChunkWritten ==
    /\ worker = "chunk"
    /\ Write("audio", active)
    /\ lock' = "free"
    /\ worker' = IF stopping \/ cancelled THEN "drain" ELSE "next"
    /\ UNCHANGED <<peerVars, queueVars, flagVars, recvVars, workerEnd, generator,
                   chunks, ending, superVars>>

(* close_iterator(): the vendor generator is drained, then gone.            *)
Drained ==
    /\ worker = "drain"
    /\ generator' = None
    /\ worker' = "finish"
    /\ UNCHANGED <<peerVars, wire, queueVars, flagVars, lock, recvVars, workerEnd,
                   chunks, ending, superVars>>

(* The kind of the closing event is chosen under the lock, then written.    *)
BeginEnd ==
    /\ worker = "finish"
    /\ lock = "free" /\ ~stopping
    /\ ending' = IF cancelled THEN "cancelled" ELSE "done"
    /\ lock' = "worker"
    /\ worker' = "end"
    /\ UNCHANGED <<peerVars, wire, queueVars, flagVars, recvVars, workerEnd,
                   generator, chunks, superVars>>

(* A slip: ready is cleared although a waiting segment was promoted.        *)
EndWrittenSleeps ==
    /\ worker = "end"
    /\ ~stopping
    /\ Write(ending, active)
    /\ started' = FALSE
    /\ cancelled' = FALSE
    /\ ready' = FALSE
    /\ IF pending = << >>
       THEN active' = None /\ UNCHANGED <<pending, pendingChars>>
       ELSE /\ active' = Head(pending)
            /\ pending' = Tail(pending)
            /\ pendingChars' = pendingChars - Size[Head(pending)]
    /\ ending' = "none"
    /\ lock' = "free"
    /\ worker' = "ready"
    /\ UNCHANGED <<peerVars, acceptedIds, stopping, recvVars, workerEnd, generator,
                   chunks, superVars>>

EndWritten ==
    /\ worker = "end"
    /\ ~stopping
    /\ Write(ending, active)
    /\ started' = FALSE
    /\ cancelled' = FALSE
    /\ IF pending = << >>
       THEN active' = None /\ ready' = FALSE /\ UNCHANGED <<pending, pendingChars>>
       ELSE /\ active' = Head(pending)
            /\ pending' = Tail(pending)
            /\ pendingChars' = pendingChars - Size[Head(pending)]
            /\ UNCHANGED ready
    /\ ending' = "none"
    /\ lock' = "free"
    /\ worker' = "ready"
    /\ UNCHANGED <<peerVars, acceptedIds, stopping, recvVars, workerEnd, generator,
                   chunks, superVars>>

(* The closing event goes out, but the pipeline was stopped meanwhile:      *)
(* nothing waits any more and the loop of work() ends.                      *)
EndWrittenLate ==
    /\ worker = "end"
    /\ stopping
    /\ Write(ending, active)
    /\ active' = None
    /\ started' = FALSE
    /\ Stopped
    /\ ending' = "none"
    /\ lock' = "free"
    /\ worker' = "done"
    /\ workerEnd' = "returned"
    /\ UNCHANGED <<peerVars, acceptedIds, recvVars, generator, chunks, superVars>>

(* next() raises; the generator is closed before the failure is reported.   *)
NextFails ==
    /\ worker = "next"
    /\ worker' = "unwind"
    /\ workerEnd' = "inference_failed"
    /\ UNCHANGED <<peerVars, wire, queueVars, flagVars, lock, recvVars, generator, chunks,
                   ending, superVars>>

(* How a write of the worker fails: it times out, or the peer left.         *)
WriteFailure(how) ==
    \/ how = "output_timeout"
    \/ how = "inference_failed" /\ ~connected

ChunkWriteFails ==
    /\ worker = "chunk"
    /\ workerEnd' \in {how \in Failures : WriteFailure(how)}
    /\ lock' = "free"
    /\ worker' = "unwind"
    /\ UNCHANGED <<peerVars, wire, queueVars, flagVars, recvVars, generator, chunks, ending,
                   superVars>>

(* close_iterator() while an exception unwinds: until it returned, stopping *)
(* is not set and the receiver goes on accepting.                           *)
Unwound ==
    /\ worker = "unwind"
    /\ generator' = None
    /\ \E how \in {workerEnd, "inference_failed"} : WorkerEnds(how)
    /\ UNCHANGED <<peerVars, wire, lock, recvVars, chunks, ending, superVars>>

DrainFails ==
    /\ worker = "drain"
    /\ generator' = None
    /\ WorkerEnds("inference_failed")
    /\ UNCHANGED <<peerVars, wire, lock, recvVars, chunks, ending, superVars>>

(* audio.start or the closing event cannot be written.                      *)
EventWriteFails ==
    /\ worker \in {"start", "end"}
    /\ \E how \in Failures : WriteFailure(how) /\ WorkerEnds(how)
    /\ lock' = "free"
    /\ UNCHANGED <<peerVars, wire, recvVars, generator, chunks, ending, superVars>>

-----------------------------------------------------------------------------
(* serve_session() and the end of realtime().                              *)

(* One task ended: stop the pipeline and cancel a receiver still running,   *)
(* whose write in progress may or may not have gone out. (An error of its    *)
(* own that the receiver meets just as it is cancelled, which stop_task      *)
(* raises again, is left out: by then the worker has ended.)                 *)
LateWrite ==
    IF connected /\ receiver = "ack" THEN {After(wire, "accepted", message.id)}
    ELSE IF connected /\ receiver = "error" THEN {After(wire, ErrorKind, message.id)}
    ELSE {}

Supervise ==
    /\ supervisor = "wait"
    /\ receiver = "done" \/ worker = "done"
    /\ wire' \in {wire} \cup LateWrite
    /\ Stopped
    /\ supervisor' = "join"
    /\ receiver' = "done"
    /\ receiverEnd' = IF receiver = "done" THEN receiverEnd ELSE "stopped"
    /\ message' = NoMessage
    /\ lock' = IF receiver = "ack" THEN "free" ELSE lock
    /\ UNCHANGED <<peerVars, acceptedIds, active, started, workVars, closeCode, slot>>

(* The failure reported: the worker's before the receiver's.                *)
SessionError ==
    IF workerEnd \in Failures THEN workerEnd
    ELSE IF receiverEnd \in Failures THEN receiverEnd ELSE "none"

ReportError ==
    /\ closeCode' = 1011
    /\ IF connected /\ SessionError # "output_timeout"
       THEN wire' \in {wire, After(wire, "fatal", active)}
       ELSE UNCHANGED wire

(* A slip: the slot is given back while the worker still winds down.        *)
ReleaseEarly ==
    /\ supervisor = "join"
    /\ IF receiverEnd # "eof" /\ SessionError # "none"
       THEN ReportError
       ELSE /\ closeCode' = IF receiverEnd = "closed" THEN 1000 ELSE 0
            /\ UNCHANGED wire
    /\ supervisor' = "released"
    /\ slot' = FALSE
    /\ UNCHANGED <<peerVars, queueVars, flagVars, lock, recvVars, workVars>>

(* The worker ended too: report, close the socket, release the slot.        *)
Release ==
    /\ supervisor = "join"
    /\ worker = "done"
    /\ IF receiverEnd # "eof" /\ SessionError # "none"
       THEN ReportError
       ELSE /\ closeCode' = IF receiverEnd = "closed" THEN 1000 ELSE 0
            /\ UNCHANGED wire
    /\ supervisor' = "released"
    /\ slot' = FALSE
    /\ UNCHANGED <<peerVars, queueVars, flagVars, lock, recvVars, workVars>>

-----------------------------------------------------------------------------
ReceiverStep ==
    \/ Receive \/ ReceiveEof \/ ReceiverSeesStop
    \/ HandleSegment \/ AckWritten \/ HandleCancel \/ HandleClose
    \/ HandleError \/ ErrorWritten \/ ReceiverWriteFails

WorkerStep ==
    \/ WorkerSeesStop \/ BeginSegment \/ StartWritten
    \/ NextChunk \/ NextDone \/ ChunkWritten \/ Drained
    \/ BeginEnd \/ EndWritten \/ EndWrittenLate
    \/ NextFails \/ ChunkWriteFails \/ Unwound \/ DrainFails \/ EventWriteFails

SupervisorStep == Supervise \/ Release

ServerStep == ReceiverStep \/ IdleTimeout \/ WorkerStep \/ SupervisorStep

Next ==
    \/ \E m \in Messages : PeerSends(m)
    \/ PeerLeaves
    \/ ServerStep

Spec == Init /\ [][Next]_vars

(* The tasks are scheduled, next() returns, and a write either completes or *)
(* times out.  Nothing makes the peer speak or leave, and the idle timeout  *)
(* need not fire.                                                           *)
Fairness ==
    /\ WF_vars(ReceiverStep)
    /\ WF_vars(WorkerStep)
    /\ WF_vars(SupervisorStep)

FairSpec == Spec /\ Fairness

-----------------------------------------------------------------------------
(* Properties.                                                             *)

(* The session keeps the contract: refinement of SegmentFifo.  A segment    *)
(* whose audio.start is not yet written still counts as waiting.            *)
Fifo == INSTANCE SegmentFifo WITH
    used       <- acceptedIds,
    waiting    <- IF active # None /\ ~started THEN <<active>> \o pending ELSE pending,
    speaking   <- IF started THEN active ELSE None,
    cancelling <- cancelled /\ ~stopping,
    open       <- ~stopping

KeepsContract == Fifo!Spec

(* The length of the texts of a queue.                                      *)
Characters[q \in Seq(Ids)] ==
    IF q = << >> THEN 0 ELSE Size[Head(q)] + Characters[Tail(q)]

(* pending_characters, kept by hand in five places, is the length of what   *)
(* waits, and neither limit of the waiting queue is ever exceeded.          *)
QueueWithinLimits ==
    /\ pendingChars = Characters[pending]
    /\ Len(pending) <= MaxQueued
    /\ pendingChars <= MaxCharacters

(* The engine slot is released only once no vendor generator is open and    *)
(* both tasks have ended: the next connection never shares the GPU model    *)
(* with a synthesis still draining.                                         *)
SlotOutlivesSynthesis ==
    ~slot => generator = None /\ worker = "done" /\ receiver = "done"

(* A session ends for a cause its client can tell: it left, it asked for    *)
(* the close and gets 1000, or a fatal failure is closed with 1011. The idle *)
(* timeout is no such failure while a segment it accepted is still to end   *)
(* (receive_next).                                                          *)
SessionEndsWithCause ==
    /\ receiverEnd = "input_timeout" => active = None /\ pending = << >>
    /\ supervisor = "released" =>
          \/ receiverEnd = "eof"
          \/ closeCode = 1000 /\ active = None /\ pending = << >>
          \/ closeCode = 1011 /\ SessionError # "none"

(* No accepted segment is forgotten: it is finished, cancelled or dropped   *)
(* by a cancellation, or the whole session ends.                            *)
EveryAcceptedSegmentEnds ==
    \A i \in Ids :
        i \in acceptedIds ~> \/ i # active /\ i \notin ToSet(pending)
                             \/ supervisor = "released"

(* A client that leaves frees the engine slot, whatever was in progress.    *)
DisconnectFreesSlot == ~connected ~> ~slot
=============================================================================

------------------------- MODULE InferenceScheduler -------------------------
(***************************************************************************)
(* The micro-batching scheduler in front of the YOLO detector,             *)
(* yolov5v70-service/src/gpu_detector/scheduler.py.                        *)
(*                                                                         *)
(* Many gRPC handler threads call submit(), each with one frame, and wait  *)
(* on that frame's Future.  One worker thread takes frames from a bounded  *)
(* queue, forms a batch, claims the futures, drops the frames whose queue  *)
(* deadline has passed, runs the detector once and settles the futures.    *)
(* Any thread may call close(), which stops admission and then sends the   *)
(* worker a _STOP marker through the same queue.                           *)
(*                                                                         *)
(* A frame stands for one call of submit().  Its deadline is represented   *)
(* by the one fact the code ever derives from it: whether the monotonic    *)
(* clock has passed it (membership in overdue).                            *)
(***************************************************************************)
EXTENDS Naturals, Sequences, SequencesExt, FiniteSets

CONSTANTS
    Frames,         \* the calls of submit(), one frame each
    Closers,        \* the calls of close()
    BadFrames,      \* frames YoloDetector._decode rejects
    QueueCapacity,  \* queue_capacity
    BatchSize,      \* batch_size
    BatchWaits,     \* batch_wait_ms # 0
    HasDeadline,    \* max_queue_wait_ms # 0
    Stop            \* the _STOP marker

ASSUME FramesAssumption ==
    /\ BadFrames \subseteq Frames
    /\ Stop \notin Frames
ASSUME LimitsAssumption ==
    /\ QueueCapacity \in Nat \ {0}
    /\ BatchSize \in Nat \ {0}
    /\ BatchWaits \in BOOLEAN
    /\ HasDeadline \in BOOLEAN

VARIABLES
    accepting,       \* _accepting
    queue,           \* _queue
    future,          \* the state, and once settled the content, of each Future
    overdue,         \* frames whose deadline_monotonic the clock has passed
    caller,          \* where each submit() call is; its outcome once it returned
    closer,          \* where each close() call is
    worker,          \* where _run is; "unborn" while _thread is None
    batch,           \* the frames taken for this batch and not yet claimed
    active,          \* _process_batch's active
    verdict,         \* what detect_batch made of the active frames
    stopAfterBatch,  \* stop_after_batch
    admitted,        \* history: the frames, in the order they entered the queue
    ran              \* history: the frames, in the order the model computed them

callerVars == <<overdue, caller>>
workerVars == <<worker, batch, active, verdict, stopAfterBatch>>
vars == <<accepting, queue, future, callerVars, closer, workerVars, admitted, ran>>

DetectorVerdicts == {"ok", "invalid", "failed"}
Settled  == DetectorVerdicts \cup {"expired", "closed"}
Outcomes == Settled \cup {"overloaded"}

FutureStates == {"none", "pending", "cancelled", "running"} \cup Settled
CallerStates == {"idle", "waiting", "timedout", "blocked"} \cup Outcomes
CloserStates == {"idle", "putting", "joining", "stopped", "unstarted", "gaveup"}
WorkerStates == {"unborn", "get", "fill", "claim", "check", "deliver",
                 "reject", "dead"}

TypeOK ==
    /\ accepting \in BOOLEAN
    /\ queue \in Seq(Frames \cup {Stop})
    /\ Len(queue) <= QueueCapacity
    /\ future \in [Frames -> FutureStates]
    /\ overdue \in SUBSET Frames
    /\ caller \in [Frames -> CallerStates]
    /\ closer \in [Closers -> CloserStates]
    /\ worker \in WorkerStates
    /\ batch \in Seq(Frames)
    /\ active \in Seq(Frames)
    /\ Len(batch) + Len(active) <= BatchSize
    /\ verdict \in DetectorVerdicts \cup {"none"}
    /\ stopAfterBatch \in BOOLEAN
    /\ admitted \in Seq(Frames)
    /\ ran \in Seq(Frames)

Init ==
    /\ accepting = FALSE
    /\ queue = << >>
    /\ future = [f \in Frames |-> "none"]
    /\ overdue = {}
    /\ caller = [f \in Frames |-> "idle"]
    /\ closer = [c \in Closers |-> "idle"]
    /\ worker = "unborn"
    /\ batch = << >>
    /\ active = << >>
    /\ verdict = "none"
    /\ stopAfterBatch = FALSE
    /\ admitted = << >>
    /\ ran = << >>

-----------------------------------------------------------------------------
(* start(): under _state_lock; a second call raises and changes nothing.   *)

Start ==
    /\ worker = "unborn"
    /\ accepting' = TRUE
    /\ worker' = "get"
    /\ UNCHANGED <<queue, future, callerVars, closer, batch, active, verdict,
                   stopAfterBatch, admitted, ran>>

-----------------------------------------------------------------------------
(* submit().  The test of _accepting and put_nowait are one step: both run *)
(* under _state_lock, which close() also takes before it clears the flag.  *)

Enqueue(f) ==
    /\ queue' = Append(queue, f)
    /\ future' = [future EXCEPT ![f] = "pending"]
    /\ caller' = [caller EXCEPT ![f] = "waiting"]
    /\ admitted' = Append(admitted, f)

(* A slip: put_nowait after _state_lock was released.                       *)
SubmitUnlocked(f) ==
    /\ caller[f] = "idle"
    /\ worker # "unborn"
    /\ Len(queue) < QueueCapacity
    /\ Enqueue(f)
    /\ UNCHANGED <<accepting, overdue, closer, workerVars, ran>>

SubmitAccepted(f) ==
    /\ caller[f] = "idle"
    /\ accepting
    /\ Len(queue) < QueueCapacity
    /\ Enqueue(f)
    /\ UNCHANGED <<accepting, overdue, closer, workerVars, ran>>

SubmitRefused(f) ==
    /\ caller[f] = "idle"
    /\ ~accepting \/ Len(queue) = QueueCapacity
    /\ caller' = [caller EXCEPT ![f] = IF accepting THEN "overloaded" ELSE "closed"]
    /\ UNCHANGED <<accepting, queue, future, overdue, closer, workerVars, admitted, ran>>

Unsettled(f) == future[f] \in {"pending", "running"}

(* The monotonic clock passes the deadline of f.  Once the future is settled *)
(* nobody looks at the deadline any more.                                   *)
DeadlinePasses(f) ==
    /\ HasDeadline
    /\ Unsettled(f)
    /\ f \notin overdue
    /\ overdue' = overdue \cup {f}
    /\ UNCHANGED <<accepting, queue, future, caller, closer, workerVars, admitted, ran>>

(* future.result(): returns what the future holds once it is settled.       *)
TakeResult(f) ==
    /\ caller[f] \in {"waiting", "blocked"}
    /\ future[f] \in Settled
    /\ caller' = [caller EXCEPT ![f] = future[f]]
    /\ UNCHANGED <<accepting, queue, future, overdue, closer, workerVars, admitted, ran>>

(* future.result(timeout=remaining) raises FutureTimeoutError.              *)
WaitTimesOut(f) ==
    /\ caller[f] = "waiting"
    /\ f \in overdue
    /\ future[f] \notin Settled
    /\ caller' = [caller EXCEPT ![f] = "timedout"]
    /\ UNCHANGED <<accepting, queue, future, overdue, closer, workerVars, admitted, ran>>

(* A slip: a caller withdraws a future that is already running.             *)
CancelAlways(f) ==
    /\ caller[f] = "timedout"
    /\ Unsettled(f)
    /\ future' = [future EXCEPT ![f] = "cancelled"]
    /\ caller' = [caller EXCEPT ![f] = "expired"]
    /\ UNCHANGED <<accepting, queue, overdue, closer, workerVars, admitted, ran>>

(* future.cancel() wins only against a future the worker has not claimed.  *)
CancelWins(f) ==
    /\ caller[f] = "timedout"
    /\ future[f] = "pending"
    /\ future' = [future EXCEPT ![f] = "cancelled"]
    /\ caller' = [caller EXCEPT ![f] = "expired"]
    /\ UNCHANGED <<accepting, queue, overdue, closer, workerVars, admitted, ran>>

CancelLoses(f) ==
    /\ caller[f] = "timedout"
    /\ future[f] # "pending"
    /\ caller' = [caller EXCEPT ![f] = "blocked"]
    /\ UNCHANGED <<accepting, queue, future, overdue, closer, workerVars, admitted, ran>>

-----------------------------------------------------------------------------
(* The worker: _run, _process_batch and _reject_remaining.                 *)

(* first = _queue.get()                                                     *)
TakeFirst ==
    /\ worker = "get"
    /\ queue # << >>
    /\ Head(queue) # Stop
    /\ queue' = Tail(queue)
    /\ batch' = <<Head(queue)>>
    /\ worker' = "fill"
    /\ UNCHANGED <<accepting, future, callerVars, closer, active, verdict,
                   stopAfterBatch, admitted, ran>>

TakeStop ==
    /\ worker = "get"
    /\ queue # << >>
    /\ Head(queue) = Stop
    /\ queue' = Tail(queue)
    /\ worker' = "reject"
    /\ UNCHANGED <<accepting, future, callerVars, closer, batch, active, verdict,
                   stopAfterBatch, admitted, ran>>

(* Two slips: one frame too many; the latest frame first.                   *)
FillBatchOver ==
    /\ worker = "fill"
    /\ Len(batch) <= BatchSize
    /\ queue # << >>
    /\ Head(queue) # Stop
    /\ queue' = Tail(queue)
    /\ batch' = Append(batch, Head(queue))
    /\ UNCHANGED <<accepting, future, callerVars, closer, worker, active, verdict,
                   stopAfterBatch, admitted, ran>>

FillBatchLatestFirst ==
    /\ worker = "fill"
    /\ Len(batch) < BatchSize
    /\ queue # << >>
    /\ Head(queue) # Stop
    /\ queue' = Tail(queue)
    /\ batch' = <<Head(queue)>> \o batch
    /\ UNCHANGED <<accepting, future, callerVars, closer, worker, active, verdict,
                   stopAfterBatch, admitted, ran>>

(* One more frame joins the batch.                                          *)
FillBatch ==
    /\ worker = "fill"
    /\ Len(batch) < BatchSize
    /\ queue # << >>
    /\ Head(queue) # Stop
    /\ queue' = Tail(queue)
    /\ batch' = Append(batch, Head(queue))
    /\ UNCHANGED <<accepting, future, callerVars, closer, worker, active, verdict,
                   stopAfterBatch, admitted, ran>>

(* A slip: _STOP met while filling only ends the batch.                     *)
FillForgetsStop ==
    /\ worker = "fill"
    /\ Len(batch) < BatchSize
    /\ queue # << >>
    /\ Head(queue) = Stop
    /\ queue' = Tail(queue)
    /\ worker' = "claim"
    /\ UNCHANGED <<accepting, future, callerVars, closer, batch, active, verdict,
                   stopAfterBatch, admitted, ran>>

(* _STOP met while filling: finish this batch first.                        *)
FillMeetsStop ==
    /\ worker = "fill"
    /\ Len(batch) < BatchSize
    /\ queue # << >>
    /\ Head(queue) = Stop
    /\ queue' = Tail(queue)
    /\ stopAfterBatch' = TRUE
    /\ worker' = "claim"
    /\ UNCHANGED <<accepting, future, callerVars, closer, batch, active, verdict,
                   admitted, ran>>

(* The batch is complete: it is full, the queue is empty, or the batch      *)
(* window closed - which it may do with frames still in the queue.          *)
StopFilling ==
    /\ worker = "fill"
    /\ \/ Len(batch) = BatchSize
       \/ queue = << >>
       \/ BatchWaits
    /\ worker' = "claim"
    /\ UNCHANGED <<accepting, queue, future, callerVars, closer, batch, active,
                   verdict, stopAfterBatch, admitted, ran>>

(* A slip: the answer of set_running_or_notify_cancel() is ignored.         *)
ClaimAnyway ==
    /\ worker = "claim"
    /\ batch # << >>
    /\ future' = [future EXCEPT ![Head(batch)] = "running"]
    /\ worker' = "check"
    /\ UNCHANGED <<accepting, queue, callerVars, closer, batch, active, verdict,
                   stopAfterBatch, admitted, ran>>

(* set_running_or_notify_cancel() on the next frame of the batch.           *)
Claim ==
    /\ worker = "claim"
    /\ batch # << >>
    /\ IF future[Head(batch)] = "pending"
       THEN /\ future' = [future EXCEPT ![Head(batch)] = "running"]
            /\ worker' = "check"
            /\ UNCHANGED batch
       ELSE /\ batch' = Tail(batch)
            /\ UNCHANGED <<future, worker>>
    /\ UNCHANGED <<accepting, queue, callerVars, closer, active, verdict,
                   stopAfterBatch, admitted, ran>>

(* Two slips: a late frame is answered and run all the same; a late frame   *)
(* is dropped without an answer.                                            *)
CheckDeadlineRunsLate ==
    /\ worker = "check"
    /\ future' = IF Head(batch) \in overdue
                 THEN [future EXCEPT ![Head(batch)] = "expired"] ELSE future
    /\ active' = Append(active, Head(batch))
    /\ batch' = Tail(batch)
    /\ worker' = "claim"
    /\ UNCHANGED <<accepting, queue, callerVars, closer, verdict, stopAfterBatch,
                   admitted, ran>>

CheckDeadlineSilent ==
    /\ worker = "check"
    /\ active' = IF Head(batch) \in overdue THEN active ELSE Append(active, Head(batch))
    /\ batch' = Tail(batch)
    /\ worker' = "claim"
    /\ UNCHANGED <<accepting, queue, future, callerVars, closer, verdict,
                   stopAfterBatch, admitted, ran>>

(* The deadline is tested after the claim, in a step of its own.            *)
CheckDeadline ==
    /\ worker = "check"
    /\ IF Head(batch) \in overdue
       THEN /\ future' = [future EXCEPT ![Head(batch)] = "expired"]
            /\ UNCHANGED active
       ELSE /\ active' = Append(active, Head(batch))
            /\ UNCHANGED future
    /\ batch' = Tail(batch)
    /\ worker' = "claim"
    /\ UNCHANGED <<accepting, queue, callerVars, closer, verdict, stopAfterBatch,
                   admitted, ran>>

(* detect_batch(active).  Every frame is decoded before the model runs, so  *)
(* one bad frame ends the call before it; otherwise the call returns one    *)
(* output per frame, or raises (before or after the model ran), or returns  *)
(* a wrong number of outputs.                                               *)
DetectRejects ==
    /\ worker = "claim" /\ batch = << >> /\ active # << >>
    /\ ToSet(active) \cap BadFrames # {}
    /\ verdict' = "invalid"
    /\ worker' = "deliver"
    /\ UNCHANGED <<accepting, queue, future, callerVars, closer, batch, active,
                   stopAfterBatch, admitted, ran>>

DetectRuns ==
    /\ worker = "claim" /\ batch = << >> /\ active # << >>
    /\ ToSet(active) \cap BadFrames = {}
    /\ verdict' \in {"ok", "failed"}
    /\ ran' = ran \o active
    /\ worker' = "deliver"
    /\ UNCHANGED <<accepting, queue, future, callerVars, closer, batch, active,
                   stopAfterBatch, admitted>>

DetectFailsEarly ==
    /\ worker = "claim" /\ batch = << >> /\ active # << >>
    /\ ToSet(active) \cap BadFrames = {}
    /\ verdict' = "failed"
    /\ worker' = "deliver"
    /\ UNCHANGED <<accepting, queue, future, callerVars, closer, batch, active,
                   stopAfterBatch, admitted, ran>>

(* set_result / set_exception on the next active frame.                     *)
Deliver ==
    /\ worker = "deliver"
    /\ active # << >>
    /\ future' = [future EXCEPT ![Head(active)] = verdict]
    /\ active' = Tail(active)
    /\ UNCHANGED <<accepting, queue, callerVars, closer, worker, batch, verdict,
                   stopAfterBatch, admitted, ran>>

(* _process_batch returns, with or without having had an active frame.      *)
EndBatch ==
    /\ worker \in {"claim", "deliver"}
    /\ batch = << >>
    /\ active = << >>
    /\ verdict' = "none"
    /\ worker' = IF stopAfterBatch THEN "reject" ELSE "get"
    /\ UNCHANGED <<accepting, queue, future, callerVars, closer, batch, active,
                   stopAfterBatch, admitted, ran>>

(* _reject_remaining: one element of the queue, then the thread ends.       *)
RejectNext ==
    /\ worker = "reject"
    /\ queue # << >>
    /\ queue' = Tail(queue)
    /\ future' = [f \in Frames |->
                    IF f = Head(queue) /\ future[f] = "pending" THEN "closed"
                                                                ELSE future[f]]
    /\ UNCHANGED <<accepting, callerVars, closer, workerVars, admitted, ran>>

WorkerEnds ==
    /\ worker = "reject"
    /\ queue = << >>
    /\ worker' = "dead"
    /\ UNCHANGED <<accepting, queue, future, callerVars, closer, batch, active,
                   verdict, stopAfterBatch, admitted, ran>>

-----------------------------------------------------------------------------
(* close(): stop admission under the lock, put _STOP outside it, join.     *)

(* A slip: close() leaves _accepting set.                                   *)
BeginCloseOpen(c) ==
    /\ closer[c] = "idle"
    /\ closer' = [closer EXCEPT ![c] = IF worker = "unborn" THEN "unstarted" ELSE "putting"]
    /\ UNCHANGED <<accepting, queue, future, callerVars, workerVars, admitted, ran>>

BeginClose(c) ==
    /\ closer[c] = "idle"
    /\ IF worker = "unborn"
       THEN /\ closer' = [closer EXCEPT ![c] = "unstarted"]
            /\ UNCHANGED accepting
       ELSE /\ closer' = [closer EXCEPT ![c] = "putting"]
            /\ accepting' = FALSE
    /\ UNCHANGED <<queue, future, callerVars, workerVars, admitted, ran>>

PutStop(c) ==
    /\ closer[c] = "putting"
    /\ Len(queue) < QueueCapacity
    /\ queue' = Append(queue, Stop)
    /\ closer' = [closer EXCEPT ![c] = "joining"]
    /\ UNCHANGED <<accepting, future, callerVars, workerVars, admitted, ran>>

(* A slip: is_alive() is not asked after the join.                          *)
JoinUnchecked(c) ==
    /\ closer[c] = "joining"
    /\ closer' = [closer EXCEPT ![c] = "stopped"]
    /\ UNCHANGED <<accepting, queue, future, callerVars, workerVars, admitted, ran>>

Join(c) ==
    /\ closer[c] = "joining"
    /\ worker = "dead"
    /\ closer' = [closer EXCEPT ![c] = "stopped"]
    /\ UNCHANGED <<accepting, queue, future, callerVars, workerVars, admitted, ran>>

(* The close timeout elapses while putting _STOP or while joining.          *)
CloseTimesOut(c) ==
    /\ closer[c] \in {"putting", "joining"}
    /\ closer[c] = "joining" => worker # "dead"
    /\ closer' = [closer EXCEPT ![c] = "gaveup"]
    /\ UNCHANGED <<accepting, queue, future, callerVars, workerVars, admitted, ran>>

-----------------------------------------------------------------------------
Submit(f) == SubmitAccepted(f) \/ SubmitRefused(f)

CallerStep(f) ==
    \/ TakeResult(f)
    \/ WaitTimesOut(f)
    \/ CancelWins(f)
    \/ CancelLoses(f)

Detect == DetectRejects \/ DetectRuns \/ DetectFailsEarly

WorkerStep ==
    \/ TakeFirst \/ TakeStop
    \/ FillBatch \/ FillMeetsStop \/ StopFilling
    \/ Claim \/ CheckDeadline
    \/ Detect \/ Deliver \/ EndBatch
    \/ RejectNext \/ WorkerEnds

CloserStep(c) == BeginClose(c) \/ PutStop(c) \/ Join(c) \/ CloseTimesOut(c)

Next ==
    \/ Start
    \/ \E f \in Frames : Submit(f) \/ DeadlinePasses(f) \/ CallerStep(f)
    \/ WorkerStep
    \/ \E c \in Closers : CloserStep(c)

Spec == Init /\ [][Next]_vars

(* The threads of the process are scheduled, and detect_batch returns: the  *)
(* worker and a caller that can step eventually do.  Nothing makes a caller *)
(* submit, the clock pass a deadline, or anyone close the scheduler.        *)
Fairness ==
    /\ WF_vars(WorkerStep)
    /\ \A f \in Frames : WF_vars(CallerStep(f))

FairSpec == Spec /\ Fairness

-----------------------------------------------------------------------------
(* Properties.                                                             *)

(* The frames the scheduler has taken and not yet answered.                 *)
Held == ToSet(queue) \cup ToSet(batch) \cup ToSet(active)

(* A future that is not settled belongs to a frame that a running worker    *)
(* still holds: no interleaving of submit(), close() and the worker's exit  *)
(* leaves a handler thread waiting for nobody.                              *)
NoAbandonedFrame ==
    \A f \in Frames : Unsettled(f) =>
        /\ worker \notin {"unborn", "dead"}
        /\ f \in Held

(* Only further _STOPs follow a _STOP in a queue.                           *)
StopsLast(q) == \A i, j \in DOMAIN q : i < j /\ q[i] = Stop => q[j] = Stop

(* Nothing is ever queued behind _STOP, and once the worker has taken _STOP *)
(* no frame is left in the queue: _reject_remaining finds only more _STOPs. *)
NoFrameBehindStop ==
    /\ StopsLast(queue)
    /\ stopAfterBatch \/ worker \in {"reject", "dead"} => ToSet(queue) \subseteq {Stop}

(* The frames of the running batch are claimed: a caller's cancel() cannot  *)
(* take one back, so set_result() and set_exception() find a running future *)
(* and never raise InvalidStateError, which would kill the worker thread.   *)
ClaimedFramesStayClaimed ==
    /\ \A f \in ToSet(active) : future[f] = "running"
    /\ worker = "check" => future[Head(batch)] = "running"

(* A caller told its frame was late, refused or invalid is told the truth:  *)
(* the model has not computed, and is not about to compute, that frame.     *)
RefusedFramesNeverRun ==
    \A f \in Frames :
        caller[f] \in {"expired", "closed", "overloaded", "invalid"} =>
            f \notin ToSet(ran) \cup ToSet(active)

(* The model computes the frames in the order they were admitted, each at   *)
(* most once: callers that timed out or expired leave gaps, never swaps.    *)
RunsFollowAdmission ==
    \A i, j \in DOMAIN ran : i < j =>
        \E k, l \in DOMAIN admitted :
            k < l /\ admitted[k] = ran[i] /\ admitted[l] = ran[j]

(* When a close() of a started scheduler returns, the worker is gone, every *)
(* frame ever admitted has its answer, and no frame can be admitted again.  *)
CloseReturnsDrained ==
    (\E c \in Closers : closer[c] = "stopped") =>
        /\ worker = "dead"
        /\ ~accepting
        /\ \A f \in Frames : ~Unsettled(f)

(* A future is settled or cancelled once: no later step changes it.         *)
FuturesAreFinal ==
    [][\A f \in Frames :
         future[f] \in Settled \cup {"cancelled"} => future'[f] = future[f]]_vars

(* Every submit() that was admitted returns, whatever close() does.         *)
EveryCallReturns ==
    \A f \in Frames : caller[f] = "waiting" ~> caller[f] \in Outcomes

(* A _STOP in the queue of a running worker ends the worker.                *)
StopEndsWorker ==
    (\E i \in DOMAIN queue : queue[i] = Stop) ~> worker = "dead"

(* contracts/yolo-grpc.md gives INVALID_FRAME to a frame whose own fields,  *)
(* JPEG or size are invalid.                                                *)
InvalidMeansThisFrame ==
    \A f \in Frames : caller[f] = "invalid" => f \in BadFrames
=============================================================================

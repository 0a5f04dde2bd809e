-------------------------- MODULE DetectorService --------------------------
(***************************************************************************)
(* The process around the inference scheduler: gpu_detector/main.py and    *)
(* application.py start and stop it, grpc_server.py serves one handler per *)
(* stream on a pool of threads, health.py publishes what probes see. The   *)
(* scheduler is reduced to what InferenceScheduler establishes: it answers *)
(* every frame it admitted, and refuses new ones once it is closed.        *)
(***************************************************************************)
EXTENDS Integers, FiniteSets

CONSTANTS
    Streams,    \* gRPC calls of Detect
    Workers,    \* grpc_workers
    MaxFrames   \* bound: frames of one call

ASSUME DetectorAssumption == Workers \in Nat \ {0} /\ MaxFrames \in Nat \ {0}

VARIABLES
    dMain,     \* where main() stands
    dSignal,   \* stop_requested
    dHealth,   \* [live, ready, serving, http]: HealthState, HealthServicer, HTTP
    dServer,   \* the gRPC server: off, open, stopping, cancelled (grace is over)
    dSched,    \* the scheduler: new, open, closed
    dCalls     \* the calls, see Call

detectorVars == <<dMain, dSignal, dHealth, dServer, dSched, dCalls>>

(* at: waits for a thread or a request, has one, waits for the scheduler or   *)
(* for its response to be taken; said: the response; cancelled: by the client or     *)
(* when the grace was over.                                                  *)
Codes == {"none", "ok", "expired", "invalid_frame", "overloaded", "inference_error",
          "shutting_down"}
Call == [at : {"none", "queued", "next", "received", "submitted", "responds", "done"},
         frames : 0 .. MaxFrames, said : Codes, cancelled : BOOLEAN]

(* The calls that hold a thread.                                            *)
Served == {s \in Streams : dCalls[s].at \in {"next", "received", "submitted", "responds"}}

StartSteps == {"set_live", "start_scheduler", "start_grpc", "failed", "announce"}
StopSteps == {"unready", "stop_grpc", "wait_grpc", "close_scheduler", "set_dead"}

DetectorTypeOK ==
    /\ dMain \in StartSteps \cup StopSteps \cup {"runs", "returned", "raised"}
    /\ dSignal \in BOOLEAN
    /\ dHealth \in [live : BOOLEAN, ready : BOOLEAN, serving : BOOLEAN, http : BOOLEAN]
    /\ dServer \in {"off", "open", "stopping", "cancelled"}
    /\ dSched \in {"new", "open", "closed"}
    /\ dCalls \in [Streams -> Call]
    /\ Cardinality(Served) <= Workers

DetectorInit ==
    /\ dMain = "set_live" /\ dSignal = FALSE
    /\ dHealth = [live |-> FALSE, ready |-> FALSE, serving |-> FALSE, http |-> FALSE]
    /\ dServer = "off" /\ dSched = "new"
    /\ dCalls = [s \in Streams |-> [at |-> "none", frames |-> 0, said |-> "none",
                                    cancelled |-> FALSE]]

-----------------------------------------------------------------------------
(* start().                                                                 *)

SetLive ==
    /\ dMain = "set_live" /\ dMain' = "start_scheduler"
    /\ dHealth' = [dHealth EXCEPT !.live = TRUE, !.http = TRUE]
    /\ UNCHANGED <<dSignal, dServer, dSched, dCalls>>

StartScheduler ==
    /\ dMain = "start_scheduler"
    /\ \/ dSched' = "open" /\ dMain' = "start_grpc"
       \/ dMain' = "failed" /\ UNCHANGED dSched
    /\ UNCHANGED <<dSignal, dHealth, dServer, dCalls>>

StartGrpc ==
    /\ dMain = "start_grpc"
    /\ \/ dServer' = "open" /\ dMain' = "announce"
       \/ dMain' = "failed" /\ UNCHANGED dServer
    /\ UNCHANGED <<dSignal, dHealth, dSched, dCalls>>

(* The except clause: what was started is taken down before it is re-raised. *)
StartFails ==
    /\ dMain = "failed" /\ dMain' = "raised"
    /\ dHealth' = [dHealth EXCEPT !.live = FALSE, !.http = FALSE]
    /\ dSched' = IF dSched = "open" THEN "closed" ELSE dSched
    /\ UNCHANGED <<dSignal, dServer, dCalls>>

Announce ==
    /\ dMain = "announce" /\ dMain' = "runs"
    /\ dHealth' = [dHealth EXCEPT !.serving = TRUE, !.ready = TRUE]
    /\ UNCHANGED <<dSignal, dServer, dSched, dCalls>>

-----------------------------------------------------------------------------
(* stop(), in main's finally clause.                                        *)

Signal ==
    /\ ~dSignal /\ dSignal' = TRUE
    /\ UNCHANGED <<dMain, dHealth, dServer, dSched, dCalls>>

BeginStop ==
    /\ dMain = "runs" /\ dSignal /\ dMain' = "unready"
    /\ UNCHANGED <<dSignal, dHealth, dServer, dSched, dCalls>>

(* A slip: the scheduler is closed before the gRPC server has ended.        *)
UnreadyAndClose ==
    /\ dMain = "unready" /\ dMain' = "stop_grpc"
    /\ dHealth' = [dHealth EXCEPT !.ready = FALSE, !.serving = FALSE]
    /\ dSched' = "closed"
    /\ UNCHANGED <<dSignal, dServer, dCalls>>

Unready ==
    /\ dMain = "unready" /\ dMain' = "stop_grpc"
    /\ dHealth' = [dHealth EXCEPT !.ready = FALSE, !.serving = FALSE]
    /\ UNCHANGED <<dSignal, dServer, dSched, dCalls>>

(* stop(grace_seconds): no new calls; the open ones have until the grace is  *)
(* over.                                                                     *)
StopGrpc ==
    /\ dMain = "stop_grpc" /\ dMain' = "wait_grpc" /\ dServer' = "stopping"
    /\ UNCHANGED <<dSignal, dHealth, dSched, dCalls>>

GraceEnds ==
    /\ dServer = "stopping" /\ dServer' = "cancelled"
    /\ dCalls' = [s \in Streams |->
          IF dCalls[s].at \in {"none", "done"} THEN dCalls[s]
          ELSE [dCalls[s] EXCEPT !.cancelled = TRUE]]
    /\ UNCHANGED <<dMain, dSignal, dHealth, dSched>>

(* wait(timeout=grace_seconds + 1): every call ended, or the grace is over   *)
(* for a second and a handler still has not come back. gRPC counts a call    *)
(* its client cancelled as ended, although its handler may still run.        *)
WaitGrpc ==
    /\ dMain = "wait_grpc" /\ dMain' = "close_scheduler"
    /\ \/ dServer = "cancelled"
       \/ \A s \in Streams : dCalls[s].at \in {"none", "done"} \/ dCalls[s].cancelled
    /\ UNCHANGED <<dSignal, dHealth, dServer, dSched, dCalls>>

(* scheduler.close() stops admission, then returns or raises TimeoutError:   *)
(* then the process ends without set_live(False) and with its HTTP open.     *)
CloseScheduler ==
    /\ dMain = "close_scheduler" /\ dMain' \in {"set_dead", "raised"}
    /\ dSched' = "closed"
    /\ UNCHANGED <<dSignal, dHealth, dServer, dCalls>>

SetDead ==
    /\ dMain = "set_dead" /\ dMain' = "returned"
    /\ dHealth' = [dHealth EXCEPT !.live = FALSE, !.http = FALSE]
    /\ UNCHANGED <<dSignal, dServer, dSched, dCalls>>

-----------------------------------------------------------------------------
(* Detect(): a thread serves one call until its requests end.               *)

Serves(s, next) ==
    /\ dCalls' = [dCalls EXCEPT ![s] = next]
    /\ UNCHANGED <<dMain, dSignal, dHealth, dServer, dSched>>

Opens(s) ==
    /\ dServer = "open" /\ dCalls[s].at = "none"
    /\ Serves(s, [dCalls[s] EXCEPT !.at = "queued"])

(* A thread of the pool takes the call; a wrong token aborts it.            *)
RequireAuthentication(s) ==
    /\ dCalls[s].at = "queued"
    /\ Cardinality(Served) < Workers
    /\ \E at \in {"next", "done"} : Serves(s, [dCalls[s] EXCEPT !.at = at])

(* The requests end, or the call was cancelled.                             *)
RequestsEnd(s) ==
    /\ dCalls[s].at = "next"
    /\ Serves(s, [dCalls[s] EXCEPT !.at = "done"])

Says(s, code) == [dCalls[s] EXCEPT !.at = "responds", !.said = code]

(* request_iterator yields a frame.                                          *)
Receives(s) ==
    /\ dCalls[s].at = "next" /\ ~dCalls[s].cancelled /\ dCalls[s].frames < MaxFrames
    /\ Serves(s, [dCalls[s] EXCEPT !.at = "received", !.frames = @ + 1])

(* The frame is refused by _validate_request, by a full queue or by a closed *)
(* scheduler, or it is admitted; nobody looks whether the call still lives.  *)
Submit(s) ==
    /\ dCalls[s].at = "received"
    /\ \/ \E code \in {"expired", "invalid_frame"} : Serves(s, Says(s, code))
       \/ dSched # "open" /\ Serves(s, Says(s, "shutting_down"))
       \/ dSched = "open" /\ Serves(s, Says(s, "overloaded"))
       \/ dSched = "open" /\ Serves(s, [dCalls[s] EXCEPT !.at = "submitted"])

(* The scheduler answers what it admitted, open or draining.                *)
Answered(s) ==
    /\ dCalls[s].at = "submitted"
    /\ \E code \in {"ok", "expired", "invalid_frame", "inference_error"} : Serves(s, Says(s, code))

(* yield: the client takes the response, or the call is gone.               *)
Responds(s) ==
    /\ dCalls[s].at = "responds"
    /\ Serves(s, [dCalls[s] EXCEPT !.at = IF dCalls[s].cancelled THEN "done" ELSE "next"])

Cancels(s) ==
    /\ dCalls[s].at \notin {"none", "done"} /\ ~dCalls[s].cancelled
    /\ Serves(s, [dCalls[s] EXCEPT !.cancelled = TRUE])

MainStep ==
    \/ SetLive \/ StartScheduler \/ StartGrpc \/ StartFails \/ Announce
    \/ BeginStop \/ Unready \/ StopGrpc \/ WaitGrpc \/ CloseScheduler \/ SetDead

DetectorNext ==
    \/ MainStep \/ Signal \/ GraceEnds
    \/ \E s \in Streams : \/ Opens(s) \/ RequireAuthentication(s) \/ RequestsEnd(s)
                          \/ Receives(s) \/ Submit(s) \/ Answered(s) \/ Responds(s) \/ Cancels(s)

DetectorSpec == DetectorInit /\ [][DetectorNext]_detectorVars

-----------------------------------------------------------------------------
(* Properties.                                                              *)

(* A stop is graceful: while the process says it is ready, and for every     *)
(* call the grace still runs for, the scheduler accepts frames; "detector is *)
(* shutting down" is never the answer to a client that still listens         *)
(* (application.py stop(): readiness, then gRPC, then the scheduler).        *)
ShutdownIsGraceful ==
    /\ dHealth.ready => dServer = "open" /\ dSched = "open"
    /\ \A s \in Streams : dCalls[s].said = "shutting_down" => dCalls[s].cancelled
=============================================================================

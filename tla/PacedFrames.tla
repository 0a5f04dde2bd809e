---------------------------- MODULE PacedFrames ----------------------------
(***************************************************************************)
(* gpu_detector/continuous_client.py: PacedFrameRequests, the generator    *)
(* gRPC draws the frames from. It sleeps until the next frame is due; when *)
(* the stream takes none for a while (backpressure), it is held at yield.  *)
(***************************************************************************)
EXTENDS Integers, Sequences

CONSTANTS
    Interval,     \* 1 / total_fps, in units of time
    Duration,     \* duration_seconds
    CameraStreams,\* stream_count
    MaxFrameTime  \* bound: when the model's clock stops

ASSUME PacedAssumption ==
    /\ {Interval, Duration, CameraStreams} \subseteq Nat \ {0} /\ MaxFrameTime \in Nat

VARIABLES
    fClock,  \* time.monotonic()
    fAt,     \* "test", "wait", "held" at yield, "ended"
    fNow,    \* now, as last read
    fNext,   \* next_send
    fStop,   \* stop_event
    fFrameIds,\* frame_ids: the number of the last frame of each stream
    fSent    \* the frames yielded: [at, stream, id]; its length is sent_count

pacedVars == <<fClock, fAt, fNow, fNext, fStop, fFrameIds, fSent>>

PacedTypeOK ==
    /\ fClock \in 0 .. MaxFrameTime /\ fNow \in 0 .. fClock /\ fNext \in Nat
    /\ fAt \in {"test", "wait", "held", "ended"} /\ fStop \in BOOLEAN
    /\ fFrameIds \in [0 .. CameraStreams - 1 -> Nat]
    /\ \A n \in DOMAIN fSent : fSent[n].at \in 0 .. fClock /\ fSent[n].stream < CameraStreams

PacedInit ==
    /\ fClock = 0 /\ fAt = "test" /\ fNow = 0 /\ fNext = 0 /\ fStop = FALSE /\ fSent = << >>
    /\ fFrameIds = [s \in 0 .. CameraStreams - 1 |-> 0]

FrameTick ==
    /\ fClock < MaxFrameTime /\ fClock' = fClock + 1
    /\ UNCHANGED <<fAt, fNow, fNext, fStop, fFrameIds, fSent>>

StopEvent ==
    /\ ~fStop /\ fStop' = TRUE
    /\ UNCHANGED <<fClock, fAt, fNow, fNext, fFrameIds, fSent>>

(* while not stop_event.is_set(): the first reading of the clock.           *)
TestStop ==
    /\ fAt = "test" /\ fNow' = fClock
    /\ fAt' = IF fStop \/ fClock >= Duration THEN "ended" ELSE "wait"
    /\ UNCHANGED <<fClock, fNext, fStop, fFrameIds, fSent>>

(* stop_event.wait(): true ends the generator. A frame goes out when it is   *)
(* due, numbered within its stream, round robin.                             *)
WaitAndYield ==
    /\ fAt = "wait" /\ (fStop \/ fClock >= fNext)
    /\ IF fStop \/ fClock >= Duration
       THEN fAt' = "ended" /\ UNCHANGED <<fNow, fFrameIds, fSent>>
       ELSE LET stream == Len(fSent) % CameraStreams IN
            /\ fAt' = "held" /\ fNow' = fClock
            /\ fFrameIds' = [fFrameIds EXCEPT ![stream] = @ + 1]
            /\ fSent' = Append(fSent, [at |-> fClock, stream |-> stream, id |-> fFrameIds'[stream]])
    /\ UNCHANGED <<fClock, fNext, fStop>>

(* A slip: a frame that was due while the stream was held is caught up.     *)
ResumesLate ==
    /\ fAt = "held" /\ fAt' = "test"
    /\ fNext' = fNext + Interval
    /\ UNCHANGED <<fClock, fNow, fStop, fFrameIds, fSent>>

(* gRPC asks for the next frame; now is still the time before the yield.    *)
Resumes ==
    /\ fAt = "held" /\ fAt' = "test"
    /\ fNext' = IF fNext + Interval < fNow THEN fNow + Interval ELSE fNext + Interval
    /\ UNCHANGED <<fClock, fNow, fStop, fFrameIds, fSent>>

PacedNext == FrameTick \/ StopEvent \/ TestStop \/ WaitAndYield \/ Resumes

PacedSpec == PacedInit /\ [][PacedNext]_pacedVars

-----------------------------------------------------------------------------
(* Properties.                                                              *)

(* However long the stream was held, at most one frame is caught up: three    *)
(* frames never leave within one interval ("without catch-up bursts"), none   *)
(* leaves before it is due, and the streams take turns without a gap in       *)
(* their numbers, so none is ahead of another by more than one.               *)
FramesArePaced ==
    \A n \in DOMAIN fSent :
        /\ n > 2 => fSent[n].at - fSent[n - 2].at >= Interval
        /\ fSent[n].at >= (n - 1) * Interval
        /\ fSent[n].id = (n - 1) \div CameraStreams + 1
=============================================================================

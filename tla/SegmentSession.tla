--------------------------- MODULE SegmentSession ---------------------------
(***************************************************************************)
(* SegmentPipeline with the client it is written for, the CPU backend's    *)
(* segment API (tts_300m_sft_service/cpu_client/tts_client.py): one thread *)
(* sends, another receives and checks every event against what the client  *)
(* believes of the pipeline; an event out of place ends the stream.        *)
(***************************************************************************)
EXTENDS SegmentPipeline

CONSTANT Oversized   \* segments whose message is longer than max_message_bytes

ASSUME OversizedAssumption == Oversized \subseteq Ids

VARIABLES
    outbox,   \* events on their way to the client
    view,     \* what the client believes, see SessionInit
    holding,  \* the message registered under the lock and not yet sent
    link      \* how the client's connection is, or how it ended

clientVars == <<outbox, view, holding, link>>
sessionVars == <<vars, clientVars>>

Outstanding(v) == {v.segments[n].id : n \in DOMAIN v.segments}

(* Such a message is refused unread: the error names no segment.            *)
Uncorrelated == [kind |-> "error", id |-> None]

(* view.segments is _segments in order, each [id, acked]; accepted is        *)
(* _accepted_ids, audio _audio_segment, cancel _segment_cancel; misled is    *)
(* true once an event raised.                                                *)
SessionInit ==
    /\ Init
    /\ outbox = << >> /\ holding = NoMessage /\ link = "up"
    /\ view = [segments |-> << >>, accepted |-> {}, audio |-> None, cancel |-> None,
               misled |-> FALSE]

-----------------------------------------------------------------------------
(* _segment_frame(): what one event makes of the view.                      *)

(* The oldest segment not yet acknowledged is i.                            *)
FirstUnacked(v, i) ==
    \E n \in DOMAIN v.segments :
        /\ v.segments[n] = [id |-> i, acked |-> FALSE]
        /\ \A k \in 1 .. n - 1 : v.segments[k].acked

Without(v, i) ==
    LET place == CHOOSE n \in DOMAIN v.segments : v.segments[n].id = i
    IN  RemoveAt(v.segments, place)

Misled(v) == [v EXCEPT !.misled = TRUE]

(* A slip: an answer to a cancellation that came too late is unexpected.    *)
RefusedStrictly(v, i) ==
    IF FirstUnacked(v, i) THEN [v EXCEPT !.segments = Without(v, i)] ELSE Misled(v)

(* A rejected segment is free to be sent again; a refused cancellation came *)
(* too late; a refusal of nothing the client knows of raises.               *)
Refused(v, i) ==
    IF i = None THEN Misled(v)
    ELSE IF i = v.cancel THEN [v EXCEPT !.cancel = None]
    ELSE IF FirstUnacked(v, i) THEN [v EXCEPT !.segments = Without(v, i)] ELSE Misled(v)

Acknowledged(v, i) ==
    IF FirstUnacked(v, i) /\ i \notin v.accepted
    THEN [v EXCEPT !.accepted = @ \cup {i},
                   !.segments = [n \in DOMAIN @ |->
                       IF @[n].id = i THEN [id |-> i, acked |-> TRUE] ELSE @[n]]]
    ELSE Misled(v)

StartedAudio(v, i) ==
    IF v.audio = None /\ v.segments # << >> /\ Head(v.segments) = [id |-> i, acked |-> TRUE]
    THEN [v EXCEPT !.audio = i] ELSE Misled(v)

EndedAudio(v, i) ==
    IF i = v.audio THEN [v EXCEPT !.segments = Without(v, i), !.audio = None] ELSE Misled(v)

(* A slip: only the cancelled segment is dropped, not what waited behind.   *)
CancelledOne(v, i) ==
    IF i = v.cancel /\ i = v.audio
    THEN [v EXCEPT !.segments = Without(v, i), !.audio = None, !.cancel = None]
    ELSE Misled(v)

CancelledAll(v, i) ==
    IF i = v.cancel /\ i = v.audio
    THEN [v EXCEPT !.segments = << >>, !.audio = None, !.cancel = None]
    ELSE Misled(v)

Reads(v, e) ==
    CASE e.kind = "accepted"  -> Acknowledged(v, e.id)
      [] e.kind = "start"     -> StartedAudio(v, e.id)
      [] e.kind = "audio"     -> IF v.audio # None THEN v ELSE Misled(v)
      [] e.kind = "done"      -> EndedAudio(v, e.id)
      [] e.kind = "cancelled" -> CancelledAll(v, e.id)
      [] e.kind \in {"rejected", "error"} -> Refused(v, e.id)
      [] OTHER -> v

-----------------------------------------------------------------------------
(* The calls of the sending thread, under the send lock.                    *)

(* The text need only not be empty; what receive_message() finds too large  *)
(* is for the server like anything else it cannot read.                     *)
MessageFor(i, ok) == IF i \in Oversized THEN JunkMessage ELSE SegmentMessage(i, ok)

SendSegment(i, ok) ==
    /\ link = "up" /\ holding = NoMessage
    /\ view.cancel = None
    /\ i \notin Outstanding(view) \cup view.accepted
    /\ view' = [view EXCEPT !.segments = Append(@, [id |-> i, acked |-> FALSE])]
    /\ holding' = MessageFor(i, ok)
    /\ UNCHANGED <<vars, outbox, link>>

CancelSegment ==
    /\ link = "up" /\ holding = NoMessage
    /\ view.cancel = None /\ view.audio # None
    /\ view' = [view EXCEPT !.cancel = view.audio]
    /\ holding' = CancelMessage(view.audio)
    /\ UNCHANGED <<vars, outbox, link>>

Send ==
    /\ holding # NoMessage
    /\ PeerSends(holding)
    /\ holding' = NoMessage
    /\ UNCHANGED <<outbox, view, link>>

(* close() asks for the close only when nothing is outstanding.             *)
CloseClient ==
    /\ link = "up" /\ holding = NoMessage
    /\ link' = "left"
    /\ connected' = FALSE
    /\ inbox' = IF view.segments = << >> /\ view.cancel = None
                THEN Append(inbox, CloseMessage) ELSE inbox
    /\ outbox' = << >>
    /\ UNCHANGED <<said, wire, queueVars, flagVars, lock, recvVars, workVars, superVars,
                   view, holding>>

(* The receiving thread; a failure disconnects, and what is on its way is   *)
(* never read.                                                              *)
Fails(why) ==
    /\ link' = why
    /\ outbox' = << >>
    /\ holding' = NoMessage
    /\ PeerLeaves

ReceiveFrame ==
    /\ link = "up" /\ outbox # << >>
    /\ view' = Reads(view, Head(outbox))
    /\ IF view'.misled THEN Fails(IF Head(outbox) = Uncorrelated THEN "uncorrelated" ELSE "misled")
       ELSE IF Head(outbox).kind = "fatal" THEN Fails("fatal")
       ELSE outbox' = Tail(outbox) /\ UNCHANGED <<vars, holding, link>>

(* A recv() or a send() that meets the end of the connection.               *)
SeesClose ==
    /\ link = "up" /\ supervisor = "released"
    /\ outbox = << >> \/ holding # NoMessage
    /\ Fails("closed")
    /\ UNCHANGED view

(* recv() waits no longer than timeout_seconds.                             *)
TimesOut ==
    /\ link = "up" /\ outbox = << >>
    /\ Fails("closed")
    /\ UNCHANGED view

-----------------------------------------------------------------------------
(* Every write of the server travels to the client.                         *)
Serves ==
    /\ ServerStep
    /\ outbox' = IF wire' # wire THEN Append(outbox, wire'.event) ELSE outbox
    /\ UNCHANGED <<view, holding, link>>

SessionNext ==
    \/ Serves
    \/ \E i \in Ids, ok \in BOOLEAN : SendSegment(i, ok)
    \/ CancelSegment \/ Send \/ CloseClient \/ ReceiveFrame \/ SeesClose
    \/ TimesOut

SessionSpec ==
    /\ SessionInit /\ [][SessionNext]_sessionVars
    /\ WF_sessionVars(Serves /\ ReceiverStep)
    /\ WF_sessionVars(Serves /\ WorkerStep)
    /\ WF_sessionVars(Serves /\ SupervisorStep)
    /\ WF_sessionVars(Send) /\ WF_sessionVars(ReceiveFrame) /\ WF_sessionVars(SeesClose)

-----------------------------------------------------------------------------
(* Properties.                                                             *)

(* The client's order checks never refuse what a server that did not fail   *)
(* writes, also when its cancellation crosses the end of the segment: only  *)
(* the refusal of an oversized message, which the client cannot place,      *)
(* makes it give up the connection, and then that segment is still among    *)
(* the unfinished ones it reports.                                          *)
OnlyOversizedMisleads ==
    /\ link # "misled"
    /\ link = "uncorrelated" =>
           \E n \in DOMAIN view.segments :
              ~view.segments[n].acked /\ view.segments[n].id \in Oversized

(* The accepted segments still to be spoken, first the one being spoken.    *)
Unspoken == (IF active = None THEN << >> ELSE <<active>>) \o pending

(* Once the events in flight are read, the client believes what is the case *)
(* at the server: which segments are outstanding, in which order, and which *)
(* one is spoken.  So unfinished_segment_ids names what was not spoken.     *)
ViewsAgree ==
    LET v == FoldLeft(Reads, view, outbox)
    IN  link = "up" /\ ~stopping /\ (\A n \in DOMAIN outbox : outbox[n] # Uncorrelated) =>
            /\ v.audio = IF started THEN active ELSE None
            /\ v.accepted = acceptedIds
            /\ ~cancelled =>
                  /\ \A n \in DOMAIN v.segments : v.segments[n].acked <=> n <= Len(Unspoken)
                  /\ \A n \in DOMAIN Unspoken :
                        n \in DOMAIN v.segments /\ v.segments[n].id = Unspoken[n]

(* A cancellation is answered: confirmed, or refused because it came late,  *)
(* unless the connection ends.                                              *)
CancelIsAnswered == view.cancel # None /\ holding = NoMessage ~> view.cancel = None \/ link # "up"
=============================================================================

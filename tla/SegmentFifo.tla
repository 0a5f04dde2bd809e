---------------------------- MODULE SegmentFifo ----------------------------
(***************************************************************************)
(* What a 300M TTS session promises its client, as contracts/              *)
(* tts-websocket.md words it: accepted segments are spoken one at a time,  *)
(* in the order of their acknowledgements, the events of two segments      *)
(* never interleave, a cancellation silences the segment being spoken and  *)
(* drops everything waiting, an ID is never accepted twice.  Once the      *)
(* session is ending (a failure, a close, a disconnect) the writes already *)
(* under way may still go out, but nothing waiting is begun.               *)
(*                                                                         *)
(* SegmentPipeline implements this specification.                          *)
(***************************************************************************)
EXTENDS Naturals, Sequences

CONSTANTS Ids, None

VARIABLES
    wire,        \* the latest event the client can see; odd tells two writes apart
    connected,   \* the client is there to see them
    used,        \* the IDs accepted so far
    waiting,     \* accepted segments, not yet begun, in order
    speaking,    \* the segment between its start and its end
    cancelling,  \* a cancellation of that segment was accepted
    open         \* the session is not ending

vars == <<wire, connected, used, waiting, speaking, cancelling, open>>

After(w, k, i) == [event |-> [kind |-> k, id |-> i], odd |-> ~w.odd]
Emit(k, i)     == wire' = IF connected THEN After(wire, k, i) ELSE wire

Init ==
    /\ wire = [event |-> [kind |-> "created", id |-> None], odd |-> FALSE]
    /\ connected = TRUE
    /\ used = {} /\ waiting = << >> /\ speaking = None
    /\ cancelling = FALSE /\ open = TRUE

Accept(i) ==
    /\ i \notin used
    /\ open => ~cancelling
    /\ Emit("accepted", i)
    /\ used' = used \cup {i}
    /\ waiting' \in {Append(waiting, i)} \cup (IF open THEN {} ELSE {waiting})
    /\ UNCHANGED <<connected, speaking, cancelling, open>>

(* A refusal, of a segment or of anything else, changes nothing.            *)
Refuse ==
    /\ \E k \in {"rejected", "error"}, i \in Ids \cup {None} : Emit(k, i)
    /\ UNCHANGED <<connected, used, waiting, speaking, cancelling, open>>

Begin ==
    /\ speaking = None
    /\ waiting # << >>
    /\ Emit("start", Head(waiting))
    /\ speaking' = Head(waiting)
    /\ waiting' = Tail(waiting)
    /\ UNCHANGED <<connected, used, cancelling, open>>

Speak ==
    /\ speaking # None
    /\ open => ~cancelling
    /\ Emit("audio", speaking)
    /\ UNCHANGED <<connected, used, waiting, speaking, cancelling, open>>

End(k) ==
    /\ speaking # None
    /\ open => (k = "cancelled") = cancelling
    /\ Emit(k, speaking)
    /\ speaking' = None
    /\ cancelling' = FALSE
    /\ UNCHANGED <<connected, used, waiting, open>>

RequestCancel ==
    /\ open
    /\ speaking # None
    /\ ~cancelling
    /\ cancelling' = TRUE
    /\ waiting' = << >>
    /\ UNCHANGED <<wire, connected, used, speaking, open>>

Disconnect ==
    /\ connected
    /\ connected' = FALSE
    /\ UNCHANGED <<wire, used, waiting, speaking, cancelling, open>>

(* The session starts to end: what waits is dropped, except a segment whose *)
(* turn had come.                                                           *)
Shut ==
    /\ open
    /\ open' = FALSE
    /\ cancelling' = FALSE
    /\ waiting' \in {<< >>} \cup {<<w>> : w \in {waiting[n] : n \in DOMAIN waiting \cap {1}}}
    /\ UNCHANGED <<wire, connected, used, speaking>>

(* While ending: an acknowledgement in flight, or the fatal error event.    *)
LastWords ==
    /\ ~open
    /\ \/ \E i \in Ids \ used : Emit("accepted", i)
       \/ \E i \in Ids \cup {None} : Emit("fatal", i)
    /\ UNCHANGED <<connected, used, waiting, speaking, cancelling, open>>

Next ==
    \/ \E i \in Ids : Accept(i)
    \/ Refuse
    \/ Begin
    \/ Speak
    \/ \E k \in {"done", "cancelled"} : End(k)
    \/ RequestCancel
    \/ Disconnect
    \/ Shut
    \/ LastWords

Spec == Init /\ [][Next]_vars
=============================================================================

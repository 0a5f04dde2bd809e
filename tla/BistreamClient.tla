--------------------------- MODULE BistreamClient ---------------------------
(***************************************************************************)
(* The CPU backend's TtsRealtimeClient (tts_service/cpu_client             *)
(* /tts_client.py) against BistreamSession: synthesize() reads events      *)
(* while its sender thread writes text, cancel_active() comes from a third *)
(* thread, and the connection is reused by the next call.                  *)
(***************************************************************************)
EXTENDS BistreamSession

CONSTANTS
    MaxCalls,        \* bound: synthesize() calls
    MaxTexts,        \* bound: texts of one call
    MaxConnections,  \* bound: connect() calls
    OddTexts         \* the caller may pass text the server refuses

ASSUME ClientAssumption ==
    /\ MaxCalls \in Nat /\ MaxTexts \in Nat \ {0} /\ MaxConnections \in Nat
    /\ OddTexts \in BOOLEAN

VARIABLES
    main,        \* where connect() and synthesize() are
    call,        \* number of the latest call
    heard,       \* _active_utterance_id, 0 before audio.start
    cancelling,  \* _cancel_requested and the cancel event
    sender,      \* where the sender thread is
    left,        \* texts the call has not sent
    canceller,   \* the utterance cancel_active() is about to name, or 0
    failure,     \* why the latest call raised
    opened       \* connections opened

clientVars == <<main, call, heard, cancelling, sender, left, canceller, failure, opened>>
vars == <<sessionVars, clientVars>>

Kinds == {"text", "done", "cancel", "close"}
Codes == {"none", "invalid_text", "invalid_state", "invalid_utterance", "input_timeout",
          "input_backpressure", "inference_failed"}
Events == [kind : {"created", "start", "audio", "done", "cancelled", "error", "hangup"},
           utt : Nat, code : Codes]

TypeOK ==
    /\ inbox \in Seq([kind : Kinds, of : Nat, ok : BOOLEAN])
    /\ outbox \in Seq(Events)
    /\ connected \in BOOLEAN /\ slot \in BOOLEAN /\ inputDone \in BOOLEAN
    /\ phase \in {"none", "write", "idle", "wait", "append", "cleanup", "hangup"}
    /\ writing \in [event : Events, next : {"none", "idle", "wait", "cleanup", "hangup"}]
    /\ utterance \in Nat /\ text \in 0 .. MaxCalls /\ chunks \in 0 .. MaxChunks
    /\ stream.items \in Seq(1 .. MaxCalls) \cup {<<0>>} /\ Len(stream.items) <= MaxItems
    /\ stream.finished \in BOOLEAN /\ stream.cancelled \in BOOLEAN
    /\ vendor \in {"none", "running", "chunk", "paused", "ended", "quit", "failed"}
    /\ outcome \in {"idle", "cancelled", "eof", "output_timeout"} \cup Codes
    /\ main \in {"down", "opening", "idle", "recv", "join"}
    /\ call \in 0 .. MaxCalls /\ heard \in Nat /\ canceller \in Nat
    /\ cancelling \in BOOLEAN
    /\ sender \in {"none", "first", "more", "hold", "last", "ended"}
    /\ left \in 0 .. MaxTexts /\ opened \in 0 .. MaxConnections
    /\ failure \in Codes \cup {"sequence", "hangup", "caller"}

Init ==
    /\ SessionInit
    /\ main = "down" /\ call = 0 /\ heard = 0 /\ cancelling = FALSE
    /\ sender = "none" /\ left = 0 /\ canceller = 0 /\ failure = "none" /\ opened = 0

-----------------------------------------------------------------------------
(* connect() and close().                                                   *)

Connect ==
    /\ main = "down" /\ opened < MaxConnections
    /\ opened' = opened + 1
    /\ failure' = "none"
    /\ \/ Admit /\ main' = "opening"
       \/ AcceptFails /\ main' = "down"
       \/ slot /\ UNCHANGED <<sessionVars, main>>  \* closed 1013
    /\ UNCHANGED <<call, heard, cancelling, sender, left, canceller>>

(* _disconnect(): the socket is closed; what was under way raises.          *)
Disconnect(why) ==
    /\ main' = "down"
    /\ connected' = FALSE
    /\ outbox' = << >>
    /\ sender' = "none" /\ left' = 0 /\ canceller' = 0
    /\ heard' = 0 /\ cancelling' = FALSE
    /\ failure' = why

CloseClient ==
    /\ main = "idle"
    /\ Disconnect("none")
    /\ inbox' = Append(inbox, Close)
    /\ UNCHANGED <<phase, writing, uttVars, slot, call, opened>>

-----------------------------------------------------------------------------
(* synthesize(): the call starts its sender thread and reads events.        *)

Synthesize ==
    /\ main = "idle" /\ call < MaxCalls
    /\ call' = call + 1
    /\ left' \in 1 .. MaxTexts
    /\ main' = "recv"
    /\ heard' = 0
    /\ cancelling' = FALSE
    /\ sender' = "first"
    /\ UNCHANGED <<sessionVars, canceller, failure, opened>>

(* What an event means to the reader; "bad" raises.                         *)
Meaning(e) ==
    IF main = "opening" THEN IF e.kind = "created" THEN "open" ELSE "bad"
    ELSE IF e.kind = "audio" THEN IF heard # 0 THEN "yield" ELSE "bad"
    ELSE IF e.kind = "start" THEN IF heard = 0 THEN "start" ELSE "bad"
    ELSE IF e.kind \in {"done", "cancelled"}
    THEN IF heard # 0 /\ e.utt = heard /\ (e.kind = "done" \/ cancelling)
         THEN "end" ELSE "bad"
    ELSE "bad"

Raised(e) == IF e.kind = "error" THEN e.code
             ELSE IF e.kind = "hangup" THEN "hangup" ELSE "sequence"

Receive ==
    /\ main \in {"opening", "recv"} /\ outbox # << >>
    /\ LET e == Head(outbox)
           m == Meaning(e)
       IN  IF m = "bad"
           THEN Disconnect(Raised(e))
           ELSE /\ outbox' = Tail(outbox)
                /\ main' = CASE m = "open" -> "idle" [] m = "end" -> "join" [] OTHER -> "recv"
                /\ heard' = IF m = "start" THEN e.utt ELSE heard
                /\ UNCHANGED <<connected, sender, left, canceller, cancelling, failure>>
    /\ UNCHANGED <<inbox, phase, writing, uttVars, slot, call, opened>>

(* The end of the utterance was read: the sender thread is joined.          *)
Join ==
    /\ main = "join" /\ sender = "ended"
    /\ main' = "idle"
    /\ heard' = 0
    /\ cancelling' = FALSE
    /\ sender' = "none"
    /\ UNCHANGED <<sessionVars, call, left, canceller, failure, opened>>

(* The caller abandons the call, or recv() times out.                       *)
GiveUp ==
    /\ main \in {"opening", "recv"}
    /\ Disconnect("caller")
    /\ UNCHANGED <<inbox, phase, writing, uttVars, slot, call, opened>>

-----------------------------------------------------------------------------
(* The sender thread: between its look at the cancel event and its write    *)
(* the call may be cancelled.                                               *)

SenderChecks ==
    /\ sender = "more"
    /\ sender' = IF cancelling THEN "ended" ELSE IF left = 0 THEN "last" ELSE "hold"
    /\ UNCHANGED <<sessionVars, main, call, heard, cancelling, left, canceller, failure, opened>>

SenderWrites ==
    /\ sender \in {"first", "hold", "last"}
    /\ IF sender = "last"
       THEN inbox' = Append(inbox, Done) /\ sender' = "ended" /\ UNCHANGED left
       ELSE /\ \E ok \in {TRUE, ~OddTexts} : inbox' = Append(inbox, Text(call, ok))
            /\ sender' = "more"
            /\ left' = left - 1
    /\ UNCHANGED <<outbox, connected, phase, writing, uttVars, slot, main, call, heard,
                   cancelling, canceller, failure, opened>>

-----------------------------------------------------------------------------
(* cancel_active(): the request is recorded under the lock, then sent.      *)

(* A slip: the call ends with the request, not with its confirmation.       *)
RequestCancelReturns ==
    /\ main \in {"recv", "join"} /\ heard # 0
    /\ ~cancelling /\ canceller = 0
    /\ cancelling' = TRUE
    /\ canceller' = heard
    /\ main' = "idle"
    /\ UNCHANGED <<sessionVars, call, heard, sender, left, failure, opened>>

RequestCancel ==
    /\ main \in {"recv", "join"} /\ heard # 0
    /\ ~cancelling /\ canceller = 0
    /\ cancelling' = TRUE
    /\ canceller' = heard
    /\ UNCHANGED <<sessionVars, main, call, heard, sender, left, failure, opened>>

SendCancel ==
    /\ canceller # 0
    /\ inbox' = Append(inbox, Cancel(canceller))
    /\ canceller' = 0
    /\ UNCHANGED <<outbox, connected, phase, writing, uttVars, slot, main, call, heard,
                   cancelling, sender, left, failure, opened>>

-----------------------------------------------------------------------------
ReaderStep == Receive \/ Join

(* The text source may starve its sender, but cancel() wakes it.            *)
SenderWakes == cancelling /\ SenderChecks

Next ==
    \/ SessionStep /\ UNCHANGED clientVars
    \/ ReaderStep \/ SenderChecks \/ SenderWrites \/ SendCancel
    \/ Connect \/ CloseClient \/ Synthesize \/ GiveUp \/ RequestCancel

(* Both programs' threads are scheduled; the caller need do nothing.        *)
Fairness ==
    /\ WF_vars(CoroutineStep /\ UNCHANGED clientVars)
    /\ WF_vars(VendorStep /\ UNCHANGED clientVars)
    /\ WF_vars(ReaderStep) /\ WF_vars(SendCancel)
    /\ WF_vars(SenderWakes) /\ WF_vars(SenderWrites)

Spec == Init /\ [][Next]_vars /\ Fairness

-----------------------------------------------------------------------------
(* Properties.                                                             *)

(* The reader never meets an event out of place: whatever cancellations and *)
(* late texts cross the server's events, each call sees one audio.start,    *)
(* then PCM, then the end of that utterance, or an error it can name.       *)
NoUnexpectedSequence == failure # "sequence"

(* The GPU model never serves two utterances: the coroutine is not back to  *)
(* idle, nor the slot free for another connection, before the generator of  *)
(* the last utterance was drained.                                          *)
GeneratorsNeverOverlap == phase = "idle" \/ ~slot => vendor = "none"

(* audio.done is the sign of success: when it is written to a client that   *)
(* still listens, everything its call had to say has been sent, received    *)
(* and read by the vendor (unless the vendor broke off by itself).          *)
DoneMeansSpoken ==
    connected /\ writing.event.kind = "done" /\ vendor = "ended" =>
        /\ sender = "ended" /\ stream.items = << >>
        /\ \A i \in DOMAIN inbox : inbox[i].kind # "text"

(* A cancelled call ends: the vendor stops reading, is drained, and the     *)
(* client gets an answer, even when its sender is in the middle of a text.  *)
CancelledCallEnds == cancelling ~> ~cancelling

(* An accepted session whose client is gone releases the only slot.         *)
AcceptedSessionFreesSlot == ~connected /\ phase # "none" ~> ~slot

(* cancel_active() keeps "the WebSocket reusable": no call on it is told    *)
(* that a message came in the wrong state.                                  *)
ReusableAfterCancel == failure \notin {"invalid_state", "invalid_utterance"}
=============================================================================

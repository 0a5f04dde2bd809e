-------------------------- MODULE BistreamSession --------------------------
(***************************************************************************)
(* One WebSocket session of the CosyVoice3 backend, as                     *)
(* tts_service/scripts/server.py serves it: utterances one after another,  *)
(* each reading text from and writing PCM to the same socket, over the     *)
(* bounded TextStream of engine.py that the vendor model reads.            *)
(*                                                                         *)
(* The coroutine is one process; its thread calls (append, next, close)    *)
(* let the vendor run meanwhile.  A text stands for the client call that   *)
(* sent it.  Every write is an await of its own, which may fail.           *)
(***************************************************************************)
EXTENDS Naturals, Sequences

CONSTANTS
    MaxItems,   \* text_queue_chunks
    MaxChunks   \* bound: PCM chunks the vendor yields in one utterance

ASSUME SessionAssumption == MaxItems \in Nat \ {0} /\ MaxChunks \in Nat

VARIABLES
    inbox,      \* messages sent to the server and not yet received
    outbox,     \* events written and not yet received by the client
    connected,  \* the client's end of the socket is open
    phase,      \* where the coroutine is
    writing,    \* the event being written, and the phase after it
    utterance,  \* number of the latest utterance_id
    stream,     \* the TextStream of the utterance
    inputDone,  \* input_done
    text,       \* the text a blocked append() carries
    vendor,     \* the vendor generator, and the output task over it
    chunks,     \* chunks it yielded in this utterance
    outcome,    \* how run_utterance() ends once it has cleaned up
    slot        \* the engine's single slot is taken

uttVars     == <<utterance, stream, inputDone, text, vendor, chunks, outcome>>
sessionVars == <<inbox, outbox, connected, phase, writing, uttVars, slot>>

(* What a client sends: text of a call, sound or not, and controls.         *)
Text(c, ok) == [kind |-> "text", of |-> c, ok |-> ok]
Done        == [kind |-> "done", of |-> 0, ok |-> TRUE]
Cancel(u)   == [kind |-> "cancel", of |-> u, ok |-> TRUE]
Close       == [kind |-> "close", of |-> 0, ok |-> TRUE]

(* What the server writes; an error carries its code.                       *)
Event(k, u) == [kind |-> k, utt |-> u, code |-> "none"]
Error(code) == [kind |-> "error", utt |-> 0, code |-> code]
Hangup      == Event("hangup", 0)
Nothing     == [event |-> Hangup, next |-> "none"]

NewStream(t)  == [items |-> <<t>>, finished |-> FALSE, cancelled |-> FALSE]
Finished(s)   == [s EXCEPT !.finished = TRUE]
Cancelled(s)  == [items |-> << >>, finished |-> TRUE, cancelled |-> TRUE]

SessionInit ==
    /\ inbox = << >> /\ outbox = << >> /\ connected = FALSE
    /\ phase = "none" /\ writing = Nothing
    /\ utterance = 0 /\ stream = Cancelled(NewStream(0)) /\ inputDone = FALSE
    /\ text = 0 /\ vendor = "none" /\ chunks = 0 /\ outcome = "idle"
    /\ slot = FALSE

Say(e, next) == phase' = "write" /\ writing' = [event |-> e, next |-> next]

-----------------------------------------------------------------------------
(* realtime(): the handshake takes the slot before it is accepted.          *)
Admit ==
    /\ ~slot /\ phase = "none"
    /\ slot' = TRUE
    /\ inbox' = << >> /\ outbox' = << >> /\ connected' = TRUE
    /\ Say(Event("created", 0), "idle")
    /\ UNCHANGED uttVars

(* accept() raises: outside the try, nothing releases the slot.             *)
AcceptFails ==
    /\ ~slot /\ phase = "none"
    /\ slot' = TRUE
    /\ UNCHANGED <<inbox, outbox, connected, phase, writing, uttVars>>

(* serve_session() returns: the close frame goes out, the slot is released. *)
Hangs ==
    /\ outbox' = IF connected THEN Append(outbox, Hangup) ELSE outbox
    /\ phase' = "none"
    /\ writing' = Nothing
    /\ slot' = FALSE

(* A slip: the text is not cancelled.                                       *)
FailsKeepsText(code) ==
    /\ UNCHANGED stream
    /\ outcome' = code
    /\ phase' = "cleanup"
    /\ writing' = Nothing

(* A fatal failure within an utterance: cancel the text, then clean up.     *)
Fails(code) ==
    /\ stream' = Cancelled(stream)
    /\ outcome' = code
    /\ phase' = "cleanup"
    /\ writing' = Nothing

InUtterance == vendor # "none" \/ writing.event.kind = "start"

(* An await on the socket returns.  A started or sounded utterance asks the *)
(* generator for its next chunk; one that met an error gives up its text.   *)
Written ==
    /\ phase = "write"
    /\ outbox' = IF connected THEN Append(outbox, writing.event) ELSE outbox
    /\ phase' = writing.next
    /\ writing' = Nothing
    /\ vendor' = IF writing.event.kind \in {"start", "audio"} THEN "running" ELSE vendor
    /\ stream' = IF writing.event.kind = "error" /\ writing.next = "cleanup"
                 THEN Cancelled(stream) ELSE stream
    /\ UNCHANGED <<inbox, connected, utterance, inputDone, text, chunks, outcome, slot>>

(* It times out, or raises because the client is gone.                      *)
WriteFails ==
    /\ phase = "write"
    /\ UNCHANGED <<inbox, connected, utterance, inputDone, text, vendor, chunks>>
    /\ \/ /\ InUtterance
          /\ \E code \in {"output_timeout", "inference_failed"} :
                (code = "output_timeout" \/ ~connected) /\ Fails(code)
          /\ UNCHANGED <<outbox, slot>>
       \/ ~InUtterance /\ Hangs /\ UNCHANGED <<stream, outcome>>

-----------------------------------------------------------------------------
(* serve_session() between utterances: receive_message, parse_idle_message. *)

IdleStart ==
    /\ phase = "idle"
    /\ inbox # << >> /\ Head(inbox).kind = "text" /\ Head(inbox).ok
    /\ inbox' = Tail(inbox)
    /\ utterance' = utterance + 1
    /\ stream' = NewStream(Head(inbox).of)
    /\ inputDone' = FALSE
    /\ chunks' = 0
    /\ Say(Event("start", utterance + 1), "wait")
    /\ UNCHANGED <<outbox, connected, text, vendor, outcome, slot>>

IdleRefuse ==
    /\ phase = "idle"
    /\ inbox # << >>
    /\ \/ Head(inbox).kind \in {"done", "cancel"}
       \/ Head(inbox).kind = "text" /\ ~Head(inbox).ok
    /\ inbox' = Tail(inbox)
    /\ Say(Error(IF Head(inbox).kind = "text" THEN "invalid_text" ELSE "invalid_state"),
           "idle")
    /\ UNCHANGED <<outbox, connected, uttVars, slot>>

IdleEnd ==
    /\ phase = "idle"
    /\ \/ inbox # << >> /\ Head(inbox).kind = "close" /\ inbox' = Tail(inbox)
       \/ inbox = << >> /\ ~connected /\ UNCHANGED inbox
    /\ Hangs
    /\ UNCHANGED <<connected, uttVars>>

IdleTimeout ==
    /\ phase = "idle" /\ inbox = << >>
    /\ Say(Error("input_timeout"), "hangup")
    /\ UNCHANGED <<inbox, outbox, connected, uttVars, slot>>

HangUp ==
    /\ phase = "hangup"
    /\ Hangs
    /\ UNCHANGED <<inbox, connected, uttVars>>

-----------------------------------------------------------------------------
(* run_utterance(): its loop takes a message or a finished output task.     *)

(* A slip: text_stream is not cancelled.                                    *)
CancelKeepsText(m) ==
    /\ m.kind = "cancel" /\ m.of = utterance
    /\ outcome' = "cancelled"
    /\ phase' = "cleanup"
    /\ UNCHANGED <<writing, inputDone, stream, text>>

TakeCancel(m) ==
    /\ m.kind = "cancel" /\ m.of = utterance
    /\ stream' = Cancelled(stream)
    /\ outcome' = "cancelled"
    /\ phase' = "cleanup"
    /\ UNCHANGED <<writing, inputDone, text>>

TakeText(m) ==
    /\ m.kind = "text" /\ m.ok /\ ~inputDone
    /\ text' = m.of
    /\ phase' = "append"
    /\ UNCHANGED <<writing, inputDone, stream, outcome>>

TakeDone(m) ==
    /\ m.kind = "done" /\ ~inputDone
    /\ inputDone' = TRUE
    /\ stream' = Finished(stream)
    /\ UNCHANGED <<phase, writing, text, outcome>>

Fits(m) == IF m.kind = "cancel" THEN m.of = utterance
           ELSE m.kind \in {"text", "done"} /\ m.ok /\ ~inputDone

(* Every other message is an error; only a foreign utterance_id leaves the  *)
(* utterance alone.                                                         *)
Refusal(m) ==
    IF m.kind = "cancel" THEN "invalid_utterance"
    ELSE IF inputDone \/ m.kind = "close" THEN "invalid_state" ELSE "invalid_text"

TakeRefused(m) ==
    /\ ~Fits(m)
    /\ Say(Error(Refusal(m)), IF m.kind = "cancel" THEN "wait" ELSE "cleanup")
    /\ outcome' = "idle"
    /\ UNCHANGED <<inputDone, stream, text>>

TakeMessage ==
    /\ phase = "wait" /\ inbox # << >>
    /\ inbox' = Tail(inbox)
    /\ LET m == Head(inbox)
       IN  TakeCancel(m) \/ TakeText(m) \/ TakeDone(m) \/ TakeRefused(m)
    /\ UNCHANGED <<outbox, connected, utterance, vendor, chunks, slot>>

(* The client is gone, or gave no text for too long.                        *)
TakeNothing ==
    /\ phase = "wait" /\ inbox = << >>
    /\ \/ ~connected /\ Fails("eof")
       \/ ~inputDone /\ Fails("input_timeout")
    /\ UNCHANGED <<inbox, outbox, connected, utterance, inputDone, text, vendor, chunks,
                   slot>>

(* A slip: one text too many enters the bridge.                             *)
AppendBeyond ==
    /\ phase = "append"
    /\ IF Len(stream.items) <= MaxItems
       THEN /\ stream' = [stream EXCEPT !.items = Append(@, text)]
            /\ phase' = "wait"
            /\ UNCHANGED <<writing, outcome>>
       ELSE /\ Say(Error("input_backpressure"), "cleanup")
            /\ outcome' = "idle"
            /\ UNCHANGED stream
    /\ UNCHANGED <<inbox, outbox, connected, utterance, inputDone, text, vendor, chunks, slot>>

(* append() in its thread: once there is room, or not before its timeout.   *)
AppendText ==
    /\ phase = "append"
    /\ IF Len(stream.items) < MaxItems
       THEN /\ stream' = [stream EXCEPT !.items = Append(@, text)]
            /\ phase' = "wait"
            /\ UNCHANGED <<writing, outcome>>
       ELSE /\ Say(Error("input_backpressure"), "cleanup")
            /\ outcome' = "idle"
            /\ UNCHANGED stream
    /\ UNCHANGED <<inbox, outbox, connected, utterance, inputDone, text, vendor, chunks, slot>>

TakeOutput ==
    /\ phase = "wait"
    /\ \/ /\ vendor = "chunk"
          /\ vendor' = "paused"
          /\ Say(Event("audio", utterance), "wait")
          /\ UNCHANGED <<stream, outcome>>
       \/ /\ vendor \in {"ended", "quit"} /\ inputDone
          /\ Say(Event("done", utterance), "cleanup")
          /\ outcome' = "idle"
          /\ UNCHANGED <<vendor, stream>>
       \/ /\ vendor = "failed" \/ (vendor = "quit" /\ ~inputDone)
          /\ Fails("inference_failed")
          /\ UNCHANGED vendor
    /\ UNCHANGED <<inbox, outbox, connected, utterance, inputDone, text, chunks, slot>>

(* The finally: the output task ends, then close() drains the generator,    *)
(* which reads its text to the end unless it was cancelled.                 *)
Drainable == vendor # "running" /\ (vendor \in {"chunk", "paused"} => stream.finished)

(* A slip: the output task is not awaited, nor the generator drained.       *)
CleanUpAtOnce ==
    /\ phase = "cleanup"
    /\ CASE outcome = "idle" -> phase' = "idle" /\ UNCHANGED <<outbox, writing, slot>>
         [] outcome = "cancelled" ->
                Say(Event("cancelled", utterance), "idle") /\ UNCHANGED <<outbox, slot>>
         [] outcome \in {"eof", "output_timeout"} -> Hangs
         [] OTHER -> Say(Error(outcome), "hangup") /\ UNCHANGED <<outbox, slot>>
    /\ UNCHANGED <<inbox, connected, uttVars>>

CleanUp ==
    /\ phase = "cleanup" /\ Drainable
    /\ vendor' = "none"
    /\ CASE outcome = "idle" -> phase' = "idle" /\ UNCHANGED <<outbox, writing, slot>>
         [] outcome = "cancelled" ->
                Say(Event("cancelled", utterance), "idle") /\ UNCHANGED <<outbox, slot>>
         [] outcome \in {"eof", "output_timeout"} -> Hangs
         [] OTHER -> Say(Error(outcome), "hangup") /\ UNCHANGED <<outbox, slot>>
    /\ UNCHANGED <<inbox, connected, utterance, stream, inputDone, text, chunks, outcome>>

-----------------------------------------------------------------------------
(* engine.synthesize() over the vendor model, in its threads.               *)

(* Its text thread takes the next item whenever the generator is open.      *)
VendorReads ==
    /\ vendor \in {"running", "chunk", "paused"}
    /\ stream.items # << >>
    /\ stream' = [stream EXCEPT !.items = Tail(@)]
    /\ UNCHANGED <<vendor, chunks>>

(* next() returns a chunk; it ends once the text ended, and raises once the *)
(* text was cancelled.                                                      *)
VendorYields ==
    /\ vendor = "running" /\ chunks < MaxChunks
    /\ vendor' = "chunk"
    /\ chunks' = chunks + 1
    /\ UNCHANGED stream

(* A slip: the iterator stops as soon as the text is finished.              *)
VendorEndsUnread ==
    /\ vendor = "running" /\ stream.finished
    /\ vendor' = IF stream.cancelled THEN "failed" ELSE "ended"
    /\ UNCHANGED <<stream, chunks>>

VendorEnds ==
    /\ vendor = "running" /\ stream.finished /\ stream.items = << >>
    /\ vendor' = IF stream.cancelled THEN "failed" ELSE "ended"
    /\ UNCHANGED <<stream, chunks>>

(* It may also stop before its text ended, or raise.                        *)
VendorBreaks ==
    /\ vendor = "running"
    /\ vendor' \in {"failed"} \cup (IF stream.finished THEN {} ELSE {"quit"})
    /\ UNCHANGED <<stream, chunks>>

VendorFrame == UNCHANGED <<inbox, outbox, connected, phase, writing, utterance, inputDone,
                           text, outcome, slot>>
VendorStep  == (VendorReads \/ VendorYields \/ VendorEnds) /\ VendorFrame

-----------------------------------------------------------------------------
(* Timeouts apart, what the coroutine does.                                 *)
CoroutineStep ==
    \/ Written \/ IdleStart \/ IdleRefuse \/ IdleEnd \/ HangUp
    \/ TakeMessage \/ AppendText \/ TakeOutput \/ CleanUp
    \/ TakeNothing

SessionStep ==
    \/ CoroutineStep \/ WriteFails \/ IdleTimeout
    \/ VendorStep \/ (VendorBreaks /\ VendorFrame)

SessionFairness == WF_sessionVars(CoroutineStep) /\ WF_sessionVars(VendorStep)
=============================================================================

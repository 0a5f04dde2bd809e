------------------------ MODULE BistreamClient_proofs ------------------------
(* Proofs about BistreamClient, for any number of calls, texts, chunks and  *)
(* connections and any capacity of the bridge.                              *)
EXTENDS BistreamClient, SequenceTheorems, TLAPS

-----------------------------------------------------------------------------
(* What the inductive invariant is made of.                                 *)

Messages == [kind : Kinds, of : Nat, ok : BOOLEAN]
Streams  == [items : Seq(1 .. MaxCalls), finished : BOOLEAN, cancelled : BOOLEAN]

(* The reader raises at it, whatever comes after it.                        *)
Fatal(e) == e.kind \in {"error", "hangup"}
Ends(e)  == e.kind \in {"done", "cancelled"}
Sounds(e) == e.kind \in {"start", "audio"}

Doomed       == \E j \in DOMAIN outbox : Fatal(outbox[j])
DoomedBy(i)  == \E j \in 1 .. i - 1 : Fatal(outbox[j])

(* The coroutine reads the messages of an utterance, or will once its write  *)
(* returns; the utterances up to Announced are known to the client.         *)
InWait    == phase \in {"wait", "append"} \/ (phase = "write" /\ writing.next = "wait")
Starting  == phase = "write" /\ writing.event.kind = "start"
Announced == IF Starting THEN utterance - 1 ELSE utterance

Writings == [event : Events, next : {"none", "idle", "wait", "cleanup", "hangup"}]

(* TypeOK by parts, and what it leaves open.                                *)
SocketTypes ==
    /\ inbox \in Seq(Messages) /\ outbox \in Seq(Events)
    /\ connected \in BOOLEAN /\ slot \in BOOLEAN
PhaseTypes ==
    /\ phase \in {"none", "write", "idle", "wait", "append", "cleanup", "hangup"}
    /\ writing \in Writings
    /\ outcome \in {"idle", "cancelled", "eof", "output_timeout"} \cup Codes
UtteranceTypes ==
    /\ utterance \in Nat /\ inputDone \in BOOLEAN
    /\ text \in 0 .. MaxCalls /\ chunks \in 0 .. MaxChunks
    /\ stream \in Streams /\ Len(stream.items) <= MaxItems
    /\ vendor \in {"none", "running", "chunk", "paused", "ended", "quit", "failed"}
ClientTypes ==
    /\ main \in {"down", "opening", "idle", "recv", "join"}
    /\ call \in 0 .. MaxCalls /\ heard \in Nat /\ canceller \in Nat
    /\ cancelling \in BOOLEAN
    /\ sender \in {"none", "first", "more", "hold", "last", "ended"}
    /\ left \in 0 .. MaxTexts /\ opened \in 0 .. MaxConnections
    /\ failure \in Codes \cup {"sequence", "hangup", "caller"}

Typed ==
    /\ SocketTypes /\ PhaseTypes /\ UtteranceTypes /\ ClientTypes
    /\ \A i \in DOMAIN inbox : inbox[i].kind = "text" => inbox[i].of \in 1 .. call
    /\ sender # "none" => call > 0
    /\ sender \in {"first", "hold"} => left > 0
    /\ phase = "append" => text > 0

(* The coroutine.                                                           *)
Coroutine ==
    /\ ~slot => phase = "none"
    /\ phase \in {"none", "idle", "hangup"} => vendor = "none"
    /\ phase = "write" =>
        /\ writing.next # "none"
        /\ writing.next \in {"idle", "hangup"} => vendor = "none"
        /\ writing.event.kind # "hangup"
        /\ Sounds(writing.event) => writing.next = "wait" /\ writing.event.utt = utterance
        /\ Ends(writing.event) => writing.event.utt = utterance
        /\ writing.event.kind = "done" => writing.next = "cleanup" /\ inputDone
        /\ writing.event.kind \in {"created", "cancelled"} => writing.next = "idle"
        /\ writing.next = "cleanup" => outcome = "idle"
    /\ phase # "write" => writing = Nothing
    /\ InWait \/ phase = "cleanup" \/ writing.next = "cleanup" => utterance > 0
    /\ phase = "append" => ~inputDone

(* The vendor ends by itself only once the text was finished and read.      *)
Spoken ==
    /\ stream.finished /\ ~stream.cancelled => inputDone
    /\ vendor = "ended" => stream.items = << >> /\ inputDone

(* The client's threads agree on whether a call is under way.               *)
Calls ==
    /\ connected <=> main # "down"
    /\ main = "down" => canceller = 0
    /\ main \in {"recv", "join"} <=> sender # "none"
    /\ main \notin {"recv", "join"} => heard = 0
    /\ main = "join" => heard # 0
    /\ cancelling => heard # 0

(* What may follow an event, and what the reader has read last.             *)
Follows(e, f) ==
    \/ Fatal(e) \/ Fatal(f)
    \/ e.kind = "none" /\ f.kind = "created"
    \/ e.kind \in {"created", "done", "cancelled"} /\ f.kind = "start"
    \/ Sounds(e) /\ f.kind \in {"audio", "done", "cancelled"} /\ f.utt = e.utt

Seen == IF main = "opening" THEN Event("none", 0)
        ELSE IF main = "recv" /\ heard # 0 THEN Event("start", heard)
        ELSE Event("created", 0)
Last == IF outbox = << >> THEN Seen ELSE outbox[Len(outbox)]

(* What was written last when the coroutine is at ph.                       *)
Ready(ph, e) ==
    \/ Fatal(e)
    \/ ph = "idle" /\ e.kind \in {"created", "done", "cancelled"}
    \/ ph \in {"wait", "append"} /\ Sounds(e) /\ e.utt = utterance
    \/ /\ ph = "cleanup"
       /\ outcome = "idle" => e.kind \in {"created", "done", "cancelled"}
       /\ outcome = "cancelled" => Sounds(e) /\ e.utt = utterance
    \/ ph = "hangup"

(* The events not yet read are in order, and those to come will be.         *)
Chain ==
    /\ outbox # << >> => Follows(Seen, outbox[1])
    /\ \A i \in 1 .. Len(outbox) - 1 : Follows(outbox[i], outbox[i + 1])
Tuned(e) == IF phase = "write"
            THEN Follows(e, writing.event) /\ Ready(writing.next, writing.event)
            ELSE Ready(phase, e)
Order == connected => Chain /\ Tuned(Last)

(* Utterances are numbered in the order they start.                         *)
Numbered ==
    connected =>
        /\ heard <= Announced /\ canceller <= Announced
        /\ \A i \in DOMAIN inbox : inbox[i].kind = "cancel" => inbox[i].of <= Announced
        /\ \A i \in DOMAIN outbox : outbox[i].kind = "start" =>
              /\ heard < outbox[i].utt /\ canceller < outbox[i].utt /\ outbox[i].utt <= Announced
              /\ \A k \in DOMAIN inbox : inbox[k].kind = "cancel" => inbox[k].of < outbox[i].utt
              /\ \A j \in 1 .. i - 1 : outbox[j].kind = "start" => outbox[j].utt < outbox[i].utt

(* The client hears utterance u and has asked for its end, and nothing but  *)
(* PCM precedes the i-th event.                                             *)
Awaited(u, i) ==
    /\ main = "recv" /\ heard = u /\ cancelling
    /\ \A j \in 1 .. i - 1 : outbox[j].kind = "audio"

Leaving == (phase = "cleanup" /\ outcome = "cancelled")
           \/ (phase = "write" /\ writing.event.kind = "cancelled")
Pending(u) == canceller = u \/ \E k \in DOMAIN inbox : inbox[k].kind = "cancel" /\ inbox[k].of = u

(* A cancellation that the coroutine acts on is one the client asked for.   *)
Confirmed == Doomed \/ Awaited(utterance, Len(outbox) + 1)
Asked ==
    connected =>
        /\ heard # 0 /\ Pending(heard) => cancelling
        /\ \A i \in DOMAIN outbox : outbox[i].kind = "cancelled" =>
              DoomedBy(i) \/ Awaited(outbox[i].utt, i)
        /\ Leaving => Confirmed
        /\ InWait /\ Pending(utterance) =>
              Confirmed \/ (phase = "write" /\ Fatal(writing.event))

(* Nothing, or one message at most, comes from the sender after the k-th.   *)
SilentAfter(k) == \A i \in DOMAIN inbox : i > k => inbox[i].kind = "cancel"
OneAfter(k) == \A i, j \in DOMAIN inbox :
    i > k /\ j > k /\ inbox[i].kind # "cancel" /\ inbox[j].kind # "cancel" => i = j

(* The sender has written nothing since the call was cancelled.             *)
Quiet == sender \in {"first", "hold", "last"}

(* The cancellation of u has been acted on; of what the client hears.       *)
Acted(u) == \/ u = utterance /\ Leaving
            \/ \E i \in DOMAIN outbox : outbox[i].kind = "cancelled" /\ outbox[i].utt = u
Taken == main = "join" \/ Acted(heard)

(* ... only if it was asked for, which takes that u was heard.              *)
Heeded ==
    connected => \A u : Acted(u) =>
        /\ u <= Announced
        /\ u = heard /\ u # 0 => cancelling
        /\ \A i \in DOMAIN outbox : outbox[i].kind = "start" => u # outbox[i].utt

(* One message of a call that ended may still come, none once it is awaited. *)
AtMostOneLate ==
    OneAfter(0) /\ (InWait => SilentAfter(0) /\ ~inputDone)

(* After a cancellation the sender writes once at most.                     *)
Late ==
    connected =>
        /\ cancelling =>
            /\ \A k \in DOMAIN inbox : inbox[k].kind = "cancel" /\ inbox[k].of = heard =>
                  IF Quiet THEN SilentAfter(k) ELSE OneAfter(k)
            /\ Taken => IF Quiet THEN SilentAfter(0) /\ ~InWait ELSE AtMostOneLate
        /\ main = "join" /\ ~cancelling => sender = "ended" /\ SilentAfter(0) /\ ~InWait
        /\ main \in {"opening", "idle"} => AtMostOneLate

(* The client hears of no end before it hears of a failure.                 *)
NoEnd == \A i \in DOMAIN outbox : Ends(outbox[i]) => DoomedBy(i)

(* text.done is the last message of a call that has not ended, or comes to  *)
(* a coroutine between two utterances.                                      *)
Said == sender = "ended" /\ main = "recv"
Concluding == inputDone /\ (InWait \/ (phase = "write" /\ writing.event.kind = "done"))

Finishes ==
    connected =>
        /\ Concluding => Said /\ NoEnd /\ SilentAfter(0)
        /\ \A i \in DOMAIN inbox : inbox[i].kind = "done" =>
              \/ Said /\ NoEnd /\ SilentAfter(i)
              \/ ~InWait /\ \A j \in 1 .. i - 1 : inbox[j].kind # "text"
        /\ \A i \in DOMAIN outbox : outbox[i].kind = "done" =>
              \/ DoomedBy(i)
              \/ Said /\ SilentAfter(0) /\ ~InWait /\ \A j \in 1 .. i - 1 : ~Ends(outbox[j])

(* No close message comes over an open connection.                          *)
Open == connected => \A i \in DOMAIN inbox : inbox[i].kind # "close"

Inv ==
    /\ Typed /\ Coroutine /\ Spoken /\ Calls /\ Order /\ Numbered /\ Asked /\ Heeded /\ Late
    /\ Finishes /\ Open /\ NoUnexpectedSequence

-----------------------------------------------------------------------------
(* What the operators on sequences and records give.                        *)

(* What the tail of a sequence holds.                                       *)
LEMMA TailOf ==
    ASSUME NEW S, NEW s \in Seq(S), s # << >>
    PROVE  /\ Tail(s) \in Seq(S) /\ Len(s) \in Nat \ {0} /\ Len(Tail(s)) = Len(s) - 1
           /\ DOMAIN s = 1 .. Len(s) /\ DOMAIN Tail(s) = 1 .. Len(s) - 1
           /\ Head(s) = s[1] /\ s[1] \in S
           /\ \A i \in 1 .. Len(s) - 1 : Tail(s)[i] = s[i + 1]
  OBVIOUS

(* What a sequence holds once an element was appended.                      *)
LEMMA AppendOf ==
    ASSUME NEW S, NEW s \in Seq(S), NEW e \in S
    PROVE  /\ Append(s, e) \in Seq(S) /\ Len(s) \in Nat /\ Len(Append(s, e)) = Len(s) + 1
           /\ DOMAIN s = 1 .. Len(s) /\ DOMAIN Append(s, e) = 1 .. Len(s) + 1
           /\ Append(s, e) # << >>
           /\ Append(s, e)[Len(s) + 1] = e
           /\ \A i \in 1 .. Len(s) : Append(s, e)[i] = s[i]
  OBVIOUS

(* The events and the writes the server makes are of their types.           *)
LEMMA EventTypes ==
    /\ \A k \in {"created", "start", "audio", "done", "cancelled", "error", "hangup"}, u \in Nat :
          Event(k, u) \in Events
    /\ \A c \in Codes : Error(c) \in Events
    /\ Nothing \in Writings /\ Hangup \in Events
    /\ \A e \in Events, next \in {"none", "idle", "wait", "cleanup", "hangup"} :
          [event |-> e, next |-> next] \in Writings
  BY DEF Event, Error, Events, Codes, Nothing, Hangup, Writings

(* So are the messages the client sends.                                    *)
LEMMA MessageTypes ==
    /\ \A c \in Nat, ok \in BOOLEAN : Text(c, ok) \in Messages
    /\ \A u \in Nat : Cancel(u) \in Messages
    /\ Done \in Messages /\ Close \in Messages
  BY DEF Text, Cancel, Done, Close, Messages, Kinds

(* So are the text streams, whatever is done to one.                        *)
LEMMA StreamTypes ==
    /\ \A t \in 1 .. MaxCalls : NewStream(t) \in Streams /\ Len(NewStream(t).items) <= MaxItems
    /\ \A s \in Streams : Finished(s) \in Streams /\ Cancelled(s) \in Streams
          /\ Len(Cancelled(s).items) <= MaxItems /\ Finished(s).items = s.items
<1>1. ASSUME NEW t \in 1 .. MaxCalls
      PROVE  NewStream(t) \in Streams /\ Len(NewStream(t).items) <= MaxItems
  <2>1. <<t>> \in Seq(1 .. MaxCalls) /\ Len(<<t>>) = 1
    OBVIOUS
  <2> QED
    BY <2>1, SessionAssumption DEF NewStream, Streams
<1>2. ASSUME NEW s \in Streams
      PROVE  /\ Finished(s) \in Streams /\ Finished(s).items = s.items
             /\ Cancelled(s) \in Streams /\ Len(Cancelled(s).items) <= MaxItems
  <2>1. << >> \in Seq(1 .. MaxCalls) /\ Len(<< >>) = 0
    OBVIOUS
  <2>2. Finished(s) \in Streams /\ Finished(s).items = s.items
    BY DEF Finished, Streams
  <2>3. Cancelled(s) \in Streams
    BY <2>1 DEF Cancelled, Streams
  <2>4. Len(Cancelled(s).items) <= MaxItems
    BY <2>1, SessionAssumption DEF Cancelled
  <2> QED
    BY <2>2, <2>3, <2>4
<1> QED
  BY <1>1, <1>2

-----------------------------------------------------------------------------
(* Types, the coroutine and the vendor, and the client's threads.           *)

Basics == Typed /\ Coroutine /\ Spoken /\ Calls

(* What reading and writing make of the two directions of the socket.       *)
LEMMA Boxes ==
    ASSUME Typed
    PROVE  /\ inbox # << >> => /\ Head(inbox) = inbox[1] /\ inbox[1] \in Messages
                                  /\ 1 \in DOMAIN inbox
                               /\ Tail(inbox) \in Seq(Messages)
                               /\ DOMAIN Tail(inbox) = 1 .. Len(inbox) - 1
                               /\ \A i \in DOMAIN Tail(inbox) : i + 1 \in DOMAIN inbox
                                  /\ Tail(inbox)[i] = inbox[i + 1]
           /\ outbox # << >> => /\ Head(outbox) = outbox[1] /\ outbox[1] \in Events
                                   /\ 1 \in DOMAIN outbox
                                /\ Tail(outbox) \in Seq(Events)
                                /\ DOMAIN Tail(outbox) = 1 .. Len(outbox) - 1
                                /\ \A i \in DOMAIN Tail(outbox) : i + 1 \in DOMAIN outbox
                                   /\ Tail(outbox)[i] = outbox[i + 1]
           /\ \A m \in Messages :
                /\ Append(inbox, m) \in Seq(Messages)
                   /\ DOMAIN Append(inbox, m) = 1 .. Len(inbox) + 1
                /\ Append(inbox, m)[Len(inbox) + 1] = m
                /\ \A i \in DOMAIN inbox : Append(inbox, m)[i] = inbox[i]
           /\ \A e \in Events :
                /\ Append(outbox, e) \in Seq(Events)
                   /\ DOMAIN Append(outbox, e) = 1 .. Len(outbox) + 1
                /\ Append(outbox, e)[Len(outbox) + 1] = e
                /\ \A i \in DOMAIN outbox : Append(outbox, e)[i] = outbox[i]
           /\ DOMAIN inbox = 1 .. Len(inbox) /\ DOMAIN outbox = 1 .. Len(outbox)
           /\ Len(inbox) \in Nat /\ Len(outbox) \in Nat
<1>1. inbox \in Seq(Messages) /\ outbox \in Seq(Events)
  BY DEF Typed, SocketTypes
<1>2. inbox # << >> => /\ Head(inbox) = inbox[1] /\ inbox[1] \in Messages /\ 1 \in DOMAIN inbox
                       /\ Tail(inbox) \in Seq(Messages)
                       /\ DOMAIN Tail(inbox) = 1 .. Len(inbox) - 1
                       /\ \A i \in DOMAIN Tail(inbox) : i + 1 \in DOMAIN inbox
                          /\ Tail(inbox)[i] = inbox[i + 1]
  BY <1>1
<1>3. outbox # << >> => /\ Head(outbox) = outbox[1] /\ outbox[1] \in Events /\ 1 \in DOMAIN outbox
                        /\ Tail(outbox) \in Seq(Events)
                        /\ DOMAIN Tail(outbox) = 1 .. Len(outbox) - 1
                        /\ \A i \in DOMAIN Tail(outbox) : i + 1 \in DOMAIN outbox
                           /\ Tail(outbox)[i] = outbox[i + 1]
  BY <1>1
<1>4. ASSUME NEW m \in Messages
      PROVE  /\ Append(inbox, m) \in Seq(Messages) /\ DOMAIN Append(inbox, m) = 1 .. Len(inbox) + 1
             /\ Append(inbox, m)[Len(inbox) + 1] = m
             /\ \A i \in DOMAIN inbox : Append(inbox, m)[i] = inbox[i]
  BY <1>1
<1>5. ASSUME NEW e \in Events
      PROVE  /\ Append(outbox, e) \in Seq(Events) /\ DOMAIN Append(outbox, e) = 1 .. Len(outbox) + 1
             /\ Append(outbox, e)[Len(outbox) + 1] = e
             /\ \A i \in DOMAIN outbox : Append(outbox, e)[i] = outbox[i]
  BY <1>1
<1>6. DOMAIN inbox = 1 .. Len(inbox) /\ DOMAIN outbox = 1 .. Len(outbox)
      /\ Len(inbox) \in Nat /\ Len(outbox) \in Nat
  BY <1>1
<1> QED
  BY <1>2, <1>3, <1>4, <1>5, <1>6

(* What travels on the socket is of its type.                               *)
LEMMA Contents ==
    ASSUME Typed
    PROVE  /\ \A i \in DOMAIN inbox : inbox[i].of \in Nat /\ inbox[i].kind \in Kinds
           /\ \A i \in DOMAIN outbox : outbox[i] \in Events /\ outbox[i].utt \in Nat
<1>1. inbox \in Seq(Messages) /\ outbox \in Seq(Events)
  BY DEF Typed, SocketTypes
<1>2. (\A i \in DOMAIN inbox : inbox[i] \in Messages)
      /\ \A i \in DOMAIN outbox : outbox[i] \in Events
  BY <1>1
<1> QED
  BY <1>2 DEF Messages, Events

(* The client knows of no utterance that the server does not know of.       *)
LEMMA AnnouncedType ==
    ASSUME Typed
    PROVE  Announced \in Int /\ Announced <= utterance
  BY DEF Announced, Typed, UtteranceTypes

(* A step of the session leaves the client alone, and the reverse.          *)
LEMMA ClientAside ==
    ASSUME Basics, SessionStep, UNCHANGED clientVars
    PROVE  ClientTypes' /\ Calls'
<1>1. connected' = connected
  BY DEF SessionStep, CoroutineStep, Written, WriteFails, IdleTimeout, VendorStep, VendorFrame,
     IdleStart, IdleRefuse, IdleEnd, HangUp, TakeMessage, AppendText, TakeOutput, CleanUp,
     TakeNothing
<1> QED
  BY <1>1 DEF Basics, Typed, ClientTypes, Calls, clientVars

(* The steps of the client leave the session as it was.                     *)
LEMMA SessionAside ==
    ASSUME Basics, \/ ReaderStep \/ SenderChecks \/ SenderWrites \/ SendCancel
                   \/ CloseClient \/ Synthesize \/ GiveUp \/ RequestCancel
    PROVE  PhaseTypes' /\ UtteranceTypes' /\ Coroutine' /\ Spoken'
<1>1. UNCHANGED <<phase, writing, uttVars, slot>>
  BY DEF ReaderStep, Receive, Join, SenderChecks, SenderWrites, SendCancel, CloseClient,
     Synthesize, GiveUp, RequestCancel, sessionVars
<1> QED
  BY <1>1 DEF Basics, Typed, PhaseTypes, UtteranceTypes, Coroutine, InWait, Spoken, uttVars

(* Every step keeps the types, and the coroutine in order with its          *)
(* generator.                                                               *)
LEMMA BasicsInv ==
    ASSUME Basics, Next
    PROVE  Basics'
<1> USE DEF Basics
<1>1. CASE Written /\ UNCHANGED clientVars
  <2>1. SocketTypes'
    BY <1>1, Boxes, EmptySeq, EventTypes, MessageTypes
    DEF Written, clientVars, uttVars, Typed, SocketTypes, PhaseTypes, UtteranceTypes,
       ClientTypes, Writings
  <2>2. PhaseTypes'
    BY <1>1, EventTypes
    DEF Written, clientVars, uttVars, Typed, SocketTypes, PhaseTypes, UtteranceTypes, Coroutine,
       Writings
  <2>3. UtteranceTypes'
    BY <1>1, TailOf, AppendOf, StreamTypes, SessionAssumption
    DEF Written, clientVars, uttVars, Typed, UtteranceTypes
  <2>4. ClientTypes' /\ Calls'
    BY <1>1, ClientAside DEF SessionStep, CoroutineStep
  <2>5. Typed'
    BY <1>1, <2>1, <2>2, <2>3, <2>4 DEF Written, clientVars, Typed, PhaseTypes, Writings
  <2>6. Coroutine'
    BY <1>1, EventTypes
    DEF Written, clientVars, uttVars, Typed, PhaseTypes, UtteranceTypes, SocketTypes, Coroutine,
       InWait, Sounds, Ends, Event, Error, Nothing, Hangup, Writings
  <2>7. Spoken'
    BY <1>1, TailOf
    DEF Written, clientVars, uttVars, Typed, UtteranceTypes, PhaseTypes, Coroutine, Spoken,
       InWait, NewStream, Finished, Cancelled
  <2> QED
    BY <2>5, <2>6, <2>7, <2>4
<1>2. CASE WriteFails /\ UNCHANGED clientVars
  <2>1. SocketTypes'
    BY <1>2, Boxes, EventTypes DEF WriteFails, Fails, Hangs, Typed, SocketTypes
  <2>2. PhaseTypes'
    BY <1>2, EventTypes
    DEF WriteFails, Fails, Hangs, InUtterance, clientVars, uttVars, Typed, SocketTypes,
       PhaseTypes, UtteranceTypes, Coroutine, Codes
  <2>3. UtteranceTypes'
    BY <1>2, TailOf, AppendOf, StreamTypes, SessionAssumption
    DEF WriteFails, Fails, Hangs, InUtterance, clientVars, uttVars, Typed, SocketTypes,
       UtteranceTypes
  <2>4. ClientTypes' /\ Calls'
    BY <1>2, ClientAside DEF SessionStep
  <2>5. Typed'
    BY <1>2, <2>1, <2>2, <2>3, <2>4, Boxes, MessageTypes
    DEF WriteFails, Fails, Hangs, clientVars, Typed
  <2>6. Coroutine'
    BY <1>2, EventTypes
    DEF WriteFails, Fails, Hangs, InUtterance, clientVars, uttVars, Typed, PhaseTypes,
       UtteranceTypes, SocketTypes, Coroutine, InWait, Sounds, Ends, Event, Error, Nothing,
       Hangup, Writings
  <2>7. Spoken'
    BY <1>2, TailOf
    DEF WriteFails, Fails, Hangs, InUtterance, clientVars, uttVars, Typed, UtteranceTypes,
       PhaseTypes, Coroutine, Spoken, InWait, NewStream, Finished, Cancelled
  <2> QED
    BY <2>5, <2>6, <2>7, <2>4
<1>3. CASE IdleStart /\ UNCHANGED clientVars
  <2>1. SocketTypes'
    BY <1>3, Boxes, EmptySeq, EventTypes, MessageTypes
    DEF IdleStart, Say, clientVars, uttVars, Typed, SocketTypes
  <2>2. PhaseTypes'
    BY <1>3, EventTypes
    DEF IdleStart, Say, clientVars, uttVars, Typed, SocketTypes, PhaseTypes, UtteranceTypes,
       Coroutine, Writings
  <2>3. UtteranceTypes'
    <3>1. inbox[1] = Head(inbox) /\ 1 \in DOMAIN inbox /\ inbox[1].kind = "text"
      BY <1>3 DEF IdleStart
    <3>2. Head(inbox).of \in 1 .. MaxCalls
      <4>1. inbox[1].of \in 1 .. call /\ call \in 0 .. MaxCalls
        BY <3>1 DEF Typed, ClientTypes
      <4> QED
        BY <3>1, <4>1, ClientAssumption
    <3>3. stream' \in Streams /\ Len(stream'.items) <= MaxItems
      BY <1>3, <3>2, StreamTypes DEF IdleStart
    <3>4. chunks' \in 0 .. MaxChunks /\ inputDone' \in BOOLEAN /\ utterance' \in Nat
      <4>1. inputDone' \in BOOLEAN
        BY <1>3 DEF IdleStart
      <4> QED
        BY <1>3, <4>1, SessionAssumption DEF IdleStart, Typed, UtteranceTypes
    <3> QED
      BY <1>3, <3>3, <3>4 DEF IdleStart, Typed, UtteranceTypes
  <2>4. ClientTypes' /\ Calls'
    BY <1>3, ClientAside DEF SessionStep, CoroutineStep
  <2>5. Typed'
    BY <1>3, <2>1, <2>2, <2>3, <2>4, Boxes, MessageTypes
    DEF IdleStart, Say, clientVars, uttVars, Typed
  <2>6. Coroutine'
    BY <1>3, EventTypes
    DEF IdleStart, Say, clientVars, uttVars, Typed, PhaseTypes, UtteranceTypes, SocketTypes,
       Coroutine, InWait, Sounds, Ends, Event, Error
  <2>7. Spoken'
    BY <1>3, TailOf
    DEF IdleStart, Say, clientVars, uttVars, Typed, UtteranceTypes, PhaseTypes, Coroutine,
       Spoken, InWait, NewStream
  <2> QED
    BY <2>5, <2>6, <2>7, <2>4
<1>4. CASE IdleRefuse /\ UNCHANGED clientVars
  <2>1. SocketTypes'
    BY <1>4, Boxes, EmptySeq, EventTypes, MessageTypes
    DEF IdleRefuse, Say, clientVars, uttVars, Typed, SocketTypes
  <2>2. PhaseTypes'
    BY <1>4, EventTypes
    DEF IdleRefuse, Say, clientVars, uttVars, Typed, SocketTypes, PhaseTypes, UtteranceTypes,
       Coroutine, Codes
  <2>3. UtteranceTypes'
    BY <1>4, TailOf, AppendOf, StreamTypes, SessionAssumption
    DEF IdleRefuse, Say, clientVars, uttVars, Typed, UtteranceTypes
  <2>4. ClientTypes' /\ Calls'
    BY <1>4, ClientAside DEF SessionStep, CoroutineStep
  <2>5. Typed'
    BY <1>4, <2>1, <2>2, <2>3, <2>4, Boxes, MessageTypes
    DEF IdleRefuse, Say, clientVars, uttVars, Typed
  <2>6. Coroutine'
    BY <1>4, EventTypes
    DEF IdleRefuse, Say, clientVars, uttVars, Typed, PhaseTypes, UtteranceTypes, SocketTypes,
       Coroutine, InWait, Sounds, Ends, Event, Error
  <2>7. Spoken'
    BY <1>4, TailOf DEF IdleRefuse, Say, clientVars, uttVars, Spoken
  <2> QED
    BY <2>5, <2>6, <2>7, <2>4
<1>5. CASE IdleEnd /\ UNCHANGED clientVars
  <2>1. SocketTypes'
    BY <1>5, Boxes, EventTypes DEF IdleEnd, Hangs, Typed, SocketTypes
  <2>2. PhaseTypes'
    BY <1>5, EventTypes DEF IdleEnd, Hangs, clientVars, uttVars, Typed, PhaseTypes
  <2>3. UtteranceTypes'
    BY <1>5, TailOf, AppendOf, StreamTypes, SessionAssumption
    DEF IdleEnd, Hangs, clientVars, uttVars, Typed, UtteranceTypes
  <2>4. ClientTypes' /\ Calls'
    BY <1>5, ClientAside DEF SessionStep, CoroutineStep
  <2>5. Typed'
    <3>1. \A i \in DOMAIN inbox' : inbox'[i].kind = "text" => inbox'[i].of \in 1 .. call
      BY <1>5 DEF IdleEnd, Typed
    <3>2. UNCHANGED <<sender, call, left>> /\ phase' # "append"
      BY <1>5 DEF IdleEnd, Hangs, clientVars
    <3> QED
      BY <2>1, <2>2, <2>3, <2>4, <3>1, <3>2 DEF Typed
  <2>6. Coroutine'
    BY <1>5, EventTypes
    DEF IdleEnd, Hangs, clientVars, uttVars, Typed, PhaseTypes, UtteranceTypes, SocketTypes,
       Coroutine, InWait
  <2>7. Spoken'
    BY <1>5, TailOf DEF IdleEnd, Hangs, clientVars, uttVars, Spoken
  <2> QED
    BY <2>5, <2>6, <2>7, <2>4
<1>6. CASE IdleTimeout /\ UNCHANGED clientVars
  <2>1. SocketTypes'
    BY <1>6, Boxes, EmptySeq, EventTypes, MessageTypes
    DEF IdleTimeout, Say, clientVars, uttVars, Typed, SocketTypes
  <2>2. PhaseTypes'
    BY <1>6, EventTypes
    DEF IdleTimeout, Say, clientVars, uttVars, Typed, SocketTypes, PhaseTypes, UtteranceTypes,
       Coroutine, Codes
  <2>3. UtteranceTypes'
    BY <1>6, TailOf, AppendOf, StreamTypes, SessionAssumption
    DEF IdleTimeout, Say, clientVars, uttVars, Typed, UtteranceTypes
  <2>4. ClientTypes' /\ Calls'
    BY <1>6, ClientAside DEF SessionStep
  <2>5. Typed'
    BY <1>6, <2>1, <2>2, <2>3, <2>4, Boxes, MessageTypes
    DEF IdleTimeout, Say, clientVars, uttVars, Typed
  <2>6. Coroutine'
    BY <1>6, EventTypes
    DEF IdleTimeout, Say, clientVars, uttVars, Typed, PhaseTypes, UtteranceTypes, SocketTypes,
       Coroutine, InWait, Sounds, Ends, Event, Error
  <2>7. Spoken'
    BY <1>6, TailOf DEF IdleTimeout, Say, clientVars, uttVars, Spoken
  <2> QED
    BY <2>5, <2>6, <2>7, <2>4
<1>7. CASE HangUp /\ UNCHANGED clientVars
  <2>1. SocketTypes'
    BY <1>7, Boxes, EmptySeq, EventTypes, MessageTypes
    DEF HangUp, Hangs, clientVars, uttVars, Typed, SocketTypes
  <2>2. PhaseTypes'
    BY <1>7, EventTypes DEF HangUp, Hangs, clientVars, uttVars, Typed, PhaseTypes
  <2>3. UtteranceTypes'
    BY <1>7, TailOf, AppendOf, StreamTypes, SessionAssumption
    DEF HangUp, Hangs, clientVars, uttVars, Typed, UtteranceTypes
  <2>4. ClientTypes' /\ Calls'
    BY <1>7, ClientAside DEF SessionStep, CoroutineStep
  <2>5. Typed'
    BY <1>7, <2>1, <2>2, <2>3, <2>4, Boxes, MessageTypes
    DEF HangUp, Hangs, clientVars, uttVars, Typed
  <2>6. Coroutine'
    BY <1>7, EventTypes
    DEF HangUp, Hangs, clientVars, uttVars, Typed, PhaseTypes, UtteranceTypes, SocketTypes,
       Coroutine, InWait
  <2>7. Spoken'
    BY <1>7, TailOf DEF HangUp, Hangs, clientVars, uttVars, Spoken
  <2> QED
    BY <2>5, <2>6, <2>7, <2>4
<1>8. CASE TakeMessage /\ UNCHANGED clientVars
  <2>1. SocketTypes'
    BY <1>8, Boxes, EmptySeq, EventTypes, MessageTypes
    DEF TakeMessage, TakeCancel, TakeText, TakeDone, TakeRefused, Refusal, Fits, Say, clientVars,
       uttVars, Typed, SocketTypes
  <2>2. PhaseTypes'
    BY <1>8, EventTypes
    DEF TakeMessage, TakeCancel, TakeText, TakeDone, TakeRefused, Refusal, Fits, Say, clientVars,
       uttVars, Typed, SocketTypes, PhaseTypes, UtteranceTypes, Codes
  <2>3. UtteranceTypes'
    <3>1. Head(inbox) = inbox[1] /\ (Head(inbox).kind = "text" => Head(inbox).of \in 1 .. MaxCalls)
      <4>1. inbox[1] = Head(inbox) /\ 1 \in DOMAIN inbox
        BY <1>8 DEF TakeMessage
      <4>2. inbox[1].kind = "text" => inbox[1].of \in 1 .. call
        BY <4>1 DEF Typed
      <4> QED
        BY <4>1, <4>2, ClientAssumption DEF Typed, ClientTypes
    <3>2. text' \in 0 .. MaxCalls
      BY <1>8, <3>1
      DEF TakeMessage, TakeCancel, TakeText, TakeDone, TakeRefused, Typed, UtteranceTypes
    <3>3. stream' \in Streams /\ Len(stream'.items) <= MaxItems
      BY <1>8, StreamTypes
      DEF TakeMessage, TakeCancel, TakeText, TakeDone, TakeRefused, Typed, UtteranceTypes
    <3> QED
      BY <1>8, <3>2, <3>3
      DEF TakeMessage, TakeCancel, TakeText, TakeDone, TakeRefused, Typed, UtteranceTypes
  <2>4. ClientTypes' /\ Calls'
    BY <1>8, ClientAside DEF SessionStep, CoroutineStep
  <2>5. Typed'
    BY <1>8, <2>1, <2>2, <2>3, <2>4, Boxes, MessageTypes
    DEF TakeMessage, TakeCancel, TakeText, TakeDone, TakeRefused, Refusal, Fits, Say, clientVars,
       uttVars, Typed
  <2>6. Coroutine'
    BY <1>8, EventTypes
    DEF TakeMessage, TakeCancel, TakeText, TakeDone, TakeRefused, Refusal, Fits, Say, clientVars,
       uttVars, Typed, PhaseTypes, UtteranceTypes, SocketTypes, Coroutine, InWait, Sounds, Ends,
       Event, Error, Nothing, Hangup, Writings
  <2>7. Spoken'
    BY <1>8, TailOf
    DEF TakeMessage, TakeCancel, TakeText, TakeDone, TakeRefused, Refusal, Fits, Say, clientVars,
       uttVars, Typed, UtteranceTypes, PhaseTypes, Coroutine, Spoken, InWait, NewStream,
       Finished, Cancelled
  <2> QED
    BY <2>5, <2>6, <2>7, <2>4
<1>9. CASE TakeNothing /\ UNCHANGED clientVars
  <2>1. SocketTypes'
    BY <1>9, Boxes, EmptySeq, EventTypes, MessageTypes
    DEF TakeNothing, Fails, clientVars, uttVars, Typed, SocketTypes
  <2>2. PhaseTypes'
    BY <1>9, EventTypes
    DEF TakeNothing, Fails, clientVars, uttVars, Typed, SocketTypes, PhaseTypes, UtteranceTypes,
       Coroutine, Codes
  <2>3. UtteranceTypes'
    BY <1>9, TailOf, AppendOf, StreamTypes, SessionAssumption
    DEF TakeNothing, Fails, clientVars, uttVars, Typed, UtteranceTypes
  <2>4. ClientTypes' /\ Calls'
    BY <1>9, ClientAside DEF SessionStep, CoroutineStep
  <2>5. Typed'
    BY <1>9, <2>1, <2>2, <2>3, <2>4, Boxes, MessageTypes
    DEF TakeNothing, Fails, clientVars, uttVars, Typed
  <2>6. Coroutine'
    BY <1>9, EventTypes
    DEF TakeNothing, Fails, clientVars, uttVars, Typed, PhaseTypes, UtteranceTypes, SocketTypes,
       Coroutine, InWait
  <2>7. Spoken'
    BY <1>9, TailOf
    DEF TakeNothing, Fails, clientVars, uttVars, Typed, UtteranceTypes, PhaseTypes, Coroutine,
       Spoken, InWait, NewStream, Finished, Cancelled
  <2> QED
    BY <2>5, <2>6, <2>7, <2>4
<1>10. CASE AppendText /\ UNCHANGED clientVars
  <2>1. SocketTypes'
    BY <1>10, Boxes, EmptySeq, EventTypes, MessageTypes
    DEF AppendText, Say, clientVars, uttVars, Typed, SocketTypes
  <2>2. PhaseTypes'
    BY <1>10, EventTypes
    DEF AppendText, Say, clientVars, uttVars, Typed, SocketTypes, PhaseTypes, UtteranceTypes,
       Coroutine, Codes
  <2>3. UtteranceTypes'
    <3>1. text \in 1 .. MaxCalls /\ stream.items \in Seq(1 .. MaxCalls)
      BY <1>10 DEF AppendText, Typed, UtteranceTypes, Streams
    <3>2. CASE Len(stream.items) < MaxItems
      <4>1. /\ Append(stream.items, text) \in Seq(1 .. MaxCalls)
            /\ Len(Append(stream.items, text)) = Len(stream.items) + 1 /\ Len(stream.items) \in Nat
        BY <3>1
      <4>2. Len(Append(stream.items, text)) <= MaxItems
        BY <3>2, <4>1, SessionAssumption
      <4>3. stream' = [stream EXCEPT !.items = Append(stream.items, text)] /\ stream \in Streams
        BY <1>10, <3>2 DEF AppendText, Typed, UtteranceTypes
      <4>4. stream' \in Streams /\ stream'.items = Append(stream.items, text)
        BY <4>1, <4>3 DEF Streams
      <4> QED
        BY <1>10, <4>2, <4>4 DEF AppendText, Typed, UtteranceTypes
    <3>3. CASE ~(Len(stream.items) < MaxItems)
      BY <1>10, <3>3 DEF AppendText, Typed, UtteranceTypes
    <3> QED
      BY <3>2, <3>3
  <2>4. ClientTypes' /\ Calls'
    BY <1>10, ClientAside DEF SessionStep, CoroutineStep
  <2>5. Typed'
    BY <1>10, <2>1, <2>2, <2>3, <2>4 DEF AppendText, clientVars, Typed
  <2>6. Coroutine'
    BY <1>10, EventTypes
    DEF AppendText, Say, clientVars, uttVars, Typed, PhaseTypes, UtteranceTypes, SocketTypes,
       Coroutine, InWait, Sounds, Ends, Event, Error
  <2>7. Spoken'
    BY <1>10, TailOf
    DEF AppendText, Say, clientVars, uttVars, Typed, UtteranceTypes, PhaseTypes, Coroutine,
       Spoken, InWait, NewStream, Streams
  <2> QED
    BY <2>5, <2>6, <2>7, <2>4
<1>11. CASE TakeOutput /\ UNCHANGED clientVars
  <2>1. SocketTypes'
    BY <1>11, Boxes, EmptySeq, EventTypes, MessageTypes
    DEF TakeOutput, Say, Fails, clientVars, uttVars, Typed, SocketTypes, PhaseTypes
  <2>2. PhaseTypes'
    BY <1>11, EventTypes
    DEF TakeOutput, Say, Fails, clientVars, uttVars, Typed, SocketTypes, PhaseTypes,
       UtteranceTypes, Coroutine, Codes
  <2>3. UtteranceTypes'
    BY <1>11, TailOf, AppendOf, StreamTypes, SessionAssumption
    DEF TakeOutput, Say, Fails, clientVars, uttVars, Typed, SocketTypes, UtteranceTypes
  <2>4. ClientTypes' /\ Calls'
    BY <1>11, ClientAside DEF SessionStep, CoroutineStep
  <2>5. Typed'
    BY <1>11, <2>1, <2>2, <2>3, <2>4, Boxes, MessageTypes
    DEF TakeOutput, Say, Fails, clientVars, Typed
  <2>6. Coroutine'
    BY <1>11, EventTypes
    DEF TakeOutput, Say, Fails, clientVars, uttVars, Typed, PhaseTypes, UtteranceTypes,
       SocketTypes, Coroutine, InWait, Sounds, Ends, Event, Error
  <2>7. Spoken'
    BY <1>11, TailOf
    DEF TakeOutput, Say, Fails, clientVars, uttVars, Typed, UtteranceTypes, PhaseTypes,
       Coroutine, Spoken, InWait, NewStream, Finished, Cancelled
  <2> QED
    BY <2>5, <2>6, <2>7, <2>4
<1>12. CASE CleanUp /\ UNCHANGED clientVars
  <2>1. SocketTypes'
    BY <1>12, Boxes, EventTypes DEF CleanUp, Say, Hangs, Typed, SocketTypes
  <2>2. PhaseTypes'
    BY <1>12, EventTypes
    DEF CleanUp, Hangs, Say, Drainable, clientVars, uttVars, Typed, SocketTypes, PhaseTypes,
       UtteranceTypes
  <2>3. UtteranceTypes'
    BY <1>12, TailOf, AppendOf, StreamTypes, SessionAssumption
    DEF CleanUp, Hangs, Say, Drainable, clientVars, uttVars, Typed, SocketTypes, UtteranceTypes
  <2>4. ClientTypes' /\ Calls'
    BY <1>12, ClientAside DEF SessionStep, CoroutineStep
  <2>5. Typed'
    BY <1>12, <2>1, <2>2, <2>3, <2>4, Boxes, MessageTypes
    DEF CleanUp, Hangs, Say, clientVars, Typed
  <2>6. Coroutine'
    BY <1>12, EventTypes
    DEF CleanUp, Hangs, Say, Drainable, clientVars, uttVars, Typed, PhaseTypes, UtteranceTypes,
       SocketTypes, Coroutine, InWait, Sounds, Ends, Event, Error
  <2>7. Spoken'
    BY <1>12 DEF CleanUp, clientVars, Spoken
  <2> QED
    BY <2>5, <2>6, <2>7, <2>4
<1>13. CASE VendorReads /\ VendorFrame /\ UNCHANGED clientVars
  <2>1. SocketTypes'
    BY <1>13, Boxes, EmptySeq, EventTypes, MessageTypes
    DEF VendorReads, VendorFrame, clientVars, uttVars, Typed, SocketTypes
  <2>2. PhaseTypes'
    BY <1>13, EventTypes DEF VendorReads, VendorFrame, clientVars, uttVars, Typed, PhaseTypes
  <2>3. UtteranceTypes'
    <3>1. stream.items \in Seq(1 .. MaxCalls) /\ stream.items # << >>
      BY <1>13 DEF VendorReads, Typed, UtteranceTypes, Streams
    <3>2. Tail(stream.items) \in Seq(1 .. MaxCalls) /\ Len(Tail(stream.items)) <= MaxItems
      <4>1. /\ Tail(stream.items) \in Seq(1 .. MaxCalls)
            /\ Len(Tail(stream.items)) = Len(stream.items) - 1 /\ Len(stream.items) \in Nat
        BY <3>1, TailOf
      <4> QED
        BY <4>1, SessionAssumption DEF Typed, UtteranceTypes
    <3>3. stream' \in Streams /\ Len(stream'.items) <= MaxItems
      BY <1>13, <3>2 DEF VendorReads, Typed, UtteranceTypes, Streams
    <3> QED
      BY <1>13, <3>3 DEF VendorReads, VendorFrame, Typed, UtteranceTypes
  <2>4. ClientTypes' /\ Calls'
    BY <1>13, ClientAside DEF SessionStep, VendorStep
  <2>5. Typed'
    BY <1>13, <2>1, <2>2, <2>3, <2>4 DEF VendorReads, VendorFrame, clientVars, Typed
  <2>6. Coroutine'
    BY <1>13, EventTypes
    DEF VendorReads, VendorFrame, clientVars, uttVars, Typed, PhaseTypes, UtteranceTypes,
       SocketTypes, Coroutine, InWait, Sounds
  <2>7. Spoken'
    BY <1>13 DEF VendorReads, VendorFrame, clientVars, Spoken
  <2> QED
    BY <2>5, <2>6, <2>7, <2>4
<1>14. CASE VendorYields /\ VendorFrame /\ UNCHANGED clientVars
  <2>1. SocketTypes'
    BY <1>14, Boxes, EmptySeq, EventTypes, MessageTypes
    DEF VendorYields, VendorFrame, clientVars, uttVars, Typed, SocketTypes
  <2>2. PhaseTypes'
    BY <1>14, EventTypes DEF VendorYields, VendorFrame, clientVars, uttVars, Typed, PhaseTypes
  <2>3. UtteranceTypes'
    BY <1>14, TailOf, AppendOf, StreamTypes, SessionAssumption
    DEF VendorYields, VendorFrame, clientVars, uttVars, Typed, UtteranceTypes
  <2>4. ClientTypes' /\ Calls'
    BY <1>14, ClientAside DEF SessionStep, VendorStep
  <2>5. Typed'
    BY <1>14, <2>1, <2>2, <2>3, <2>4 DEF VendorYields, VendorFrame, clientVars, Typed
  <2>6. Coroutine'
    BY <1>14, EventTypes
    DEF VendorYields, VendorFrame, clientVars, uttVars, Typed, PhaseTypes, UtteranceTypes,
       SocketTypes, Coroutine, InWait, Sounds
  <2>7. Spoken'
    BY <1>14 DEF VendorYields, VendorFrame, clientVars, Spoken
  <2> QED
    BY <2>5, <2>6, <2>7, <2>4
<1>15. CASE VendorEnds /\ VendorFrame /\ UNCHANGED clientVars
  <2>1. SocketTypes'
    BY <1>15, Boxes, EmptySeq, EventTypes, MessageTypes
    DEF VendorEnds, VendorFrame, clientVars, uttVars, Typed, SocketTypes
  <2>2. PhaseTypes'
    BY <1>15, EventTypes DEF VendorEnds, VendorFrame, clientVars, uttVars, Typed, PhaseTypes
  <2>3. UtteranceTypes'
    BY <1>15, TailOf, AppendOf, StreamTypes, SessionAssumption
    DEF VendorEnds, VendorFrame, clientVars, uttVars, Typed, UtteranceTypes
  <2>4. ClientTypes' /\ Calls'
    BY <1>15, ClientAside DEF SessionStep, VendorStep
  <2>5. Typed'
    BY <1>15, <2>1, <2>2, <2>3, <2>4 DEF VendorEnds, VendorFrame, clientVars, Typed
  <2>6. Coroutine'
    BY <1>15, EventTypes
    DEF VendorEnds, VendorFrame, clientVars, uttVars, Typed, PhaseTypes, UtteranceTypes,
       SocketTypes, Coroutine, InWait, Sounds
  <2>7. Spoken'
    BY <1>15 DEF VendorEnds, VendorFrame, clientVars, Spoken
  <2> QED
    BY <2>5, <2>6, <2>7, <2>4
<1>16. CASE VendorBreaks /\ VendorFrame /\ UNCHANGED clientVars
  <2>1. SocketTypes'
    BY <1>16, Boxes, EmptySeq, EventTypes, MessageTypes
    DEF VendorBreaks, VendorFrame, clientVars, uttVars, Typed, SocketTypes
  <2>2. PhaseTypes'
    BY <1>16, EventTypes DEF VendorBreaks, VendorFrame, clientVars, uttVars, Typed, PhaseTypes
  <2>3. UtteranceTypes'
    BY <1>16, TailOf, AppendOf, StreamTypes, SessionAssumption
    DEF VendorBreaks, VendorFrame, clientVars, uttVars, Typed, UtteranceTypes
  <2>4. ClientTypes' /\ Calls'
    BY <1>16, ClientAside DEF SessionStep
  <2>5. Typed'
    BY <1>16, <2>1, <2>2, <2>3, <2>4 DEF VendorBreaks, VendorFrame, clientVars, Typed
  <2>6. Coroutine'
    BY <1>16, EventTypes
    DEF VendorBreaks, VendorFrame, clientVars, uttVars, Typed, PhaseTypes, UtteranceTypes,
       SocketTypes, Coroutine, InWait, Sounds
  <2>7. Spoken'
    BY <1>16 DEF VendorBreaks, VendorFrame, clientVars, Spoken
  <2> QED
    BY <2>5, <2>6, <2>7, <2>4
<1>17. CASE Receive
  <2>1. SocketTypes'
    BY <1>17, Boxes, EmptySeq DEF Receive, Disconnect, Typed, SocketTypes
  <2>2. PhaseTypes' /\ UtteranceTypes' /\ Coroutine' /\ Spoken'
    BY <1>17, SessionAside DEF ReaderStep
  <2>4. ClientTypes'
    <3>1. Head(outbox) \in Events
      BY <1>17, Boxes DEF Receive
    <3>2. Raised(Head(outbox)) \in Codes \cup {"sequence", "hangup", "caller"}
          /\ Head(outbox).utt \in Nat
      BY <3>1 DEF Raised, Events
    <3>3. CASE Meaning(Head(outbox)) = "bad"
      <4>1. cancelling' \in BOOLEAN
        BY <1>17, <3>3 DEF Receive, Disconnect
      <4>2. left' \in 0 .. MaxTexts
        BY <1>17, <3>3, ClientAssumption DEF Receive, Disconnect
      <4> QED
        BY <1>17, <3>2, <3>3, <4>1, <4>2 DEF Receive, Disconnect, Typed, ClientTypes
    <3>4. CASE Meaning(Head(outbox)) # "bad"
      BY <1>17, <3>2, <3>4 DEF Receive, Typed, ClientTypes
    <3> QED
      BY <3>3, <3>4
  <2>5. Typed'
    BY <1>17, <2>1, <2>2, <2>4, Boxes, MessageTypes
    DEF Receive, Disconnect, Raised, Meaning, sessionVars, uttVars, Typed
  <2>8. Calls'
    BY <1>17 DEF Receive, Disconnect, Raised, Meaning, Calls
  <2> QED
    BY <2>2, <2>5, <2>8
<1>18. CASE Join
  <2>1. SocketTypes'
    BY <1>18, Boxes, EmptySeq, EventTypes, MessageTypes
    DEF Join, sessionVars, uttVars, Typed, SocketTypes
  <2>2. PhaseTypes' /\ UtteranceTypes' /\ Coroutine' /\ Spoken'
    BY <1>18, SessionAside DEF ReaderStep
  <2>4. ClientTypes'
    BY <1>18, ClientAssumption DEF Join, sessionVars, uttVars, Typed, ClientTypes
  <2>5. Typed'
    BY <1>18, <2>1, <2>2, <2>4, Boxes, MessageTypes DEF Join, sessionVars, uttVars, Typed
  <2>8. Calls'
    BY <1>18 DEF Join, sessionVars, uttVars, Calls
  <2> QED
    BY <2>2, <2>5, <2>8
<1>19. CASE SenderChecks
  <2>1. SocketTypes'
    BY <1>19, Boxes, EmptySeq, EventTypes, MessageTypes
    DEF SenderChecks, sessionVars, uttVars, Typed, SocketTypes
  <2>2. PhaseTypes' /\ UtteranceTypes' /\ Coroutine' /\ Spoken'
    BY <1>19, SessionAside
  <2>4. ClientTypes'
    BY <1>19, ClientAssumption DEF SenderChecks, sessionVars, uttVars, Typed, ClientTypes
  <2>5. Typed'
    BY <1>19, <2>1, <2>2, <2>4, Boxes, MessageTypes
    DEF SenderChecks, sessionVars, uttVars, Typed, SocketTypes, PhaseTypes, ClientTypes
  <2>8. Calls'
    BY <1>19 DEF SenderChecks, sessionVars, uttVars, Calls
  <2> QED
    BY <2>2, <2>5, <2>8
<1>20. CASE SenderWrites
  <2>1. SocketTypes'
    <3>1. call \in Nat
      BY DEF Typed, ClientTypes
    <3>2. PICK m \in Messages : inbox' = Append(inbox, m)
      BY <1>20, <3>1, MessageTypes DEF SenderWrites
    <3> QED
      BY <1>20, <3>2 DEF SenderWrites, Typed, SocketTypes
  <2>2. PhaseTypes' /\ UtteranceTypes' /\ Coroutine' /\ Spoken'
    BY <1>20, SessionAside
  <2>4. ClientTypes'
    <3>1. CASE sender = "last"
      BY <1>20, <3>1 DEF SenderWrites, Typed, ClientTypes
    <3>2. CASE sender # "last"
      <4>1. left \in 0 .. MaxTexts /\ left > 0 /\ left' = left - 1 /\ MaxTexts \in Nat
        BY <1>20, <3>2, ClientAssumption DEF SenderWrites, Typed, ClientTypes
      <4>2. left' \in 0 .. MaxTexts
        BY <4>1
      <4> QED
        BY <1>20, <3>2, <4>2 DEF SenderWrites, Typed, ClientTypes
    <3> QED
      BY <3>1, <3>2
  <2>5. Typed'
    <3>1. call \in 1 .. MaxCalls
      BY <1>20 DEF SenderWrites, Typed, ClientTypes
    <3>2. PICK m \in Messages : inbox' = Append(inbox, m) /\ (m.kind = "text" => m.of = call)
      <4>1. CASE sender = "last"
        BY <1>20, <4>1, MessageTypes DEF SenderWrites, Done
      <4>2. CASE sender # "last"
        <5>1. PICK ok \in {TRUE, ~OddTexts} : inbox' = Append(inbox, Text(call, ok))
          BY <1>20, <4>2 DEF SenderWrites
        <5>2. ok \in BOOLEAN
          OBVIOUS
        <5>3. Text(call, ok) \in Messages /\ Text(call, ok).of = call
          BY <3>1, <5>2, MessageTypes DEF Text
        <5> QED
          BY <5>1, <5>3
      <4> QED
        BY <4>1, <4>2
    <3>3. \A i \in DOMAIN inbox' : inbox'[i].kind = "text" => inbox'[i].of \in 1 .. call
      BY <3>1, <3>2 DEF Typed
    <3>4. sender' # "none" /\ sender' \notin {"first", "hold"} /\ UNCHANGED <<call, phase, text>>
      BY <1>20 DEF SenderWrites, uttVars
    <3> QED
      BY <3>1, <3>3, <3>4, <2>1, <2>2, <2>4 DEF Typed
  <2>8. Calls'
    BY <1>20 DEF SenderWrites, Calls
  <2> QED
    BY <2>2, <2>5, <2>8
<1>21. CASE SendCancel
  <2>1. SocketTypes'
    BY <1>21, Boxes, EmptySeq, EventTypes, MessageTypes
    DEF SendCancel, sessionVars, uttVars, Typed, SocketTypes, PhaseTypes, UtteranceTypes,
       ClientTypes
  <2>2. PhaseTypes' /\ UtteranceTypes' /\ Coroutine' /\ Spoken'
    BY <1>21, SessionAside
  <2>4. ClientTypes'
    BY <1>21, ClientAssumption DEF SendCancel, sessionVars, uttVars, Typed, ClientTypes
  <2>5. Typed'
    BY <1>21, <2>1, <2>2, <2>4, Boxes, MessageTypes, SMTT(30)
    DEF SendCancel, sessionVars, uttVars, Typed, SocketTypes, PhaseTypes, ClientTypes, Coroutine,
       Calls, Messages, Text, Done, Cancel, Close
  <2>8. Calls'
    BY <1>21 DEF SendCancel, Calls
  <2> QED
    BY <2>2, <2>5, <2>8
<1>22. CASE Connect
  <2>1. SocketTypes'
    BY <1>22, EmptySeq DEF Connect, Admit, AcceptFails, sessionVars, Typed, SocketTypes
  <2>2. PhaseTypes'
    BY <1>22, EventTypes
    DEF Connect, Admit, AcceptFails, Say, sessionVars, uttVars, Typed, SocketTypes, PhaseTypes
  <2>3. UtteranceTypes'
    BY <1>22, TailOf, AppendOf, StreamTypes, SessionAssumption
    DEF Connect, Admit, AcceptFails, Say, sessionVars, uttVars, Typed, UtteranceTypes
  <2>4. ClientTypes'
    BY <1>22, ClientAssumption
    DEF Connect, Admit, AcceptFails, Say, sessionVars, uttVars, Typed, SocketTypes, ClientTypes,
       Events, Codes
  <2>5. Typed'
    BY <1>22, <2>1, <2>2, <2>3, <2>4, Boxes, MessageTypes
    DEF Connect, Admit, AcceptFails, Say, sessionVars, uttVars, Typed
  <2>6. Coroutine'
    BY <1>22, EventTypes
    DEF Connect, Admit, AcceptFails, Say, sessionVars, uttVars, Typed, PhaseTypes,
       UtteranceTypes, SocketTypes, Coroutine, InWait, Sounds, Ends, Event, Error
  <2>7. Spoken'
    BY <1>22, TailOf DEF Connect, Admit, AcceptFails, Say, sessionVars, uttVars, Spoken
  <2>8. Calls'
    BY <1>22 DEF Connect, Admit, AcceptFails, Say, sessionVars, uttVars, Calls
  <2> QED
    BY <2>5, <2>6, <2>7, <2>8
<1>23. CASE CloseClient
  <2>1. SocketTypes'
    BY <1>23, Boxes, EmptySeq, EventTypes, MessageTypes
    DEF CloseClient, Disconnect, sessionVars, uttVars, Typed, SocketTypes, PhaseTypes
  <2>2. PhaseTypes' /\ UtteranceTypes' /\ Coroutine' /\ Spoken'
    BY <1>23, SessionAside
  <2>4. ClientTypes'
    <3>1. cancelling' \in BOOLEAN
      BY <1>23 DEF CloseClient, Disconnect
    <3>2. left' \in 0 .. MaxTexts /\ call' \in 0 .. MaxCalls
      BY <1>23, ClientAssumption DEF CloseClient, Disconnect, Typed, ClientTypes
    <3> QED
      BY <1>23, <3>1, <3>2 DEF CloseClient, Disconnect, Typed, ClientTypes, Codes
  <2>5. Typed'
    BY <1>23, <2>1, <2>2, <2>4, Boxes, MessageTypes
    DEF CloseClient, Disconnect, sessionVars, uttVars, Typed, SocketTypes, PhaseTypes,
       ClientTypes, Coroutine, Calls, Messages, Text, Done, Cancel, Close
  <2>8. Calls'
    BY <1>23 DEF CloseClient, Disconnect, sessionVars, uttVars, Calls
  <2> QED
    BY <2>2, <2>5, <2>8
<1>24. CASE Synthesize
  <2>1. SocketTypes'
    BY <1>24, Boxes, EmptySeq, EventTypes, MessageTypes
    DEF Synthesize, sessionVars, uttVars, Typed, SocketTypes
  <2>2. PhaseTypes' /\ UtteranceTypes' /\ Coroutine' /\ Spoken'
    BY <1>24, SessionAside
  <2>4. ClientTypes'
    <3>1. cancelling' \in BOOLEAN
      BY <1>24 DEF Synthesize
    <3>2. left' \in 0 .. MaxTexts /\ call' \in 0 .. MaxCalls
      BY <1>24, ClientAssumption DEF Synthesize, Typed, ClientTypes
    <3> QED
      BY <1>24, <3>1, <3>2 DEF Synthesize, Typed, ClientTypes
  <2>5. Typed'
    BY <1>24, <2>1, <2>2, <2>4, Boxes, MessageTypes
    DEF Synthesize, sessionVars, uttVars, Typed, SocketTypes, PhaseTypes, ClientTypes
  <2>8. Calls'
    BY <1>24 DEF Synthesize, sessionVars, uttVars, Calls
  <2> QED
    BY <2>2, <2>5, <2>8
<1>25. CASE GiveUp
  <2>1. SocketTypes'
    BY <1>25, Boxes, EmptySeq, EventTypes, MessageTypes
    DEF GiveUp, Disconnect, sessionVars, uttVars, Typed, SocketTypes, PhaseTypes
  <2>2. PhaseTypes' /\ UtteranceTypes' /\ Coroutine' /\ Spoken'
    BY <1>25, SessionAside
  <2>4. ClientTypes'
    <3>1. cancelling' \in BOOLEAN
      BY <1>25 DEF GiveUp, Disconnect
    <3>2. left' \in 0 .. MaxTexts /\ call' \in 0 .. MaxCalls
      BY <1>25, ClientAssumption DEF GiveUp, Disconnect, Typed, ClientTypes
    <3> QED
      BY <1>25, <3>1, <3>2 DEF GiveUp, Disconnect, Typed, ClientTypes
  <2>5. Typed'
    BY <1>25, <2>1, <2>2, <2>4, Boxes, MessageTypes
    DEF GiveUp, Disconnect, sessionVars, uttVars, Typed, SocketTypes
  <2>8. Calls'
    BY <1>25 DEF GiveUp, Disconnect, sessionVars, uttVars, Calls
  <2> QED
    BY <2>2, <2>5, <2>8
<1>26. CASE RequestCancel
  <2>1. SocketTypes'
    BY <1>26, Boxes, EmptySeq, EventTypes, MessageTypes
    DEF RequestCancel, sessionVars, uttVars, Typed, SocketTypes
  <2>2. PhaseTypes' /\ UtteranceTypes' /\ Coroutine' /\ Spoken'
    BY <1>26, SessionAside
  <2>4. ClientTypes'
    BY <1>26, ClientAssumption DEF RequestCancel, sessionVars, uttVars, Typed, ClientTypes
  <2>5. Typed'
    BY <1>26, <2>1, <2>2, <2>4, Boxes, MessageTypes DEF RequestCancel, sessionVars, uttVars, Typed
  <2>8. Calls'
    BY <1>26 DEF RequestCancel, sessionVars, uttVars, Calls
  <2> QED
    BY <2>2, <2>5, <2>8
<1> QED
  BY <1>1, <1>2, <1>3, <1>4, <1>5, <1>6, <1>7, <1>8, <1>9, <1>10, <1>11, <1>12, <1>13, <1>14,
     <1>15, <1>16, <1>17, <1>18, <1>19, <1>20, <1>21, <1>22, <1>23, <1>24, <1>25, <1>26
  DEF Next, SessionStep, CoroutineStep, VendorStep, ReaderStep

-----------------------------------------------------------------------------
(* What a step of the session does to the messages and the events.          *)

Moves   == inbox' = inbox \/ (inbox # << >> /\ inbox' = Tail(inbox))
Took(u) == inbox # << >> /\ inbox' = Tail(inbox) /\ inbox[1].kind = "cancel" /\ inbox[1].of = u
           /\ ~InWait'
Dropped == inbox # << >> /\ inbox' = Tail(inbox) /\ inbox[1].kind # "cancel"
Waits   == InWait' => \/ InWait /\ (inputDone' => inputDone)
                      \/ Dropped /\ (InWait \/ ~inputDone')

(* Every message that waits has been waiting.                               *)
NoNews == \A i \in DOMAIN inbox' : \E k \in DOMAIN inbox : inbox'[i] = inbox[k]

(* Reading a message brings none.                                           *)
LEMMA TailIsOld ==
    ASSUME Basics, inbox # << >>, inbox' = Tail(inbox)
    PROVE  NoNews
  BY Boxes DEF Basics, NoNews

(* A session that refuses a message between two utterances writes the       *)
(* error.                                                                   *)
LEMMA RefusalWrites ==
    ASSUME IdleRefuse \/ IdleTimeout
    PROVE  \E c : phase' = "write" /\ writing' = [event |-> Error(c), next |-> writing'.next]
                  /\ writing'.next \in {"idle", "hangup"}
<1>1. CASE IdleRefuse
  BY <1>1 DEF IdleRefuse, Say
<1>2. CASE IdleTimeout
  BY <1>2 DEF IdleTimeout, Say
<1> QED
  BY <1>1, <1>2

(* It takes the first message or none.                                      *)
LEMMA SessionMoves ==
    ASSUME Basics, SessionStep
    PROVE  Moves /\ Waits
<1> USE DEF Basics
<1>1. CASE Written \/ WriteFails \/ IdleTimeout \/ HangUp \/ AppendText \/ TakeOutput \/ CleanUp
  <2>1. inbox' = inbox /\ inputDone' = inputDone
    BY <1>1 DEF Written, WriteFails, IdleTimeout, HangUp, AppendText, TakeOutput, CleanUp, uttVars
  <2>2. CASE Written
    BY <2>1, <2>2 DEF Written, InWait, Nothing, Waits, Typed, PhaseTypes, Writings, Moves
  <2>3. CASE WriteFails \/ IdleTimeout \/ HangUp
    <3>1. ~InWait'
      BY <2>3 DEF WriteFails, Fails, Hangs, IdleTimeout, Say, HangUp, InWait
    <3> QED
      BY <2>1, <3>1 DEF Waits, Moves
  <2>4. CASE AppendText \/ TakeOutput
    BY <2>1, <2>4 DEF AppendText, TakeOutput, InWait, Waits, Moves
  <2>5. CASE CleanUp
    <3>1. ~InWait'
      BY <2>5 DEF CleanUp, Hangs, Say, InWait
    <3> QED
      BY <2>1, <3>1 DEF Waits, Moves
  <2> QED
    BY <1>1, <2>2, <2>3, <2>4, <2>5
<1>2. CASE IdleStart
  <2>1. Dropped /\ ~inputDone'
    BY <1>2 DEF IdleStart, Dropped
  <2> QED
    BY <2>1 DEF Moves, Waits, Dropped
<1>3. CASE IdleRefuse \/ IdleEnd
  BY <1>3 DEF IdleRefuse, Say, IdleEnd, Hangs, InWait, Moves, Waits
<1>4. CASE TakeMessage
  <2>1. inbox # << >> /\ inbox' = Tail(inbox) /\ Head(inbox) = inbox[1] /\ InWait
    BY <1>4 DEF TakeMessage, InWait
  <2>2. CASE TakeDone(Head(inbox))
    BY <2>1, <2>2 DEF TakeDone, Dropped, Moves, Waits
  <2>3. CASE ~TakeDone(Head(inbox))
    BY <1>4, <2>1, <2>3 DEF TakeMessage, TakeCancel, TakeText, TakeRefused, Moves, Waits
  <2> QED
    BY <2>2, <2>3
<1>5. CASE TakeNothing
  BY <1>5 DEF TakeNothing, Fails, InWait, Moves, Waits
<1>6. CASE VendorStep \/ (VendorBreaks /\ VendorFrame)
  BY <1>6 DEF VendorStep, VendorFrame, InWait, Moves, Waits
<1> QED
  BY <1>1, <1>2, <1>3, <1>4, <1>5, <1>6 DEF SessionStep, CoroutineStep

(* It writes an event or none.                                              *)
LEMMA SessionSpeaks ==
    ASSUME Basics, SessionStep
    PROVE  \/ UNCHANGED outbox
           \/ \E e \in Events :
                 /\ outbox' = Append(outbox, e)
                 /\ (Fatal(e) /\ Hangs) \/ (Written /\ e = writing.event)
<1> USE DEF Basics
<1>1. CASE Written
  BY <1>1 DEF Written, Typed, PhaseTypes, Writings
<1>2. CASE Hangs
  BY <1>2, EventTypes DEF Hangs, Hangup, Event, Fatal
<1>3. CASE ~Written /\ ~Hangs
  BY <1>3
  DEF SessionStep, CoroutineStep, WriteFails, IdleTimeout, VendorStep, VendorFrame, IdleStart,
     IdleRefuse, IdleEnd, HangUp, TakeMessage, AppendText, TakeOutput, CleanUp, TakeNothing
<1> QED
  BY <1>1, <1>2, <1>3

(* The session does not change whether the client is connected.             *)
LEMMA SessionConnection ==
    ASSUME SessionStep
    PROVE  connected' = connected
  BY DEF SessionStep, CoroutineStep, Written, WriteFails, IdleTimeout, VendorStep, VendorFrame,
     IdleStart, IdleRefuse, IdleEnd, HangUp, TakeMessage, AppendText, TakeOutput, CleanUp,
     TakeNothing

(* Only the start of an utterance changes its number.                       *)
LEMMA StaysInUtterance ==
    ASSUME SessionStep, ~IdleStart
    PROVE  utterance' = utterance
  BY DEF SessionStep, CoroutineStep, Written, WriteFails, IdleTimeout, VendorStep, VendorFrame,
     uttVars, IdleRefuse, IdleEnd, HangUp, TakeMessage, AppendText, TakeOutput, CleanUp,
     TakeNothing

(* A write in progress stays in progress until it is written or fails.      *)
LEMMA WriteOrFail ==
    ASSUME SessionStep, phase = "write", ~Written, InWait'
    PROVE  UNCHANGED <<phase, writing>>
<1>1. ~WriteFails
  BY DEF WriteFails, Fails, Hangs, InWait
<1> QED
  BY <1>1
  DEF SessionStep, CoroutineStep, IdleTimeout, VendorStep, VendorFrame, IdleStart, IdleRefuse,
     IdleEnd, HangUp, TakeMessage, AppendText, TakeOutput, CleanUp, TakeNothing

(* The coroutine comes to read the messages of an utterance only by         *)
(* starting one.                                                            *)
LEMMA SessionStarts ==
    ASSUME Basics, SessionStep, InWait'
    PROVE  \/ InWait
           \/ IdleStart /\ inbox # << >> /\ inbox' = Tail(inbox) /\ inbox[1].kind = "text"
<1> USE DEF Basics
<1>1. CASE Written
  BY <1>1 DEF Written, InWait, Nothing, Typed, PhaseTypes, Writings
<1>2. CASE ~Written /\ (WriteFails \/ IdleEnd \/ HangUp \/ TakeNothing)
  BY <1>2 DEF WriteFails, Fails, Hangs, IdleEnd, HangUp, TakeNothing, InWait
<1>3. CASE ~Written /\ (IdleTimeout \/ IdleRefuse)
  BY <1>3, RefusalWrites DEF InWait
<1>4. CASE ~Written /\ IdleStart
  BY <1>4 DEF IdleStart
<1>5. CASE ~Written /\ (TakeMessage \/ AppendText \/ TakeOutput)
  BY <1>5 DEF TakeMessage, AppendText, TakeOutput, InWait
<1>6. CASE ~Written /\ CleanUp
  BY <1>6 DEF CleanUp, Hangs, Say, InWait
<1>7. CASE ~Written /\ (VendorStep \/ (VendorBreaks /\ VendorFrame))
  BY <1>7 DEF VendorStep, VendorFrame, InWait
<1> QED
  BY <1>1, <1>2, <1>3, <1>4, <1>5, <1>6, <1>7 DEF SessionStep, CoroutineStep

(* The number announced never falls, and grows by what audio.start writes.  *)
LEMMA AnnouncedGrows ==
    ASSUME Basics, SessionStep
    PROVE  /\ Announced <= Announced'
           /\ Starting /\ Written => Announced < utterance /\ utterance = Announced'
<1> USE DEF Basics
<1>1. utterance \in Nat
  BY DEF Typed, UtteranceTypes
<1>2. ASSUME IdleStart PROVE Announced <= Announced'
  BY <1>1, <1>2 DEF IdleStart, Announced
<1>3. ASSUME ~IdleStart PROVE Announced <= Announced'
  <2>1. utterance' = utterance
    BY <1>3
    DEF SessionStep, CoroutineStep, Written, WriteFails, IdleTimeout, VendorStep, VendorFrame,
       IdleRefuse, IdleEnd, HangUp, TakeMessage, AppendText, TakeOutput, CleanUp, TakeNothing,
       uttVars
  <2>2. Starting' => Starting
    <3>1. CASE IdleRefuse \/ IdleTimeout
      <4>1. \E c : phase' = "write" /\ writing' = [event |-> Error(c), next |-> writing'.next]
        <5>1. CASE IdleRefuse
          BY <5>1 DEF IdleRefuse, Say
        <5>2. CASE IdleTimeout
          BY <5>2 DEF IdleTimeout, Say
        <5> QED
          BY <3>1, <5>1, <5>2
      <4> QED
        BY <4>1 DEF Starting, Error
    <3>2. CASE TakeMessage
      BY <3>2 DEF TakeMessage, TakeCancel, TakeText, TakeDone, TakeRefused, Say, Error, Starting
    <3>3. CASE Written \/ WriteFails \/ IdleEnd \/ HangUp
      BY <3>3
      DEF Written, WriteFails, Fails, Hangs, IdleEnd, HangUp, Starting, Nothing, Hangup, Event
    <3>4. CASE TakeNothing \/ AppendText \/ TakeOutput \/ CleanUp
      BY <3>4
      DEF TakeNothing, Fails, AppendText, TakeOutput, CleanUp, Say, Event, Error, Hangs, Starting
    <3>5. CASE VendorStep \/ (VendorBreaks /\ VendorFrame)
      BY <3>5 DEF VendorStep, VendorFrame, Starting
    <3> QED
      BY <1>3, <3>1, <3>2, <3>3, <3>4, <3>5 DEF SessionStep, CoroutineStep
  <2> QED
    BY <1>1, <2>1, <2>2 DEF Announced
<1>4. Starting /\ Written => Announced < utterance /\ utterance = Announced'
  BY <1>1 DEF Written, Announced, Starting, Nothing, Hangup, Event
<1> QED
  BY <1>1, <1>2, <1>3, <1>4

(* It acts on the cancellation it takes, and on no other.                   *)
LEMMA SessionLeaves ==
    ASSUME Basics, SessionStep, Leaving'
    PROVE  utterance' = utterance /\ (Leaving \/ (phase = "wait" /\ Took(utterance)))
<1> USE DEF Basics
<1>1. CASE Written \/ WriteFails \/ IdleTimeout \/ IdleRefuse \/ IdleEnd \/ HangUp
  <2>1. CASE Written
    BY <2>1 DEF Written, Leaving, Coroutine, Nothing, Hangup, Event
  <2>2. CASE WriteFails
    BY <2>2 DEF WriteFails, Fails, Hangs, Leaving
  <2>3. CASE IdleTimeout \/ IdleRefuse
    <3>1. \E c : phase' = "write" /\ writing' = [event |-> Error(c), next |-> writing'.next]
      <4>1. CASE IdleRefuse
        BY <4>1 DEF IdleRefuse, Say
      <4>2. CASE IdleTimeout
        BY <4>2 DEF IdleTimeout, Say
      <4> QED
        BY <2>3, <4>1, <4>2
    <3> QED
      BY <3>1 DEF Leaving, Error
  <2>4. CASE IdleEnd \/ HangUp
    BY <2>4 DEF IdleEnd, HangUp, Hangs, Leaving
  <2> QED
    BY <1>1, <2>1, <2>2, <2>3, <2>4
<1>2. CASE IdleStart
  BY <1>2 DEF IdleStart, Say, Event, Leaving
<1>3. CASE TakeMessage
  <2>1. CASE TakeCancel(Head(inbox))
    BY <1>3, <2>1, Boxes DEF TakeMessage, TakeCancel, Took, InWait
  <2>2. CASE ~TakeCancel(Head(inbox))
    BY <1>3, <2>2 DEF TakeMessage, TakeText, TakeDone, TakeRefused, Say, Error, Leaving
  <2> QED
    BY <2>1, <2>2
<1>4. CASE TakeNothing \/ TakeOutput \/ AppendText
  BY <1>4 DEF TakeNothing, Fails, TakeOutput, AppendText, Say, Event, Error, Leaving
<1>5. CASE CleanUp
  BY <1>5 DEF CleanUp, Say, Hangs, Error, Leaving
<1>6. CASE VendorStep \/ (VendorBreaks /\ VendorFrame)
  BY <1>6 DEF VendorStep, VendorFrame, Leaving
<1> QED
  BY <1>1, <1>2, <1>3, <1>4, <1>5, <1>6 DEF SessionStep, CoroutineStep

(* A cancellation is acted on only when its message was taken.              *)
LEMMA SessionActs ==
    ASSUME Basics, SessionStep, NEW u, Acted(u)'
    PROVE  Acted(u) \/ Took(u)
<1> USE DEF Basics
<1>1. ASSUME NEW i \in DOMAIN outbox', outbox'[i].kind = "cancelled", outbox'[i].utt = u
      PROVE  Acted(u)
  <2>1. CASE i \in DOMAIN outbox /\ outbox'[i] = outbox[i]
    BY <1>1, <2>1 DEF Acted
  <2>2. CASE Written /\ outbox'[i] = writing.event
    BY <1>1, <2>2 DEF Written, Acted, Leaving, Coroutine, Ends
  <2>3. CASE Fatal(outbox'[i])
    BY <1>1, <2>3 DEF Fatal
  <2> QED
    BY <1>1, <2>1, <2>2, <2>3, SessionSpeaks
<1>2. ASSUME u = utterance', Leaving' PROVE Acted(u) \/ Took(u)
  BY <1>2, SessionLeaves DEF Acted
<1> QED
  BY <1>1, <1>2 DEF Acted

-----------------------------------------------------------------------------
(* The order of the events.                                                 *)

(* Events in order stay in order when one that may follow is written.       *)
LEMMA ChainGrows ==
    ASSUME Basics, Chain, NEW e \in Events, Follows(Last, e), outbox' = Append(outbox, e),
           UNCHANGED <<main, heard>>
    PROVE  Chain' /\ Last' = e
<1>1. DOMAIN outbox' = 1 .. Len(outbox) + 1 /\ outbox' # << >> /\ Len(outbox) \in Nat
  OBVIOUS
<1>2. /\ Len(outbox') = Len(outbox) + 1 /\ outbox'[Len(outbox) + 1] = e
      /\ \A i \in 1 .. Len(outbox) : outbox'[i] = outbox[i]
  OBVIOUS
<1>3. Seen' = Seen
  BY DEF Seen
<1>4. CASE outbox = << >>
  <2>1. Len(outbox) = 0
    BY <1>4
  <2> QED
    BY <1>1, <1>2, <1>3, <1>4, <2>1 DEF Chain, Last
<1>5. CASE outbox # << >>
  <2>1. Len(outbox) > 0
    BY <1>5
  <2>2. outbox'[1] = outbox[1]
    BY <1>2, <2>1
  <2>3. ASSUME NEW i \in 1 .. Len(outbox) PROVE Follows(outbox'[i], outbox'[i + 1])
    <3>1. CASE i = Len(outbox)
      BY <1>2, <1>5, <3>1 DEF Last
    <3>2. CASE i # Len(outbox)
      BY <1>1, <1>2, <3>2 DEF Chain
    <3> QED
      BY <3>1, <3>2
  <2>4. Last' = e
    BY <1>1, <1>2 DEF Last
  <2> QED
    BY <1>1, <1>2, <1>3, <1>5, <2>2, <2>3, <2>4 DEF Chain
<1> QED
  BY <1>4, <1>5

(* Two events after which the same may follow.                              *)
Alike(e, f) ==
    \/ e.kind \in {"created", "done", "cancelled"} /\ f.kind \in {"created", "done", "cancelled"}
    \/ Sounds(e) /\ Sounds(f) /\ e.utt = f.utt

(* Events that are alike allow the same events to follow.                   *)
LEMMA AlikeTuned ==
    ASSUME NEW e, NEW f, Alike(e, f)
    PROVE  (\A g : Follows(e, g) <=> Follows(f, g)) /\ (Tuned(e) <=> Tuned(f))
<1>1. \A g : Follows(e, g) <=> Follows(f, g)
  BY DEF Alike, Follows, Fatal, Sounds
<1>2. \A ph : Ready(ph, e) <=> Ready(ph, f)
  BY DEF Alike, Ready, Fatal, Sounds
<1> QED
  BY <1>1, <1>2 DEF Tuned

(* The reader goes on to the next event.                                    *)
LEMMA ChainRead ==
    ASSUME Basics, Chain, Tuned(Last), outbox # << >>, outbox' = Tail(outbox),
           Alike(outbox[1], Seen'), UNCHANGED <<phase, writing, utterance, outcome>>
    PROVE  Chain' /\ Tuned(Last)'
<1>1. /\ Len(outbox) \in Nat \ {0} /\ Len(outbox') = Len(outbox) - 1
      /\ \A i \in 1 .. Len(outbox) - 1 : outbox'[i] = outbox[i + 1]
  OBVIOUS
<1>2. outbox' \in Seq(Events) /\ (outbox' = << >> <=> Len(outbox) = 1)
  <2>1. outbox' \in Seq(Events)
    BY TailOf DEF Basics, Typed, SocketTypes
  <2>2. outbox' = << >> <=> Len(outbox') = 0
    BY <2>1, EmptySeq
  <2> QED
    BY <1>1, <2>1, <2>2
<1>3. \A e : Tuned(e)' <=> Tuned(e)
  BY DEF Tuned, Ready
<1>4. CASE Len(outbox) = 1
  <2>1. Last = outbox[1] /\ Last' = Seen'
    BY <1>2, <1>4 DEF Last
  <2>2. Tuned(Seen')
    BY <2>1, AlikeTuned
  <2> QED
    BY <1>1, <1>2, <1>3, <1>4, <2>1, <2>2 DEF Chain
<1>5. CASE Len(outbox) # 1
  <2>1. Last = outbox[Len(outbox)] /\ Last' = outbox'[Len(outbox) - 1]
    BY <1>1, <1>2, <1>5 DEF Last
  <2>2. Last' = Last
    BY <1>1, <1>5, <2>1
  <2>3. outbox'[1] = outbox[2] /\ Follows(outbox[1], outbox[2])
    BY <1>1, <1>5 DEF Chain
  <2>4. Follows(Seen', outbox'[1])
    BY <2>3, AlikeTuned
  <2>5. ASSUME NEW i \in 1 .. Len(outbox') - 1 PROVE Follows(outbox'[i], outbox'[i + 1])
    BY <1>1 DEF Chain
  <2>6. Chain'
    BY <2>4, <2>5 DEF Chain
  <2> QED
    BY <1>3, <2>2, <2>6
<1> QED
  BY <1>4, <1>5

(* Every step keeps the events in order.                                    *)
LEMMA OrderInv ==
    ASSUME Basics, Order, Numbered, Next
    PROVE  Order'
<1> USE DEF Basics
<1>1. CASE Written /\ UNCHANGED clientVars
  <2>1. UNCHANGED <<connected, main, heard, utterance, outcome>>
    BY <1>1 DEF Written, clientVars
  <2>2. CASE connected
    <3>1. PICK e \in Events : e = writing.event
      BY DEF Typed, PhaseTypes, Writings
    <3>2. Follows(Last, e) /\ Ready(writing.next, e)
      BY <1>1, <2>2, <3>1 DEF Written, Order, Tuned
    <3>3. Chain' /\ Last' = e
      BY <1>1, <2>1, <2>2, <3>1, <3>2, ChainGrows DEF Written, Order
    <3>4. Tuned(e)'
      BY <1>1, <2>1, <3>2 DEF Written, Tuned, Ready, Fatal, Sounds, Typed, PhaseTypes, Writings
    <3> QED
      BY <3>3, <3>4 DEF Order
  <2>3. CASE ~connected
    BY <2>1, <2>3 DEF Order
  <2> QED
    BY <2>2, <2>3
<1>2. CASE IdleStart /\ UNCHANGED clientVars
  <2>1. UNCHANGED <<outbox, connected, Seen, Last>>
    BY <1>2 DEF IdleStart, clientVars, Seen, Last
  <2>2. Chain => Chain'
    BY <2>1 DEF Chain
  <2>3. connected /\ Tuned(Last) => Tuned(Last)'
    BY <1>2, <2>1
    DEF IdleStart, Say, Coroutine, Tuned, Ready, Follows, Fatal, Sounds, Event, clientVars
  <2> QED
    BY <2>1, <2>2, <2>3 DEF Order
<1>3. CASE IdleRefuse /\ UNCHANGED clientVars
  <2>1. UNCHANGED <<outbox, connected, Seen, Last>>
    BY <1>3 DEF IdleRefuse, clientVars, Seen, Last
  <2>2. Chain => Chain'
    BY <2>1 DEF Chain
  <2>3. connected /\ Tuned(Last) => Tuned(Last)'
    BY <1>3, <2>1
    DEF IdleRefuse, Say, Coroutine, Tuned, Ready, Follows, Fatal, Sounds, Error, clientVars
  <2> QED
    BY <2>1, <2>2, <2>3 DEF Order
<1>4. CASE IdleTimeout /\ UNCHANGED clientVars
  <2>1. UNCHANGED <<outbox, connected, Seen, Last>>
    BY <1>4 DEF IdleTimeout, clientVars, Seen, Last
  <2>2. Chain => Chain'
    BY <2>1 DEF Chain
  <2>3. connected /\ Tuned(Last) => Tuned(Last)'
    BY <1>4, <2>1
    DEF IdleTimeout, Say, Coroutine, Tuned, Ready, Follows, Fatal, Sounds, Error, clientVars
  <2> QED
    BY <2>1, <2>2, <2>3 DEF Order
<1>5. CASE TakeMessage /\ UNCHANGED clientVars
  <2>1. UNCHANGED <<outbox, connected, Seen, Last>>
    BY <1>5 DEF TakeMessage, clientVars, Seen, Last
  <2>2. Chain => Chain'
    BY <2>1 DEF Chain
  <2>3. connected /\ Tuned(Last) => Tuned(Last)'
    BY <1>5, <2>1
    DEF TakeMessage, TakeCancel, TakeText, TakeDone, TakeRefused, Say, Coroutine, Tuned, Ready,
       Follows, Fatal, Error, clientVars
  <2> QED
    BY <2>1, <2>2, <2>3 DEF Order
<1>6. CASE TakeNothing /\ UNCHANGED clientVars
  <2>1. UNCHANGED <<outbox, connected, Seen, Last>>
    BY <1>6 DEF TakeNothing, clientVars, Seen, Last
  <2>2. Chain => Chain'
    BY <2>1 DEF Chain
  <2>3. connected /\ Tuned(Last) => Tuned(Last)'
    BY <1>6, <2>1 DEF TakeNothing, Fails, Coroutine, Tuned, Ready, clientVars
  <2> QED
    BY <2>1, <2>2, <2>3 DEF Order
<1>7. CASE AppendText /\ UNCHANGED clientVars
  <2>1. UNCHANGED <<outbox, connected, Seen, Last>>
    BY <1>7 DEF AppendText, clientVars, Seen, Last
  <2>2. Chain => Chain'
    BY <2>1 DEF Chain
  <2>3. connected /\ Tuned(Last) => Tuned(Last)'
    BY <1>7, <2>1
    DEF AppendText, Say, Coroutine, Tuned, Ready, Follows, Fatal, Sounds, Error, clientVars
  <2> QED
    BY <2>1, <2>2, <2>3 DEF Order
<1>8. CASE TakeOutput /\ UNCHANGED clientVars
  <2>1. UNCHANGED <<outbox, connected, Seen, Last>>
    BY <1>8 DEF TakeOutput, clientVars, Seen, Last
  <2>2. Chain => Chain'
    BY <2>1 DEF Chain
  <2>3. connected /\ Tuned(Last) => Tuned(Last)'
    BY <1>8, <2>1
    DEF TakeOutput, Say, Fails, Coroutine, Tuned, Ready, Follows, Fatal, Sounds, Event,
       clientVars
  <2> QED
    BY <2>1, <2>2, <2>3 DEF Order
<1>9. CASE WriteFails /\ ~Hangs /\ UNCHANGED clientVars
  <2>1. UNCHANGED <<outbox, connected, Seen, Last>>
    BY <1>9 DEF WriteFails, clientVars, Seen, Last
  <2>2. Chain => Chain'
    BY <2>1 DEF Chain
  <2>3. connected /\ Tuned(Last) => Tuned(Last)'
    BY <1>9, <2>1 DEF WriteFails, Fails, Coroutine, Tuned, Ready, clientVars
  <2> QED
    BY <2>1, <2>2, <2>3 DEF Order
<1>10. CASE CleanUp /\ ~Hangs /\ UNCHANGED clientVars
  <2>1. UNCHANGED <<outbox, connected, Seen, Last>>
    BY <1>10 DEF CleanUp, clientVars, Seen, Last
  <2>2. Chain => Chain'
    BY <2>1 DEF Chain
  <2>3. connected /\ Tuned(Last) => Tuned(Last)'
    BY <1>10, <2>1
    DEF CleanUp, Say, Coroutine, Tuned, Ready, Follows, Fatal, Sounds, Event, Error, clientVars
  <2> QED
    BY <2>1, <2>2, <2>3 DEF Order
<1>11. CASE (VendorStep \/ (VendorBreaks /\ VendorFrame)) /\ UNCHANGED clientVars
  <2>1. UNCHANGED <<outbox, connected, Seen, Last>>
    BY <1>11 DEF VendorStep, VendorFrame, clientVars, Seen, Last
  <2>2. Chain => Chain'
    BY <2>1 DEF Chain
  <2>3. connected /\ Tuned(Last) => Tuned(Last)'
    BY <1>11, <2>1 DEF VendorStep, VendorFrame, Coroutine, Tuned, Ready, clientVars
  <2> QED
    BY <2>1, <2>2, <2>3 DEF Order
<1>12. CASE Hangs /\ UNCHANGED connected /\ UNCHANGED clientVars
  <2>1. UNCHANGED <<connected, main, heard>>
    BY <1>12 DEF Hangs, clientVars
  <2>2. CASE connected
    <3>1. Follows(Last, Hangup) /\ Hangup \in Events
      BY EventTypes DEF Follows, Fatal, Hangup, Event
    <3>2. outbox' = Append(outbox, Hangup)
      BY <1>12, <2>2 DEF Hangs
    <3>3. Chain' /\ Last' = Hangup
      BY <2>1, <2>2, <3>1, <3>2, ChainGrows DEF Order
    <3>4. Tuned(Hangup)'
      BY <1>12 DEF Hangs, Tuned, Ready, Fatal, Hangup, Event
    <3> QED
      BY <3>3, <3>4 DEF Order
  <2>3. CASE ~connected
    BY <2>1, <2>3 DEF Order
  <2> QED
    BY <2>2, <2>3
<1>13. CASE SenderChecks \/ SenderWrites \/ SendCancel \/ RequestCancel \/ Join \/ Synthesize
  <2>1. UNCHANGED <<outbox, connected, phase, writing, utterance, outcome>>
    BY <1>13
    DEF SenderChecks, SenderWrites, SendCancel, RequestCancel, Join, Synthesize, sessionVars,
       uttVars
  <2>2. UNCHANGED <<Seen, Last>>
    BY <1>13, <2>1
    DEF SenderChecks, SenderWrites, SendCancel, RequestCancel, Join, Synthesize, Seen, Last
  <2> QED
    BY <2>1, <2>2 DEF Order, Chain, Tuned, Ready
<1>14. CASE CloseClient \/ GiveUp
  BY <1>14 DEF CloseClient, GiveUp, Disconnect, Order
<1>15. CASE Connect
  <2>1. CASE Admit /\ main' = "opening"
    <3>1. Seen' = Event("none", 0) /\ outbox' = << >>
      BY <2>1 DEF Admit, Seen
    <3>2. Last' = Event("none", 0) /\ Chain'
      BY <3>1 DEF Last, Chain
    <3>3. Tuned(Event("none", 0))'
      BY <2>1 DEF Admit, Say, Tuned, Follows, Ready, Event
    <3> QED
      BY <3>2, <3>3 DEF Order
  <2>2. CASE AcceptFails \/ UNCHANGED sessionVars
    BY <1>15, <2>2 DEF Connect, AcceptFails, sessionVars, Calls, Order
  <2> QED
    BY <1>15, <2>1, <2>2 DEF Connect
<1>16. CASE Receive
  <2> DEFINE e == outbox[1]
  <2>1. Head(outbox) = e /\ connected /\ main \in {"opening", "recv"} /\ outbox # << >>
    BY <1>16 DEF Receive, Calls
  <2>2. CASE Meaning(e) = "bad"
    BY <1>16, <2>1, <2>2 DEF Receive, Disconnect, Order
  <2>3. CASE Meaning(e) # "bad"
    <3>1. Follows(Seen, e) /\ ~Fatal(e)
      BY <2>1, <2>3 DEF Order, Chain, Meaning, Fatal
    <3>2. Alike(e, Seen')
      <4>1. CASE Meaning(e) = "open"
        BY <1>16, <2>1, <4>1 DEF Receive, Meaning, Alike, Seen, Event
      <4>2. CASE Meaning(e) = "start"
        <5>1. main' = "recv" /\ heard' = e.utt /\ e.kind = "start" /\ heard = 0
          BY <1>16, <2>1, <4>2 DEF Receive, Meaning
        <5>2. e.utt # 0
          BY <2>1, <5>1, Boxes DEF Numbered
        <5> QED
          BY <5>1, <5>2 DEF Alike, Seen, Sounds, Event
      <4>3. CASE Meaning(e) = "yield"
        BY <1>16, <2>1, <3>1, <4>3
        DEF Receive, Meaning, Alike, Seen, Sounds, Event, Follows, Fatal
      <4>4. CASE Meaning(e) = "end"
        BY <1>16, <2>1, <4>4 DEF Receive, Meaning, Alike, Seen, Event
      <4> QED
        BY <2>3, <4>1, <4>2, <4>3, <4>4 DEF Meaning
    <3>3. outbox' = Tail(outbox) /\ UNCHANGED <<phase, writing, utterance, outcome>>
      BY <1>16, <2>1, <2>3 DEF Receive, uttVars
    <3> QED
      BY <2>1, <3>2, <3>3, ChainRead DEF Order
  <2> QED
    BY <2>2, <2>3
<1> QED
  BY <1>1, <1>2, <1>3, <1>4, <1>5, <1>6, <1>7, <1>8, <1>9, <1>10, <1>11, <1>12, <1>13, <1>14,
     <1>15, <1>16
  DEF Next, SessionStep, CoroutineStep, ReaderStep, WriteFails, IdleEnd, HangUp, CleanUp

-----------------------------------------------------------------------------
(* The numbers of the utterances.                                           *)

(* A step that writes nothing and sends nothing keeps the numbering.        *)
LEMMA NumberedKept ==
    ASSUME Basics, Basics', Numbered, Announced <= Announced', NoNews,
           UNCHANGED <<outbox, connected, heard, canceller>>
    PROVE  Numbered'
<1> SUFFICES ASSUME connected PROVE Numbered'
  BY DEF Numbered
<1>1. Announced \in Int /\ Announced' \in Int /\ heard \in Nat /\ canceller \in Nat
  BY DEF Announced, Basics, Typed, UtteranceTypes, ClientTypes
<1>2. \A k \in DOMAIN inbox : inbox[k].of \in Nat
  BY Contents DEF Basics
<1>3. \A i \in DOMAIN outbox : outbox[i].utt \in Nat
  BY Contents DEF Basics
<1>4. heard' <= Announced' /\ canceller' <= Announced'
  BY <1>1 DEF Numbered
<1>5. \A i \in DOMAIN inbox' : inbox'[i].kind = "cancel" => inbox'[i].of <= Announced'
  BY <1>1, <1>2 DEF Numbered, NoNews
<1>6. ASSUME NEW i \in DOMAIN outbox, outbox[i].kind = "start"
      PROVE  /\ heard' < outbox[i].utt /\ canceller' < outbox[i].utt /\ outbox[i].utt <= Announced'
             /\ \A k \in DOMAIN inbox' : inbox'[k].kind = "cancel" => inbox'[k].of < outbox[i].utt
             /\ \A j \in 1 .. i - 1 : outbox[j].kind = "start" => outbox[j].utt < outbox[i].utt
  BY <1>1, <1>3, <1>6 DEF Numbered, NoNews
<1> QED
  BY <1>4, <1>5, <1>6 DEF Numbered

(* So does one that writes an event of the utterance announced.             *)
LEMMA NumberedGrows ==
    ASSUME Basics, Basics', Numbered, connected, NEW e \in Events, outbox' = Append(outbox, e),
           e.kind = "start" => Announced < e.utt /\ e.utt <= Announced',
           Announced <= Announced', NoNews, UNCHANGED <<connected, heard, canceller>>
    PROVE  Numbered'
<1>1. Announced \in Int /\ Announced' \in Int /\ heard \in Nat /\ canceller \in Nat /\ e.utt \in Nat
  BY SMTT(30) DEF Announced, Basics, Typed, UtteranceTypes, ClientTypes, Events
<1>2. \A k \in DOMAIN inbox : inbox[k].of \in Nat
  BY Contents DEF Basics
<1>3. \A i \in DOMAIN outbox : outbox[i].utt \in Nat
  BY Contents DEF Basics
<1>4. /\ DOMAIN outbox' = 1 .. Len(outbox) + 1 /\ DOMAIN outbox = 1 .. Len(outbox)
         /\ Len(outbox) \in Nat
      /\ outbox'[Len(outbox) + 1] = e /\ \A i \in DOMAIN outbox : outbox'[i] = outbox[i]
  OBVIOUS
<1>5. heard' <= Announced' /\ canceller' <= Announced'
  BY <1>1 DEF Numbered
<1>6. \A i \in DOMAIN inbox' : inbox'[i].kind = "cancel" => inbox'[i].of <= Announced'
  BY <1>1, <1>2 DEF Numbered, NoNews
<1>7. ASSUME NEW i \in DOMAIN outbox', outbox'[i].kind = "start"
      PROVE  /\ heard' < outbox'[i].utt /\ canceller' < outbox'[i].utt
                /\ outbox'[i].utt <= Announced'
             /\ \A k \in DOMAIN inbox' : inbox'[k].kind = "cancel" => inbox'[k].of < outbox'[i].utt
             /\ \A j \in 1 .. i - 1 : outbox'[j].kind = "start" => outbox'[j].utt < outbox'[i].utt
  <2>1. CASE i = Len(outbox) + 1
    <3>1. outbox'[i] = e /\ e.kind = "start"
      BY <1>4, <1>7, <2>1
    <3>2. \A k \in DOMAIN inbox : inbox[k].kind = "cancel" => inbox[k].of < e.utt
      BY <1>1, <1>2, <3>1 DEF Numbered
    <3>3. \A j \in DOMAIN outbox : outbox[j].kind = "start" => outbox[j].utt < e.utt
      BY <1>1, <1>3, <3>1 DEF Numbered
    <3>4. heard < e.utt /\ canceller < e.utt /\ e.utt <= Announced'
      BY <1>1, <3>1 DEF Numbered
    <3> QED
      BY <1>4, <2>1, <3>1, <3>2, <3>3, <3>4 DEF NoNews
  <2>2. CASE i # Len(outbox) + 1
    <3>1. i \in DOMAIN outbox /\ outbox'[i] = outbox[i] /\ outbox[i].kind = "start"
      BY <1>4, <1>7, <2>2
    <3>2. \A j \in 1 .. i - 1 : j \in DOMAIN outbox /\ outbox'[j] = outbox[j]
      BY <1>4, <3>1
    <3> QED
      BY <1>1, <1>3, <3>1, <3>2 DEF Numbered, NoNews
  <2> QED
    BY <2>1, <2>2
<1> QED
  BY <1>5, <1>6, <1>7 DEF Numbered

(* Every step keeps the numbering.                                          *)
LEMMA NumberedInv ==
    ASSUME Basics, Basics', Order, Numbered, Next
    PROVE  Numbered'
<1> USE DEF Basics
<1>1. CASE SessionStep /\ UNCHANGED clientVars
  <2> SUFFICES ASSUME connected PROVE Numbered'
    BY <1>1, SessionConnection DEF Numbered
  <2>1. UNCHANGED <<connected, heard, canceller>> /\ NoNews
    BY <1>1, SessionConnection, SessionMoves, TailIsOld DEF clientVars, Moves, NoNews
  <2>2. CASE UNCHANGED outbox
    BY <1>1, <2>1, <2>2, AnnouncedGrows, NumberedKept
  <2>3. CASE ~UNCHANGED outbox
    <3>1. PICK e \in Events : outbox' = Append(outbox, e)
          /\ (Fatal(e) \/ (Written /\ e = writing.event))
      BY <1>1, <2>3, SessionSpeaks
    <3>2. e.kind = "start" => Announced < e.utt /\ e.utt <= Announced'
      BY <1>1, <3>1, AnnouncedGrows
      DEF Fatal, Written, Starting, Coroutine, Sounds, Typed, UtteranceTypes
    <3> QED
      BY <1>1, <2>1, <3>1, <3>2, AnnouncedGrows, NumberedGrows
  <2> QED
    BY <2>2, <2>3
<1>2. CASE SenderChecks \/ Join \/ Synthesize
  <2>1. UNCHANGED <<inbox, outbox, connected, canceller, Announced>> /\ heard' \in {0, heard}
    BY <1>2 DEF SenderChecks, Join, Synthesize, sessionVars, uttVars, Announced, Starting
  <2>2. 0 <= Announced /\ Announced \in Int
    BY AnnouncedType DEF Announced, Starting, Coroutine, Sounds, InWait, Typed, UtteranceTypes
  <2>3. \A u \in Nat : heard < u => heard' < u
    BY <2>1 DEF Typed, ClientTypes
  <2> QED
    BY <2>1, <2>2, <2>3, Contents DEF Numbered
<1>3. CASE SenderWrites
  <2>1. UNCHANGED <<outbox, connected, heard, canceller, Announced>>
    BY <1>3 DEF SenderWrites, uttVars, Announced, Starting
  <2>2. PICK m \in Messages : inbox' = Append(inbox, m) /\ m.kind # "cancel"
    <3>1. call \in Nat /\ \A ok \in {TRUE, ~OddTexts} : ok \in BOOLEAN
      BY DEF Typed, ClientTypes
    <3> QED
      BY <1>3, <3>1, MessageTypes DEF SenderWrites, Text, Done
  <2> QED
    BY <2>1, <2>2 DEF Numbered
<1>4. CASE SendCancel
  <2>1. UNCHANGED <<outbox, connected, heard, Announced>> /\ canceller' = 0 /\ canceller \in Nat
    BY <1>4 DEF SendCancel, uttVars, Announced, Starting, Typed, ClientTypes
  <2>2. PICK m \in Messages : inbox' = Append(inbox, m) /\ m.of = canceller
    BY <1>4, <2>1, MessageTypes DEF SendCancel, Cancel
  <2>3. 0 <= Announced /\ Announced \in Int
    BY AnnouncedType DEF Announced, Starting, Coroutine, Sounds, InWait, Typed, UtteranceTypes
  <2>4. \A u \in Nat : canceller < u => canceller' < u
    BY <2>1
  <2> QED
    BY <2>1, <2>2, <2>3, <2>4, Contents DEF Numbered
<1>5. CASE RequestCancel
  <2>1. UNCHANGED <<inbox, outbox, connected, heard, Announced>> /\ canceller' = heard
    BY <1>5 DEF RequestCancel, sessionVars, uttVars, Announced, Starting
  <2> QED
    BY <2>1 DEF Numbered
<1>6. CASE CloseClient \/ GiveUp
  BY <1>6 DEF CloseClient, GiveUp, Disconnect, Numbered
<1>7. CASE Connect
  <2>1. CASE Admit
    <3>1. inbox' = << >> /\ outbox' = << >> /\ heard' = 0 /\ canceller' = 0
      BY <1>7, <2>1 DEF Connect, Admit, Calls
    <3>2. Announced' = utterance /\ utterance \in Nat
      BY <2>1 DEF Admit, Say, uttVars, Announced, Starting, Event, Typed, UtteranceTypes
    <3> QED
      BY <3>1, <3>2 DEF Numbered
  <2>2. CASE AcceptFails \/ UNCHANGED sessionVars
    BY <1>7, <2>2 DEF Connect, AcceptFails, sessionVars, Calls, Numbered
  <2> QED
    BY <1>7, <2>1, <2>2 DEF Connect
<1>8. CASE Receive
  <2> DEFINE e == outbox[1]
  <2>1. Head(outbox) = e /\ connected /\ main \in {"opening", "recv"} /\ outbox # << >>
    BY <1>8 DEF Receive, Calls
  <2>2. CASE Meaning(e) = "bad"
    BY <1>8, <2>1, <2>2 DEF Receive, Disconnect, Numbered
  <2>3. CASE Meaning(e) # "bad"
    <3>1. /\ outbox' = Tail(outbox) /\ UNCHANGED <<inbox, connected, canceller, Announced>>
          /\ heard' = IF Meaning(e) = "start" THEN e.utt ELSE heard
      BY <1>8, <2>1, <2>3 DEF Receive, uttVars, Announced, Starting
    <3>2. Meaning(e) = "start" => e.kind = "start" /\ 1 \in DOMAIN outbox
      BY <2>1, Boxes DEF Meaning
    <3>3. heard' <= Announced
      BY <3>1, <3>2, <2>1 DEF Numbered
    <3>4. /\ DOMAIN outbox' = 1 .. Len(outbox) - 1 /\ DOMAIN outbox = 1 .. Len(outbox)
             /\ Len(outbox) \in Nat
          /\ \A i \in DOMAIN outbox' : i + 1 \in DOMAIN outbox /\ outbox'[i] = outbox[i + 1]
      BY <2>1, <3>1
    <3>5. ASSUME NEW i \in DOMAIN outbox', outbox'[i].kind = "start"
          PROVE  /\ heard' < outbox'[i].utt /\ canceller' < outbox'[i].utt
                    /\ outbox'[i].utt <= Announced'
                 /\ \A k \in DOMAIN inbox' : inbox'[k].kind = "cancel"
                    => inbox'[k].of < outbox'[i].utt
                 /\ \A j \in 1 .. i - 1 : outbox'[j].kind = "start"
                    => outbox'[j].utt < outbox'[i].utt
      <4>1. i + 1 \in DOMAIN outbox /\ outbox'[i] = outbox[i + 1] /\ i \in Nat \ {0}
        BY <3>4
      <4>2. /\ heard < outbox[i + 1].utt /\ canceller < outbox[i + 1].utt
               /\ outbox[i + 1].utt <= Announced
            /\ \A k \in DOMAIN inbox : inbox[k].kind = "cancel" => inbox[k].of < outbox[i + 1].utt
            /\ \A j \in 1 .. i : outbox[j].kind = "start" => outbox[j].utt < outbox[i + 1].utt
        BY <2>1, <3>5, <4>1 DEF Numbered
      <4>3. heard' < outbox[i + 1].utt
        BY <3>1, <3>2, <4>1, <4>2
      <4>4. \A j \in 1 .. i - 1 : outbox'[j] = outbox[j + 1] /\ j + 1 \in 1 .. i
        BY <3>4, <4>1
      <4> QED
        BY <3>1, <4>1, <4>2, <4>3, <4>4
    <3> QED
      BY <2>1, <3>1, <3>3, <3>5 DEF Numbered
  <2> QED
    BY <2>2, <2>3
<1> QED
  BY <1>1, <1>2, <1>3, <1>4, <1>5, <1>6, <1>7, <1>8 DEF Next, ReaderStep

-----------------------------------------------------------------------------
(* The cancellations.                                                       *)

(* What is said of the events stays true when one is added ...              *)
LEMMA EventAdded ==
    ASSUME Basics, NEW e \in Events, outbox' = Append(outbox, e),
           UNCHANGED <<main, heard, cancelling>>
    PROVE  /\ DOMAIN outbox' = DOMAIN outbox \cup {Len(outbox) + 1} /\ outbox'[Len(outbox) + 1] = e
           /\ \A i \in DOMAIN outbox : outbox'[i] = outbox[i]
           /\ \A i \in DOMAIN outbox : DoomedBy(i)' <=> DoomedBy(i)
           /\ \A i : i = Len(outbox) + 1 => (DoomedBy(i)' <=> Doomed)
           /\ Doomed' <=> Doomed \/ Fatal(e)
           /\ \A u : \A i \in DOMAIN outbox \cup {Len(outbox) + 1} : Awaited(u, i)'
              <=> Awaited(u, i)
           /\ utterance' = utterance /\ Confirmed /\ e.kind = "audio" => Confirmed'
<1>1. /\ DOMAIN outbox' = 1 .. Len(outbox) + 1 /\ DOMAIN outbox = 1 .. Len(outbox)
         /\ Len(outbox) \in Nat
      /\ outbox'[Len(outbox) + 1] = e /\ \A i \in DOMAIN outbox : outbox'[i] = outbox[i]
      /\ Len(outbox') = Len(outbox) + 1
  OBVIOUS
<1>2. \A i \in 1 .. Len(outbox) + 1 : DoomedBy(i)' <=> DoomedBy(i)
  BY <1>1 DEF DoomedBy
<1>3. DoomedBy(Len(outbox) + 1) <=> Doomed
  BY <1>1 DEF DoomedBy, Doomed
<1>4. Doomed' <=> Doomed \/ Fatal(e)
  BY <1>1 DEF Doomed, Fatal
<1>5. \A u : \A i \in 1 .. Len(outbox) + 1 : Awaited(u, i)' <=> Awaited(u, i)
  BY <1>1 DEF Awaited
<1>6. utterance' = utterance /\ Confirmed /\ e.kind = "audio" => Confirmed'
  BY <1>1, <1>4 DEF Awaited, Confirmed
<1> QED
  BY <1>1, <1>2, <1>3, <1>4, <1>5, <1>6

(* ... and when the first one is read.                                      *)
LEMMA EventRead ==
    ASSUME Basics, outbox # << >>, outbox' = Tail(outbox), ~Fatal(outbox[1])
    PROVE  /\ DOMAIN outbox' = 1 .. Len(outbox) - 1 /\ DOMAIN outbox = 1 .. Len(outbox)
           /\ Len(outbox) \in Nat \ {0} /\ Len(outbox') = Len(outbox) - 1
           /\ \A i \in DOMAIN outbox' : i + 1 \in DOMAIN outbox /\ outbox'[i] = outbox[i + 1]
           /\ \A i \in 1 .. Len(outbox) : DoomedBy(i)' <=> DoomedBy(i + 1)
           /\ Doomed' <=> Doomed
           /\ outbox[1].kind = "audio" /\ UNCHANGED <<main, heard, cancelling>> =>
                 /\ \A u : \A i \in 1 .. Len(outbox) : Awaited(u, i + 1) => Awaited(u, i)'
                 /\ utterance' = utterance /\ Confirmed => Confirmed'
<1>1. /\ DOMAIN outbox' = 1 .. Len(outbox) - 1 /\ DOMAIN outbox = 1 .. Len(outbox)
      /\ Len(outbox) \in Nat \ {0} /\ Len(outbox') = Len(outbox) - 1
      /\ \A i \in 1 .. Len(outbox) - 1 : outbox'[i] = outbox[i + 1]
  OBVIOUS
<1>2. ASSUME NEW i \in 1 .. Len(outbox) PROVE DoomedBy(i)' <=> DoomedBy(i + 1)
  <2>1. ASSUME NEW j \in 1 .. i - 1, Fatal(outbox'[j]) PROVE DoomedBy(i + 1)
    <3>1. j + 1 \in 1 .. (i + 1) - 1 /\ outbox[j + 1] = outbox'[j]
      BY <1>1
    <3> QED
      BY <2>1, <3>1 DEF DoomedBy
  <2>2. ASSUME NEW j \in 1 .. (i + 1) - 1, Fatal(outbox[j]) PROVE DoomedBy(i)'
    <3>1. j # 1
      BY <2>2
    <3>2. j - 1 \in 1 .. i - 1 /\ outbox[j] = outbox'[j - 1]
      BY <1>1, <3>1
    <3> QED
      BY <2>2, <3>2 DEF DoomedBy
  <2> QED
    BY <2>1, <2>2 DEF DoomedBy
<1>3. Doomed' <=> Doomed
  <2> DEFINE n == Len(outbox)
  <2>1. n \in 1 .. Len(outbox)
    BY <1>1
  <2>2. Doomed <=> DoomedBy(n + 1)
    BY <1>1 DEF Doomed, DoomedBy
  <2>3. ASSUME NEW i \in 1 .. Len(outbox), i = n PROVE Doomed' <=> DoomedBy(i)'
    BY <1>1, <2>3 DEF Doomed, DoomedBy
  <2> QED
    BY <1>2, <2>1, <2>2, <2>3
<1>4. ASSUME outbox[1].kind = "audio", UNCHANGED <<main, heard, cancelling>>,
             NEW i \in 1 .. Len(outbox), NEW u, Awaited(u, i + 1)
      PROVE  Awaited(u, i)'
  <2>1. \A j \in 1 .. i - 1 : outbox'[j] = outbox[j + 1] /\ j + 1 \in 1 .. (i + 1) - 1
    BY <1>1
  <2> QED
    BY <1>4, <2>1 DEF Awaited
<1>5. ASSUME outbox[1].kind = "audio", UNCHANGED <<main, heard, cancelling, utterance>>, Confirmed
      PROVE  Confirmed'
  BY <1>1, <1>3, <1>5 DEF Awaited, Confirmed
<1> QED
  BY <1>1, <1>2, <1>3, <1>4, <1>5

(* If the client hears the utterance that the coroutine is in, nothing but  *)
(* PCM is on the way, or the failure of the session.                        *)
LEMMA OnlyPcm ==
    ASSUME Basics, Order, Numbered, connected, heard # 0, heard = utterance, InWait
    PROVE  \/ Doomed \/ (phase = "write" /\ Fatal(writing.event))
           \/ main = "recv" /\ \A j \in DOMAIN outbox : outbox[j].kind = "audio"
<1> SUFFICES ASSUME ~Doomed, ~(phase = "write" /\ Fatal(writing.event))
             PROVE  main = "recv" /\ \A j \in DOMAIN outbox : outbox[j].kind = "audio"
  OBVIOUS
<1>1. DOMAIN outbox = 1 .. Len(outbox) /\ Len(outbox) \in Nat /\ (outbox # << >> => Len(outbox) > 0)
  OBVIOUS
<1>2. ~Fatal(Last) /\ \A i \in DOMAIN outbox : ~Fatal(outbox[i])
  BY <1>1 DEF Doomed, Last, Seen, Fatal, Event
<1>3. \A i \in DOMAIN outbox : outbox[i].kind # "start"
  BY AnnouncedType, Contents DEF Basics, Numbered, Typed, UtteranceTypes
<1>4. \A i \in DOMAIN outbox : outbox[i].kind # "none"
  BY Contents DEF Basics, Events
<1>5. Sounds(Last)
  <2>1. CASE phase # "write"
    BY <1>2, <2>1 DEF Order, Tuned, Ready, InWait, Sounds
  <2>2. CASE phase = "write"
    <3>1. Follows(Last, writing.event) /\ Ready("wait", writing.event) /\ ~Fatal(writing.event)
      BY <2>2 DEF Order, Tuned, InWait
    <3>2. writing.event.kind # "start"
      <4>1. CASE Starting
        BY <4>1 DEF Numbered, Announced, Basics, Typed, UtteranceTypes
      <4> QED
        BY <2>2, <4>1 DEF Starting
    <3> QED
      BY <1>2, <3>1, <3>2 DEF Ready, Follows, Sounds
  <2> QED
    BY <2>1, <2>2
<1>6. main \in {"recv", "join"}
  BY DEF Basics, Calls
<1>7. main = "recv"
  <2> SUFFICES ASSUME main = "join" PROVE FALSE
    BY <1>6
  <2>1. Seen.kind = "created"
    BY DEF Seen, Event
  <2>2. outbox # << >>
    BY <1>5, <2>1 DEF Last, Sounds
  <2>3. Follows(Seen, outbox[1]) /\ 1 \in DOMAIN outbox
    BY <1>1, <2>2 DEF Order, Chain
  <2> QED
    BY <1>2, <1>3, <2>1, <2>3 DEF Follows, Fatal, Sounds
<1>8. ASSUME NEW j \in DOMAIN outbox PROVE outbox[j].kind = "audio"
  <2>1. outbox[j].kind \in {"audio", "done", "cancelled"}
    <3>1. CASE j = 1
      <4>1. Follows(Seen, outbox[1]) /\ Seen.kind = "start"
        BY <1>1, <1>7, <3>1 DEF Order, Chain, Seen, Event
      <4> QED
        BY <1>2, <3>1, <4>1 DEF Follows, Fatal
    <3>2. CASE j # 1
      <4>1. Follows(outbox[j - 1], outbox[(j - 1) + 1]) /\ j - 1 \in DOMAIN outbox
            /\ (j - 1) + 1 = j
        BY <1>1, <3>2 DEF Order, Chain
      <4> QED
        BY <1>2, <1>3, <1>4, <4>1 DEF Follows
    <3> QED
      BY <3>1, <3>2
  <2>2. CASE j = Len(outbox)
    <3>1. Last = outbox[j]
      BY <1>1, <2>2 DEF Last
    <3> QED
      BY <1>5, <2>1, <3>1 DEF Sounds
  <2>3. CASE j # Len(outbox)
    <3>1. Follows(outbox[j], outbox[j + 1]) /\ j + 1 \in DOMAIN outbox
      BY <1>1, <2>3 DEF Order, Chain
    <3> QED
      BY <1>2, <1>3, <2>1, <3>1 DEF Follows, Sounds
  <2> QED
    BY <2>2, <2>3
<1> QED
  BY <1>7, <1>8

(* The coroutine acts on a message or on the vendor.                        *)
LEMMA AskedKept ==
    ASSUME Basics, Asked, connected, NoNews,
           UNCHANGED <<outbox, connected, main, heard, cancelling, canceller>>,
           Leaving' => utterance' = utterance /\ Confirmed,
           InWait' /\ Pending(utterance)' =>
              utterance' = utterance /\ (Confirmed \/ (phase' = "write" /\ Fatal(writing.event)'))
    PROVE  Asked'
<1>1. \A u : Pending(u)' => Pending(u)
  BY DEF Pending, NoNews
<1>2. Doomed' <=> Doomed
  BY DEF Doomed
<1>3. \A u, i : (Awaited(u, i)' <=> Awaited(u, i)) /\ (DoomedBy(i)' <=> DoomedBy(i))
  BY DEF Awaited, DoomedBy
<1>4. utterance' = utterance => (Confirmed' <=> Confirmed)
  BY <1>2 DEF Confirmed, Awaited
<1>5. heard' # 0 /\ Pending(heard)' => cancelling'
  BY <1>1 DEF Asked
<1> QED
  BY <1>3, <1>4, <1>5 DEF Asked

(* The coroutine writes an event.                                           *)
LEMMA AskedWrites ==
    ASSUME Basics, Asked, connected, NEW e \in Events, outbox' = Append(outbox, e), NoNews,
           UNCHANGED <<connected, main, heard, cancelling, canceller>>,
           e.kind = "cancelled" => e.utt = utterance /\ Confirmed,
           ~Leaving', InWait' /\ Pending(utterance)' => Confirmed'
    PROVE  Asked'
<1>1. \A u : Pending(u)' => Pending(u)
  BY DEF Pending, NoNews
<1>2. heard' # 0 /\ Pending(heard)' => cancelling'
  BY <1>1 DEF Asked
<1>3. ASSUME NEW i \in DOMAIN outbox', outbox'[i].kind = "cancelled"
      PROVE  DoomedBy(i)' \/ Awaited(outbox[i].utt, i)'
  <2>1. CASE i \in DOMAIN outbox
    BY <1>3, <2>1, EventAdded DEF Asked
  <2>2. CASE i = Len(outbox) + 1
    BY <1>3, <2>2, EventAdded DEF Confirmed
  <2> QED
    BY <2>1, <2>2
<1> QED
  BY <1>2, <1>3 DEF Asked

(* Every step keeps that a cancellation acted on was asked for.             *)
LEMMA AskedInv ==
    ASSUME Basics, Basics', Order, Numbered, Numbered', Asked, Next
    PROVE  Asked'
<1> USE DEF Basics
<1>1. CASE Written /\ UNCHANGED clientVars
  <2> SUFFICES ASSUME connected PROVE Asked'
    BY <1>1 DEF Written, Asked
  <2>1. PICK e \in Events : e = writing.event
    BY DEF Typed, PhaseTypes, Writings
  <2>2. /\ outbox' = Append(outbox, e) /\ NoNews /\ phase' = writing.next
        /\ UNCHANGED <<inbox, connected, main, heard, cancelling, canceller, utterance>>
    BY <1>1, <2>1 DEF Written, clientVars, NoNews
  <2>3. e.kind = "cancelled" => e.utt = utterance /\ Confirmed
    BY <1>1, <2>1 DEF Written, Leaving, Asked, Coroutine, Ends
  <2>4. ~Leaving'
    BY <1>1 DEF Written, Leaving, Coroutine, Nothing
  <2>5. InWait' /\ Pending(utterance)' => Confirmed'
    <3> SUFFICES ASSUME InWait', Pending(utterance)' PROVE Confirmed'
      OBVIOUS
    <3>1. InWait /\ Pending(utterance) /\ phase = "write" /\ writing.next = "wait"
      BY <1>1, <2>2 DEF Written, InWait, Pending, Typed, PhaseTypes, Writings
    <3>2. Confirmed \/ Fatal(e)
      BY <2>1, <3>1 DEF Asked
    <3>3. e.kind # "start"
      <4> SUFFICES ASSUME Starting PROVE FALSE
        BY <2>1, <3>1 DEF Starting
      <4> QED
        BY <3>1, Contents DEF Numbered, Pending, Announced, Typed, UtteranceTypes
    <3>4. e.kind = "audio" \/ Fatal(e)
      BY <2>1, <3>1, <3>3 DEF Coroutine, Ends, Fatal, Events
    <3> QED
      BY <2>2, <3>2, <3>4, EventAdded DEF Confirmed
  <2> QED
    BY <2>2, <2>3, <2>4, <2>5, AskedWrites
<1>2. CASE IdleStart /\ UNCHANGED clientVars
  <2> SUFFICES ASSUME connected PROVE Asked'
    BY <1>2 DEF IdleStart, Asked
  <2>1. /\ UNCHANGED <<outbox, connected, main, heard, cancelling, canceller>>
           /\ utterance' = utterance + 1
        /\ phase' = "write" /\ writing'.event.kind = "start"
    BY <1>2 DEF IdleStart, Say, Event, clientVars
  <2>2. NoNews
    BY <1>2, TailIsOld DEF IdleStart
  <2>3. ~Leaving'
    BY <2>1 DEF Leaving
  <2>4. ~Pending(utterance)'
    <3>1. Announced' = utterance /\ utterance \in Nat
      BY <2>1 DEF Announced, Starting, Typed, UtteranceTypes
    <3> QED
      BY <2>1, <3>1, Contents DEF Numbered, Pending
  <2> QED
    BY <2>1, <2>2, <2>3, <2>4, AskedKept
<1>3. CASE SessionStep /\ ~Written /\ ~IdleStart /\ UNCHANGED clientVars
  <2> SUFFICES ASSUME connected PROVE Asked'
    BY <1>3, SessionConnection DEF Asked
  <2>1. UNCHANGED <<connected, main, heard, cancelling, canceller>> /\ NoNews
    BY <1>3, SessionConnection, SessionMoves, TailIsOld DEF clientVars, Moves, NoNews
  <2>2. Leaving' => utterance' = utterance /\ Confirmed
    BY <1>3, SessionLeaves, Boxes DEF Asked, Took, Pending, InWait
  <2>3. ASSUME InWait', Pending(utterance)'
        PROVE  utterance' = utterance /\ (Confirmed \/ (phase' = "write" /\ Fatal(writing.event)'))
    <3>1. InWait
      BY <1>3, <2>3, SessionStarts
    <3>2. utterance' = utterance
      BY <1>3, StaysInUtterance
    <3>3. Pending(utterance)
      BY <2>1, <2>3, <3>2 DEF Pending, NoNews
    <3>4. phase = "write" => UNCHANGED <<phase, writing>>
      BY <1>3, <2>3, WriteOrFail
    <3> QED
      BY <3>1, <3>2, <3>3, <3>4 DEF Asked
  <2>4. CASE UNCHANGED outbox
    BY <2>1, <2>2, <2>3, <2>4, AskedKept
  <2>5. CASE ~UNCHANGED outbox
    <3>1. PICK e \in Events : outbox' = Append(outbox, e) /\ Fatal(e) /\ Hangs
      BY <1>3, <2>5, SessionSpeaks
    <3>2. ~Leaving' /\ ~InWait'
      BY <3>1 DEF Hangs, Leaving, InWait
    <3> QED
      BY <2>1, <3>1, <3>2, AskedWrites DEF Fatal
  <2> QED
    BY <2>4, <2>5
<1>4. CASE SenderChecks \/ SenderWrites \/ SendCancel
  <2>1. UNCHANGED <<outbox, connected, main, heard, cancelling, phase, writing, utterance, outcome>>
    BY <1>4 DEF SenderChecks, SenderWrites, SendCancel, sessionVars, uttVars
  <2>2. \A u : u # 0 /\ Pending(u)' => Pending(u)
    <3>1. CASE SenderChecks
      BY <3>1 DEF SenderChecks, sessionVars, Pending
    <3>2. CASE SenderWrites
      <4>1. PICK m \in Messages : inbox' = Append(inbox, m) /\ m.kind # "cancel"
        <5>1. call \in Nat /\ \A ok \in {TRUE, ~OddTexts} : ok \in BOOLEAN
          BY DEF Typed, ClientTypes
        <5> QED
          BY <3>2, <5>1, MessageTypes DEF SenderWrites, Text, Done
      <4> QED
        BY <3>2, <4>1 DEF Pending, SenderWrites
    <3>3. CASE SendCancel
      <4>1. PICK m \in Messages : inbox' = Append(inbox, m) /\ m.of = canceller
        BY <3>3, MessageTypes DEF SendCancel, Cancel, Typed, ClientTypes
      <4> QED
        BY <3>3, <4>1 DEF Pending, SendCancel
    <3> QED
      BY <1>4, <3>1, <3>2, <3>3
  <2>3. Confirmed' <=> Confirmed
    BY <2>1 DEF Confirmed, Doomed, Awaited
  <2>4. \A u, i : (Awaited(u, i)' <=> Awaited(u, i)) /\ (DoomedBy(i)' <=> DoomedBy(i))
    BY <2>1 DEF Awaited, DoomedBy
  <2>5. (Leaving' <=> Leaving) /\ (InWait' => InWait /\ utterance # 0)
    BY <2>1 DEF Leaving, InWait, Coroutine
  <2> QED
    BY <2>1, <2>2, <2>3, <2>4, <2>5 DEF Asked
<1>5. CASE Join \/ Synthesize
  <2>1. /\ UNCHANGED <<inbox, outbox, connected, canceller, phase, writing, utterance, outcome>>
        /\ main \in {"join", "idle"} /\ heard' = 0
    BY <1>5 DEF Join, Synthesize, sessionVars, uttVars
  <2>2. (\A u, i : ~Awaited(u, i)) /\ (\A i : DoomedBy(i)' <=> DoomedBy(i)) /\ (Doomed' <=> Doomed)
    BY <2>1 DEF Awaited, DoomedBy, Doomed
  <2>3. (Leaving' <=> Leaving) /\ (InWait' <=> InWait) /\ \A u : Pending(u)' <=> Pending(u)
    BY <2>1 DEF Leaving, InWait, Pending
  <2> QED
    BY <2>1, <2>2, <2>3 DEF Asked, Confirmed
<1>6. CASE RequestCancel
  <2> SUFFICES ASSUME connected PROVE Asked'
    BY <1>6 DEF RequestCancel, sessionVars, Asked
  <2>1. /\ UNCHANGED <<inbox, outbox, connected, main, heard, phase, writing, utterance, outcome>>
        /\ cancelling' /\ canceller' = heard /\ canceller = 0 /\ heard # 0
    BY <1>6 DEF RequestCancel, sessionVars, uttVars
  <2>2. /\ \A i : DoomedBy(i)' <=> DoomedBy(i)
        /\ Doomed' <=> Doomed
        /\ \A u, i : Awaited(u, i) => Awaited(u, i)'
    BY <2>1 DEF DoomedBy, Doomed, Awaited
  <2>3. Confirmed => Confirmed'
    BY <2>1, <2>2 DEF Confirmed
  <2>4. (Leaving' <=> Leaving) /\ (InWait' <=> InWait)
    BY <2>1 DEF Leaving, InWait
  <2>5. ASSUME InWait, Pending(utterance)' PROVE Confirmed'
               \/ (phase = "write" /\ Fatal(writing.event))
    <3>1. CASE Pending(utterance)
      BY <2>3, <2>5, <3>1 DEF Asked
    <3>2. CASE heard = utterance
      <4>1. main = "recv" /\ (\A j \in DOMAIN outbox : outbox[j].kind = "audio") => Confirmed'
        BY <2>1, <3>2 DEF Confirmed, Awaited
      <4> QED
        BY <2>1, <2>2, <2>5, <3>2, <4>1, OnlyPcm DEF Confirmed
    <3> QED
      BY <2>1, <2>5, <3>1, <3>2 DEF Pending
  <2> QED
    BY <2>1, <2>2, <2>3, <2>4, <2>5 DEF Asked
<1>7. CASE CloseClient \/ GiveUp
  BY <1>7 DEF CloseClient, GiveUp, Disconnect, Asked
<1>8. CASE Connect
  <2>1. CASE Admit
    BY <1>8, <2>1 DEF Connect, Admit, Say, Event, Calls, Asked, Leaving, InWait
  <2>2. CASE AcceptFails \/ UNCHANGED sessionVars
    BY <1>8, <2>2 DEF Connect, AcceptFails, sessionVars, Calls, Asked
  <2> QED
    BY <1>8, <2>1, <2>2 DEF Connect
<1>9. CASE Receive
  <2> DEFINE e == outbox[1]
  <2>1. Head(outbox) = e /\ connected /\ main \in {"opening", "recv"} /\ outbox # << >>
        /\ 1 \in DOMAIN outbox
    BY <1>9 DEF Receive, Calls
  <2>2. CASE Meaning(e) = "bad"
    BY <1>9, <2>1, <2>2 DEF Receive, Disconnect, Asked
  <2>3. CASE Meaning(e) # "bad"
    <3>1. /\ outbox' = Tail(outbox)
          /\ UNCHANGED <<inbox, connected, canceller, cancelling, phase, writing, utterance,
                         outcome>>
          /\ heard' = IF Meaning(e) = "start" THEN e.utt ELSE heard
      BY <1>9, <2>1, <2>3 DEF Receive, uttVars
    <3>2. ~Fatal(e) /\ (e.kind = "audio" => UNCHANGED <<main, heard>>)
      BY <1>9, <2>1, <2>3, <3>1 DEF Receive, Meaning, Fatal
    <3>3. \A u, i : Awaited(u, i + 1) /\ i \in Nat \ {0} => e.kind = "audio"
      BY DEF Awaited
    <3>4. heard' # 0 /\ Pending(heard)' => cancelling'
      <4>1. CASE Meaning(e) = "start"
        <5>1. heard' = e.utt /\ e.kind = "start"
          BY <2>1, <3>1, <4>1 DEF Meaning
        <5>2. canceller < e.utt /\ \A k \in DOMAIN inbox : inbox[k].kind = "cancel"
              => inbox[k].of < e.utt
          BY <2>1, <5>1 DEF Numbered
        <5> QED
          BY <3>1, <5>1, <5>2, Contents DEF Pending, Typed, ClientTypes
      <4>2. CASE Meaning(e) # "start"
        BY <2>1, <3>1, <4>2 DEF Asked, Pending
      <4> QED
        BY <4>1, <4>2
    <3>5. ASSUME NEW i \in DOMAIN outbox', outbox'[i].kind = "cancelled"
          PROVE  DoomedBy(i)' \/ Awaited(outbox[i].utt, i)'
      <4>1. i \in 1 .. Len(outbox) /\ i + 1 \in DOMAIN outbox /\ outbox'[i] = outbox[i + 1]
            /\ i \in Nat \ {0}
        BY <2>1, <3>1, <3>2
      <4>2. DoomedBy(i + 1) \/ Awaited(outbox[i + 1].utt, i + 1)
        BY <2>1, <3>5, <4>1 DEF Asked
      <4> QED
        BY <2>1, <3>1, <3>2, <3>3, <4>1, <4>2, EventRead
    <3>6. Confirmed => Confirmed'
      <4>1. CASE Doomed
        BY <2>1, <3>1, <3>2, <4>1, EventRead DEF Confirmed
      <4>2. CASE Awaited(utterance, Len(outbox) + 1)
        <5>1. e.kind = "audio"
          BY <2>1, <4>2 DEF Awaited
        <5> QED
          BY <2>1, <3>1, <3>2, <5>1, EventRead
      <4> QED
        BY <4>1, <4>2 DEF Confirmed
    <3>7. (Leaving' <=> Leaving) /\ (InWait' <=> InWait) /\ \A u : Pending(u)' <=> Pending(u)
      BY <3>1 DEF Leaving, InWait, Pending
    <3> QED
      BY <2>1, <3>1, <3>4, <3>5, <3>6, <3>7 DEF Asked
  <2> QED
    BY <2>2, <2>3
<1> QED
  BY <1>1, <1>2, <1>3, <1>4, <1>5, <1>6, <1>7, <1>8, <1>9 DEF Next, ReaderStep

(* Every step keeps that a cancellation acted on is of an utterance         *)
(* announced, and asked for when it is the one heard.                       *)
LEMMA HeededInv ==
    ASSUME Basics, Basics', Numbered, Numbered', Asked, Heeded, Next
    PROVE  Heeded'
<1> USE DEF Basics
<1>1. CASE SessionStep /\ UNCHANGED clientVars
  <2> SUFFICES ASSUME connected, NEW u, Acted(u)'
               PROVE  /\ u <= Announced'
                      /\ u = heard' /\ u # 0 => cancelling'
                      /\ \A i \in DOMAIN outbox' : outbox'[i].kind = "start" => u # outbox'[i].utt
    <3>1. connected' = connected
      BY <1>1, SessionConnection
    <3> QED
      BY <3>1 DEF Heeded
  <2>1. Acted(u) \/ Took(u)
    BY <1>1, SessionActs
  <2>2. UNCHANGED <<heard, cancelling>> /\ heard \in Nat
    BY <1>1 DEF clientVars, Typed, ClientTypes
  <2>3. /\ u <= Announced /\ u \in Int
        /\ u = heard /\ u # 0 => cancelling
        /\ \A i \in DOMAIN outbox : outbox[i].kind = "start" => u # outbox[i].utt
    <3>1. CASE Acted(u)
      BY <3>1, Contents DEF Heeded, Acted, Typed, UtteranceTypes
    <3>2. CASE Took(u)
      <4>1. 1 \in DOMAIN inbox /\ inbox[1].kind = "cancel" /\ inbox[1].of = u /\ u \in Nat
        BY <3>2, Contents DEF Took
      <4>2. u <= Announced /\ (u = heard /\ u # 0 => cancelling)
        BY <4>1 DEF Numbered, Asked, Pending
      <4>3. \A i \in DOMAIN outbox : outbox[i].kind = "start" => u < outbox[i].utt
        BY <4>1 DEF Numbered
      <4> QED
        BY <4>1, <4>2, <4>3
    <3> QED
      BY <2>1, <3>1, <3>2
  <2>4. Announced <= Announced' /\ (Starting /\ Written => Announced < utterance)
    BY <1>1, AnnouncedGrows
  <2>5. Announced \in Int /\ Announced' \in Int
    BY DEF Announced, Typed, UtteranceTypes
  <2>6. ASSUME NEW i \in DOMAIN outbox', outbox'[i].kind = "start" PROVE u # outbox'[i].utt
    <3>1. CASE i \in DOMAIN outbox /\ outbox'[i] = outbox[i]
      BY <2>3, <2>6, <3>1
    <3>2. CASE Written /\ outbox'[i] = writing.event
      <4>1. Starting /\ writing.event.utt = utterance
        BY <2>6, <3>2 DEF Written, Starting, Coroutine, Sounds
      <4> QED
        BY <2>3, <2>4, <2>5, <3>2, <4>1
    <3> QED
      BY <1>1, <2>6, <3>1, <3>2, SessionSpeaks DEF Fatal
  <2> QED
    BY <2>2, <2>3, <2>4, <2>5, <2>6
<1>2. CASE Join \/ Synthesize \/ SenderChecks \/ SenderWrites \/ SendCancel \/ RequestCancel
  <2>1. UNCHANGED <<outbox, connected, phase, writing, utterance, outcome>>
    BY <1>2
    DEF Join, Synthesize, SenderChecks, SenderWrites, SendCancel, RequestCancel, sessionVars,
       uttVars
  <2>2. heard' = 0 \/ (heard' = heard /\ (cancelling => cancelling'))
    BY <1>2 DEF Join, Synthesize, SenderChecks, SenderWrites, SendCancel, RequestCancel
  <2>3. (\A u : Acted(u)' <=> Acted(u)) /\ Announced' = Announced
    BY <2>1 DEF Acted, Leaving, Announced, Starting
  <2> QED
    BY <2>1, <2>2, <2>3 DEF Heeded
<1>3. CASE CloseClient \/ GiveUp
  BY <1>3 DEF CloseClient, GiveUp, Disconnect, Heeded
<1>4. CASE Connect
  <2>1. CASE Admit
    BY <1>4, <2>1 DEF Connect, Admit, Say, Event, Heeded, Acted, Leaving
  <2>2. CASE AcceptFails \/ UNCHANGED sessionVars
    BY <1>4, <2>2 DEF Connect, AcceptFails, sessionVars, Calls, Heeded
  <2> QED
    BY <1>4, <2>1, <2>2 DEF Connect
<1>5. CASE Receive
  <2> DEFINE e == outbox[1]
  <2>1. Head(outbox) = e /\ connected /\ main \in {"opening", "recv"} /\ outbox # << >>
        /\ 1 \in DOMAIN outbox
    BY <1>5 DEF Receive, Calls
  <2>2. CASE Meaning(e) = "bad"
    BY <1>5, <2>1, <2>2 DEF Receive, Disconnect, Heeded
  <2>3. CASE Meaning(e) # "bad"
    <3>1. /\ outbox' = Tail(outbox)
             /\ UNCHANGED <<connected, cancelling, phase, writing, utterance, outcome>>
          /\ heard' = IF Meaning(e) = "start" THEN e.utt ELSE heard
      BY <1>5, <2>1, <2>3 DEF Receive, uttVars
    <3>2. \A i \in DOMAIN outbox' : i + 1 \in DOMAIN outbox /\ outbox'[i] = outbox[i + 1]
      BY <2>1, <3>1
    <3>3. Announced' = Announced /\ \A u : Acted(u)' => Acted(u)
      BY <3>1, <3>2 DEF Acted, Leaving, Announced, Starting
    <3>4. \A u : Acted(u) /\ u = heard' /\ u # 0 => cancelling
      <4>1. CASE Meaning(e) = "start"
        BY <2>1, <3>1, <4>1 DEF Heeded, Meaning
      <4>2. CASE Meaning(e) # "start"
        BY <2>1, <3>1, <4>2 DEF Heeded
      <4> QED
        BY <4>1, <4>2
    <3> QED
      BY <2>1, <3>1, <3>2, <3>3, <3>4 DEF Heeded
  <2> QED
    BY <2>2, <2>3
<1> QED
  BY <1>1, <1>2, <1>3, <1>4, <1>5 DEF Next, ReaderStep

-----------------------------------------------------------------------------
(* What the sender may still write.                                         *)

(* What a message read leaves of those that may come from the sender.       *)
LEMMA InboxRead ==
    ASSUME Basics, inbox # << >>, inbox' = Tail(inbox)
    PROVE  /\ \A k \in DOMAIN inbox' : k + 1 \in DOMAIN inbox /\ inbox'[k] = inbox[k + 1]
           /\ 1 \in DOMAIN inbox
           /\ \A k \in Nat : /\ SilentAfter(k) \/ SilentAfter(k + 1) => SilentAfter(k)'
                             /\ OneAfter(k) \/ OneAfter(k + 1) => OneAfter(k)'
           /\ SilentAfter(0) => inbox[1].kind = "cancel"
           /\ OneAfter(0) /\ inbox[1].kind # "cancel" => SilentAfter(0)'
<1>1. /\ \A k \in DOMAIN inbox' : k + 1 \in DOMAIN inbox /\ inbox'[k] = inbox[k + 1]
         /\ k \in Nat \ {0}
      /\ 1 \in DOMAIN inbox
  OBVIOUS
<1>2. ASSUME NEW k \in Nat, SilentAfter(k) \/ SilentAfter(k + 1) PROVE SilentAfter(k)'
  <2>1. ASSUME NEW i \in DOMAIN inbox', i > k PROVE inbox'[i].kind = "cancel"
    BY <1>1, <1>2, <2>1 DEF SilentAfter
  <2> QED
    BY <2>1 DEF SilentAfter
<1>3. ASSUME NEW k \in Nat, OneAfter(k) \/ OneAfter(k + 1) PROVE OneAfter(k)'
  <2>1. ASSUME NEW i \in DOMAIN inbox', NEW j \in DOMAIN inbox', i > k, j > k,
               inbox'[i].kind # "cancel", inbox'[j].kind # "cancel"
        PROVE  i = j
    <3>1. i + 1 \in DOMAIN inbox /\ j + 1 \in DOMAIN inbox /\ i + 1 > k + 1 /\ j + 1 > k + 1
          /\ i + 1 > k /\ j + 1 > k /\ i \in Nat /\ j \in Nat
      BY <1>1, <2>1
    <3>2. i + 1 = j + 1
      BY <1>1, <1>3, <2>1, <3>1 DEF OneAfter
    <3> QED
      BY <3>1, <3>2
  <2> QED
    BY <2>1 DEF OneAfter
<1>4. SilentAfter(0) => inbox[1].kind = "cancel"
  BY <1>1 DEF SilentAfter
<1>5. ASSUME OneAfter(0), inbox[1].kind # "cancel" PROVE SilentAfter(0)'
  <2>1. ASSUME NEW i \in DOMAIN inbox' PROVE inbox'[i].kind = "cancel"
    <3>1. i + 1 \in DOMAIN inbox /\ i + 1 > 0 /\ i + 1 # 1 /\ inbox'[i] = inbox[i + 1]
      BY <1>1
    <3> QED
      BY <1>1, <1>5, <3>1 DEF OneAfter
  <2> QED
    BY <2>1 DEF SilentAfter
<1> QED
  BY <1>1, <1>2, <1>3, <1>4, <1>5

(* What a message sent makes of them.                                       *)
LEMMA InboxAdded ==
    ASSUME Basics, NEW m \in Messages, inbox' = Append(inbox, m)
    PROVE  /\ DOMAIN inbox = 1 .. Len(inbox) /\ DOMAIN inbox' = 1 .. Len(inbox) + 1
              /\ Len(inbox) \in Nat
           /\ inbox'[Len(inbox) + 1] = m /\ \A i \in DOMAIN inbox : inbox'[i] = inbox[i]
           /\ \A k \in Nat : /\ SilentAfter(k) => OneAfter(k)'
                             /\ m.kind = "cancel" /\ SilentAfter(k) => SilentAfter(k)'
                             /\ m.kind = "cancel" /\ OneAfter(k) => OneAfter(k)'
                             /\ k > Len(inbox) => SilentAfter(k)' /\ OneAfter(k)'
<1>1. /\ DOMAIN inbox = 1 .. Len(inbox) /\ DOMAIN inbox' = 1 .. Len(inbox) + 1 /\ Len(inbox) \in Nat
      /\ inbox'[Len(inbox) + 1] = m /\ \A i \in DOMAIN inbox : inbox'[i] = inbox[i]
  OBVIOUS
<1>2. ASSUME NEW k \in Nat, SilentAfter(k) PROVE OneAfter(k)'
  <2>1. \A i \in DOMAIN inbox' : i > k /\ inbox'[i].kind # "cancel" => i = Len(inbox) + 1
    BY <1>1, <1>2 DEF SilentAfter
  <2> QED
    BY <2>1 DEF OneAfter
<1>3. ASSUME NEW k \in Nat, m.kind = "cancel"
      PROVE  (SilentAfter(k) => SilentAfter(k)') /\ (OneAfter(k) => OneAfter(k)')
  <2>1. \A i \in DOMAIN inbox' : inbox'[i].kind # "cancel" => i \in DOMAIN inbox
        /\ inbox'[i] = inbox[i]
    BY <1>1, <1>3
  <2> QED
    BY <2>1 DEF SilentAfter, OneAfter
<1>4. ASSUME NEW k \in Nat, k > Len(inbox) PROVE SilentAfter(k)' /\ OneAfter(k)'
  <2>1. \A i \in DOMAIN inbox' : ~(i > k)
    BY <1>1, <1>4
  <2> QED
    BY <2>1 DEF SilentAfter, OneAfter
<1> QED
  BY <1>1, <1>2, <1>3, <1>4

(* No message is at most one.                                               *)
LEMMA SilentOne ==
    ASSUME NEW k \in Nat, SilentAfter(k)
    PROVE  OneAfter(k)
  BY DEF SilentAfter, OneAfter

(* Every step keeps that the sender writes at most once after a             *)
(* cancellation.                                                            *)
LEMMA LateInv ==
    ASSUME Basics, Basics', Asked, Heeded, Late, Finishes, Next
    PROVE  Late'
<1> USE DEF Basics
<1>1. CASE SessionStep /\ UNCHANGED clientVars
  <2> SUFFICES ASSUME connected PROVE Late'
    BY <1>1, SessionConnection DEF Late
  <2>1. UNCHANGED <<main, heard, cancelling, sender>> /\ (Quiet' <=> Quiet)
    BY <1>1 DEF clientVars, Quiet
  <2>2. Moves /\ Waits
    BY <1>1, SessionMoves
  <2>3. Taken' => Taken \/ Took(heard)
    BY <1>1, <2>1, SessionActs DEF Taken
  <2>4. ASSUME NEW k \in DOMAIN inbox', inbox'[k].kind = "cancel", inbox'[k].of = heard, cancelling
        PROVE  IF Quiet THEN SilentAfter(k)' ELSE OneAfter(k)'
    <3>1. CASE inbox' = inbox
      BY <2>4, <3>1 DEF Late, SilentAfter, OneAfter
    <3>2. CASE inbox # << >> /\ inbox' = Tail(inbox)
      <4>1. k + 1 \in DOMAIN inbox /\ inbox'[k] = inbox[k + 1] /\ k \in Nat
        BY <2>4, <3>2
      <4>2. IF Quiet THEN SilentAfter(k + 1) ELSE OneAfter(k + 1)
        BY <2>4, <4>1 DEF Late
      <4> QED
        BY <3>2, <4>1, <4>2, InboxRead
    <3> QED
      BY <2>2, <3>1, <3>2 DEF Moves
  <2>5. (SilentAfter(0) => SilentAfter(0)') /\ (OneAfter(0) => OneAfter(0)')
    <3>1. CASE inbox' = inbox
      BY <3>1 DEF SilentAfter, OneAfter
    <3>2. CASE inbox # << >> /\ inbox' = Tail(inbox)
      BY <3>2, InboxRead
    <3> QED
      BY <2>2, <3>1, <3>2 DEF Moves
  <2>6. SilentAfter(0) => ~Dropped
    BY InboxRead DEF Dropped
  <2>7. SilentAfter(0) /\ ~InWait => ~InWait'
    BY <2>2, <2>6 DEF Waits
  <2>8. ASSUME AtMostOneLate PROVE AtMostOneLate'
    <3>1. CASE InWait
      BY <2>2, <2>5, <2>6, <2>8, <3>1 DEF AtMostOneLate, Waits
    <3>2. CASE ~InWait /\ InWait'
      <4>1. Dropped /\ ~inputDone'
        BY <2>2, <3>2 DEF Waits
      <4> QED
        BY <2>5, <2>8, <4>1, InboxRead DEF AtMostOneLate, Dropped
    <3> QED
      BY <2>5, <2>8, <3>1, <3>2 DEF AtMostOneLate
  <2>9. ASSUME cancelling, Taken' PROVE IF Quiet THEN SilentAfter(0)'
               /\ ~InWait' ELSE AtMostOneLate'
    <3>1. CASE Taken
      BY <2>5, <2>7, <2>8, <2>9, <3>1 DEF Late
    <3>2. CASE Took(heard)
      <4>1. inbox # << >> /\ inbox' = Tail(inbox) /\ 1 \in DOMAIN inbox
            /\ inbox[1].kind = "cancel" /\ inbox[1].of = heard
            /\ ~InWait'
        BY <3>2 DEF Took
      <4>2. IF Quiet THEN SilentAfter(1) ELSE OneAfter(1)
        BY <2>9, <4>1 DEF Late
      <4>3. IF Quiet THEN SilentAfter(0)' ELSE OneAfter(0)'
        <5>1. 0 \in Nat /\ 0 + 1 = 1
          OBVIOUS
        <5> QED
          BY <4>1, <4>2, <5>1, InboxRead
      <4> QED
        BY <4>1, <4>3 DEF AtMostOneLate
    <3> QED
      BY <2>3, <2>9, <3>1, <3>2
  <2>10. main = "join" /\ ~cancelling => SilentAfter(0)' /\ ~InWait' /\ sender = "ended"
    BY <2>5, <2>7 DEF Late
  <2>11. main \in {"opening", "idle"} => AtMostOneLate'
    BY <2>8 DEF Late
  <2> QED
    BY <2>1, <2>4, <2>9, <2>10, <2>11 DEF Late
<1>2. CASE Join \/ Synthesize
  <2>1. UNCHANGED <<inbox, phase, writing, inputDone>> /\ ~cancelling' /\ main' \in {"idle", "recv"}
        /\ (main' = "idle" => main = "join" /\ sender = "ended")
    BY <1>2 DEF Join, Synthesize, sessionVars, uttVars
  <2>2. (AtMostOneLate' <=> AtMostOneLate) /\ (SilentAfter(0) /\ ~InWait => AtMostOneLate)
    BY <2>1 DEF AtMostOneLate, SilentAfter, OneAfter, InWait
  <2>3. connected' = connected
    BY <1>2 DEF Join, Synthesize, sessionVars
  <2> QED
    BY <2>1, <2>2, <2>3 DEF Late, Taken
<1>3. CASE SenderChecks
  <2>1. UNCHANGED <<inbox, outbox, connected, phase, writing, utterance, outcome, inputDone, main,
                    heard, cancelling>>
        /\ sender = "more" /\ (cancelling => sender' = "ended")
    BY <1>3 DEF SenderChecks, sessionVars, uttVars
  <2>2. (AtMostOneLate' <=> AtMostOneLate) /\ \A k \in Nat : OneAfter(k)' <=> OneAfter(k)
    BY <2>1 DEF AtMostOneLate, SilentAfter, OneAfter, InWait
  <2>3. Taken' <=> Taken
    BY <2>1 DEF Taken, Acted, Leaving
  <2>4. DOMAIN inbox \subseteq Nat
    BY Boxes
  <2> QED
    BY <2>1, <2>2, <2>3, <2>4 DEF Late, Quiet
<1>4. CASE SenderWrites
  <2> SUFFICES ASSUME connected PROVE Late'
    BY <1>4 DEF SenderWrites, Late
  <2>1. /\ UNCHANGED <<outbox, connected, phase, writing, utterance, outcome, main, heard,
                       cancelling>>
        /\ Quiet /\ ~Quiet'
    BY <1>4 DEF SenderWrites, uttVars, Quiet
  <2>2. PICK m \in Messages : inbox' = Append(inbox, m) /\ m.kind # "cancel"
    <3>1. call \in Nat /\ \A ok \in {TRUE, ~OddTexts} : ok \in BOOLEAN
      BY DEF Typed, ClientTypes
    <3> QED
      BY <1>4, <3>1, MessageTypes DEF SenderWrites, Text, Done
  <2>3. (Taken' <=> Taken) /\ (InWait' <=> InWait)
    BY <2>1 DEF Taken, Acted, Leaving, InWait
  <2>4. main \in {"recv", "join"} /\ ~(main = "join" /\ ~cancelling)
    BY <2>1 DEF Calls, Quiet, Late
  <2>5. ASSUME cancelling, Taken PROVE AtMostOneLate'
    BY <2>1, <2>2, <2>3, <2>5, InboxAdded DEF Late, AtMostOneLate
  <2>6. ASSUME cancelling, NEW k \in DOMAIN inbox', inbox'[k].kind = "cancel", inbox'[k].of = heard
        PROVE  OneAfter(k)'
    <3>1. k \in DOMAIN inbox /\ inbox'[k] = inbox[k] /\ k \in Nat
      BY <2>2, <2>6
    <3> QED
      BY <2>1, <2>2, <2>6, <3>1, InboxAdded DEF Late
  <2> QED
    BY <2>1, <2>3, <2>4, <2>5, <2>6 DEF Late
<1>5. CASE SendCancel
  <2> SUFFICES ASSUME connected PROVE Late'
    BY <1>5 DEF SendCancel, Late
  <2>1. UNCHANGED <<outbox, connected, phase, writing, utterance, outcome, inputDone, main, heard,
                    cancelling, sender>>
    BY <1>5 DEF SendCancel, uttVars
  <2>2. PICK m \in Messages : inbox' = Append(inbox, m) /\ m.kind = "cancel"
    BY <1>5, MessageTypes DEF SendCancel, Cancel, Typed, ClientTypes
  <2>3. (Taken' <=> Taken) /\ (InWait' <=> InWait) /\ (Quiet' <=> Quiet)
    BY <2>1 DEF Taken, Acted, Leaving, InWait, Quiet
  <2>4. (SilentAfter(0) => SilentAfter(0)') /\ (AtMostOneLate => AtMostOneLate')
    BY <2>1, <2>2, <2>3, InboxAdded DEF AtMostOneLate
  <2>5. ASSUME cancelling, NEW k \in DOMAIN inbox', inbox'[k].kind = "cancel", inbox'[k].of = heard
        PROVE  IF Quiet THEN SilentAfter(k)' ELSE OneAfter(k)'
    <3>1. CASE k \in DOMAIN inbox
      <4>1. inbox'[k] = inbox[k] /\ k \in Nat
        BY <2>2, <3>1
      <4> QED
        BY <2>2, <2>5, <3>1, <4>1, InboxAdded DEF Late
    <3>2. CASE k \notin DOMAIN inbox
      <4>1. k \in Nat /\ k > Len(inbox)
        BY <2>2, <2>5, <3>2
      <4> QED
        BY <2>2, <4>1, InboxAdded
    <3> QED
      BY <3>1, <3>2
  <2> QED
    BY <2>1, <2>3, <2>4, <2>5 DEF Late
<1>6. CASE RequestCancel
  <2> SUFFICES ASSUME connected PROVE Late'
    BY <1>6 DEF RequestCancel, sessionVars, Late
  <2>1. UNCHANGED <<inbox, outbox, connected, phase, writing, utterance, outcome, inputDone, main,
                    heard, sender>>
        /\ heard # 0 /\ ~cancelling /\ main \in {"recv", "join"} /\ cancelling' = TRUE
    BY <1>6 DEF RequestCancel, sessionVars, uttVars
  <2>2. ~\E k \in DOMAIN inbox : inbox[k].kind = "cancel" /\ inbox[k].of = heard
    BY <2>1 DEF Asked, Pending
  <2>3. ~Acted(heard)
    BY <2>1 DEF Heeded
  <2>4. Taken => SilentAfter(0) /\ ~InWait /\ AtMostOneLate
    BY <2>1, <2>3, SilentOne DEF Taken, Late, AtMostOneLate
  <2>5. (Taken' <=> Taken) /\ (InWait' <=> InWait) /\ (SilentAfter(0)' <=> SilentAfter(0))
        /\ (AtMostOneLate' <=> AtMostOneLate)
    BY <2>1 DEF Taken, Acted, Leaving, InWait, SilentAfter, OneAfter, AtMostOneLate
  <2> QED
    BY <2>1, <2>2, <2>4, <2>5 DEF Late
<1>7. CASE CloseClient \/ GiveUp
  BY <1>7 DEF CloseClient, GiveUp, Disconnect, Late
<1>8. CASE Connect
  <2>1. CASE Admit
    <3>1. inbox' = << >> /\ main' = "opening" /\ ~cancelling' /\ ~InWait'
      BY <1>8, <2>1 DEF Connect, Admit, Say, InWait, Calls
    <3>2. AtMostOneLate'
      BY <3>1 DEF AtMostOneLate, OneAfter
    <3> QED
      BY <3>1, <3>2 DEF Late
  <2>2. CASE AcceptFails \/ UNCHANGED sessionVars
    BY <1>8, <2>2 DEF Connect, AcceptFails, sessionVars, Calls, Late
  <2> QED
    BY <1>8, <2>1, <2>2 DEF Connect
<1>9. CASE Receive
  <2> DEFINE e == outbox[1]
  <2>1. Head(outbox) = e /\ connected /\ main \in {"opening", "recv"} /\ outbox # << >>
        /\ 1 \in DOMAIN outbox
    BY <1>9 DEF Receive, Calls
  <2>2. CASE Meaning(e) = "bad"
    BY <1>9, <2>1, <2>2 DEF Receive, Disconnect, Late
  <2>3. CASE Meaning(e) # "bad"
    <3>1. /\ outbox' = Tail(outbox)
          /\ UNCHANGED <<inbox, connected, cancelling, phase, writing, utterance, outcome,
                         inputDone, sender>>
          /\ heard' = IF Meaning(e) = "start" THEN e.utt ELSE heard
          /\ main' = CASE Meaning(e) = "open" -> "idle"
                       [] Meaning(e) = "end" -> "join" [] OTHER -> "recv"
      BY <1>9, <2>1, <2>3 DEF Receive, uttVars
    <3>2. \A i \in DOMAIN outbox' : i + 1 \in DOMAIN outbox /\ outbox'[i] = outbox[i + 1]
      BY <2>1, <3>1
    <3>3. \A u : Acted(u)' => Acted(u)
      BY <3>1, <3>2 DEF Acted, Leaving
    <3>4. /\ InWait' <=> InWait
          /\ Quiet' <=> Quiet
          /\ AtMostOneLate' <=> AtMostOneLate
          /\ \A k \in Nat : (SilentAfter(k)' <=> SilentAfter(k)) /\ (OneAfter(k)' <=> OneAfter(k))
      BY <3>1 DEF InWait, SilentAfter, OneAfter, AtMostOneLate, Quiet
    <3>5. DOMAIN inbox \subseteq Nat
      BY Boxes
    <3>6. CASE Meaning(e) = "open"
      <4>1. main = "opening" /\ main' = "idle" /\ ~cancelling
        BY <2>1, <3>1, <3>6 DEF Calls
      <4> QED
        BY <2>1, <3>1, <3>4, <4>1 DEF Late
    <3>7. CASE Meaning(e) = "start"
      <4>1. main' = "recv" /\ ~cancelling
        BY <2>1, <3>1, <3>7 DEF Meaning, Calls
      <4> QED
        BY <3>1, <4>1 DEF Late
    <3>8. CASE Meaning(e) = "yield"
      <4>1. main' = "recv" /\ heard' = heard /\ main = "recv"
        BY <2>1, <3>1, <3>8 DEF Meaning
      <4>2. Taken' => Taken
        BY <3>3, <4>1 DEF Taken
      <4> QED
        BY <2>1, <3>1, <3>4, <3>5, <4>1, <4>2 DEF Late
    <3>9. CASE Meaning(e) = "end"
      <4>1. main' = "join" /\ heard' = heard /\ main = "recv" /\ e.utt = heard
            /\ e.kind \in {"done", "cancelled"} /\ (e.kind = "done" \/ cancelling)
        BY <2>1, <3>1, <3>9 DEF Meaning
      <4>2. e.kind = "cancelled" => Taken
        BY <2>1, <4>1 DEF Taken, Acted
      <4>3. e.kind = "done" => sender = "ended" /\ SilentAfter(0) /\ ~InWait
        BY <2>1 DEF Finishes, DoomedBy, Said
      <4>4. SilentAfter(0) /\ ~InWait => AtMostOneLate
        BY SilentOne DEF AtMostOneLate
      <4>5. cancelling => IF Quiet THEN SilentAfter(0) /\ ~InWait ELSE AtMostOneLate
        BY <2>1, <4>1, <4>2, <4>3, <4>4 DEF Late, Quiet
      <4>6. ~cancelling => sender = "ended" /\ SilentAfter(0) /\ ~InWait
        BY <4>1, <4>3
      <4> QED
        BY <2>1, <3>1, <3>4, <3>5, <4>1, <4>5, <4>6 DEF Late
    <3> QED
      BY <2>3, <3>6, <3>7, <3>8, <3>9 DEF Meaning
  <2> QED
    BY <2>2, <2>3
<1> QED
  BY <1>1, <1>2, <1>3, <1>4, <1>5, <1>6, <1>7, <1>8, <1>9 DEF Next, ReaderStep

-----------------------------------------------------------------------------
(* text.done and the end of the utterance.                                  *)

(* The session concludes an utterance only once it read text.done.          *)
LEMMA SessionConcludes ==
    ASSUME Basics, SessionStep, Concluding'
    PROVE  /\ Concluding
              \/ (InWait /\ inbox # << >> /\ inbox' = Tail(inbox) /\ inbox[1].kind = "done")
           /\ Written => ~Ends(writing.event)
<1> USE DEF Basics
<1>1. CASE Written
  <2>1. InWait' /\ writing.next = "wait" /\ inputDone
    BY <1>1 DEF Written, Concluding, InWait, Nothing, Hangup, Event, Typed, PhaseTypes, Writings
  <2> QED
    BY <1>1, <2>1 DEF Written, Concluding, InWait, Coroutine, Ends
<1>2. CASE ~Written /\ (WriteFails \/ IdleEnd \/ HangUp \/ TakeNothing)
  BY <1>2 DEF WriteFails, Fails, Hangs, IdleEnd, HangUp, TakeNothing, Concluding, InWait
<1>3. CASE ~Written /\ (IdleTimeout \/ IdleRefuse)
  BY <1>3, RefusalWrites DEF Concluding, InWait, Error
<1>4. CASE ~Written /\ IdleStart
  BY <1>4 DEF IdleStart, Concluding
<1>5. CASE ~Written /\ TakeMessage
  <2>1. Head(inbox) = inbox[1] /\ inbox # << >> /\ inbox' = Tail(inbox) /\ InWait
    BY <1>5 DEF TakeMessage, InWait
  <2>2. CASE TakeDone(Head(inbox))
    BY <1>5, <2>1, <2>2 DEF TakeDone
  <2>3. CASE ~TakeDone(Head(inbox))
    BY <1>5, <2>1, <2>3 DEF TakeMessage, TakeCancel, TakeText, TakeRefused, Concluding
  <2> QED
    BY <1>5, <2>2, <2>3
<1>6. CASE ~Written /\ (AppendText \/ TakeOutput)
  BY <1>6 DEF AppendText, TakeOutput, Concluding, InWait
<1>7. CASE ~Written /\ CleanUp
  BY <1>7 DEF CleanUp, Hangs, Say, Event, Error, Concluding, InWait
<1>8. CASE ~Written /\ (VendorStep \/ (VendorBreaks /\ VendorFrame))
  BY <1>8 DEF VendorStep, VendorFrame, Concluding, InWait
<1> QED
  BY <1>1, <1>2, <1>3, <1>4, <1>5, <1>6, <1>7, <1>8 DEF SessionStep, CoroutineStep

(* An end that the client will hear of comes before its failure.            *)
LEMMA EndHeard ==
    ASSUME Basics, Asked, Late, Finishes, connected, main = "recv", ~NoEnd
    PROVE  (Quiet => SilentAfter(0) /\ ~InWait)
<1>1. PICK i \in DOMAIN outbox : Ends(outbox[i]) /\ ~DoomedBy(i)
  BY DEF NoEnd
<1>2. CASE outbox[i].kind = "done"
  BY <1>1, <1>2 DEF Finishes
<1>3. CASE outbox[i].kind = "cancelled"
  <2>1. heard = outbox[i].utt /\ cancelling
    BY <1>1, <1>3 DEF Asked, Awaited
  <2>2. Taken
    BY <1>3, <2>1 DEF Taken, Acted
  <2> QED
    BY <2>1, <2>2 DEF Late
<1> QED
  BY <1>1, <1>2, <1>3 DEF Ends

(* Every step keeps that text.done ends what a call sends.                  *)
LEMMA FinishesInv ==
    ASSUME Basics, Basics', Order, Asked, Late, Finishes, Next
    PROVE  Finishes'
<1> USE DEF Basics
<1> DEFINE Fresh(i) == Said /\ NoEnd /\ SilentAfter(i)
           Apart(i) == ~InWait /\ \A j \in 1 .. i - 1 : inbox[j].kind # "text"
           Last1(i) == Said /\ SilentAfter(0) /\ ~InWait /\ \A j \in 1 .. i - 1 : ~Ends(outbox[j])
<1>1. CASE SessionStep /\ UNCHANGED clientVars
  <2> SUFFICES ASSUME connected PROVE Finishes'
    BY <1>1, SessionConnection DEF Finishes
  <2>1. UNCHANGED <<main, heard, cancelling, sender>> /\ (Said' <=> Said)
    BY <1>1 DEF clientVars, Said
  <2>2. Moves
    BY <1>1, SessionMoves
  <2>3. SilentAfter(0) => SilentAfter(0)'
    <3>1. CASE inbox' = inbox
      BY <3>1 DEF SilentAfter
    <3>2. CASE inbox # << >> /\ inbox' = Tail(inbox)
      BY <3>2, InboxRead
    <3> QED
      BY <2>2, <3>1, <3>2 DEF Moves
  <2>4. SilentAfter(0) /\ ~InWait => ~InWait'
    BY <1>1, SessionStarts, InboxRead
  <2>5. ASSUME ~(Written /\ Ends(writing.event)), NoEnd PROVE NoEnd'
    <3>1. CASE UNCHANGED outbox
      BY <2>5, <3>1 DEF NoEnd, DoomedBy
    <3>2. CASE ~UNCHANGED outbox
      <4>1. PICK f \in Events : outbox' = Append(outbox, f) /\ ~Ends(f)
        BY <1>1, <2>5, <3>2, SessionSpeaks DEF Ends, Fatal
      <4> QED
        BY <2>1, <2>5, <4>1, EventAdded DEF NoEnd
    <3> QED
      BY <3>1, <3>2
  <2>6. ASSUME Doomed PROVE NoEnd => NoEnd'
    <3>1. CASE UNCHANGED outbox
      BY <3>1 DEF NoEnd, DoomedBy
    <3>2. CASE ~UNCHANGED outbox
      <4>1. PICK f \in Events : outbox' = Append(outbox, f)
        BY <1>1, <3>2, SessionSpeaks
      <4> QED
        BY <2>1, <2>6, <4>1, EventAdded DEF NoEnd
    <3> QED
      BY <3>1, <3>2
  <2>7. ASSUME Concluding' PROVE Said' /\ NoEnd' /\ SilentAfter(0)'
    <3>1. ~(Written /\ Ends(writing.event))
      BY <1>1, <2>7, SessionConcludes
    <3>2. CASE Concluding
      BY <2>1, <2>3, <2>5, <3>1, <3>2 DEF Finishes
    <3>3. CASE InWait /\ inbox # << >> /\ inbox' = Tail(inbox) /\ inbox[1].kind = "done"
      <4>1. 1 \in DOMAIN inbox /\ 0 \in Nat /\ 0 + 1 = 1
        BY <3>3
      <4>2. Said /\ NoEnd /\ SilentAfter(1)
        BY <3>3, <4>1 DEF Finishes
      <4>3. SilentAfter(0)'
        BY <3>3, <4>1, <4>2, InboxRead
      <4> QED
        BY <2>1, <2>5, <3>1, <4>2, <4>3
    <3> QED
      BY <1>1, <2>7, <3>2, <3>3, SessionConcludes
  <2>8. ASSUME NEW i \in DOMAIN inbox', inbox'[i].kind = "done"
        PROVE  \/ Said' /\ NoEnd' /\ SilentAfter(i)'
               \/ ~InWait' /\ \A j \in 1 .. i - 1 : inbox'[j].kind # "text"
    <3>1. PICK k \in DOMAIN inbox :
             /\ inbox[k].kind = "done" /\ k \in Nat \ {0} /\ i \in Nat \ {0}
             /\ SilentAfter(k) => SilentAfter(i)'
             /\ (\A j \in 1 .. k - 1 : inbox[j].kind # "text")
                => \A j \in 1 .. i - 1 : inbox'[j].kind # "text"
             /\ inbox # << >> /\ inbox' = Tail(inbox) => k # 1
      <4>1. CASE inbox' = inbox
        <5>1. inbox # << >> => Tail(inbox) # inbox
          OBVIOUS
        <5>2. i \in DOMAIN inbox /\ i \in Nat \ {0}
          BY <2>8, <4>1, Boxes
        <5> QED
          BY <2>8, <4>1, <5>1, <5>2 DEF SilentAfter
      <4>2. CASE inbox # << >> /\ inbox' = Tail(inbox)
        <5>1. i + 1 \in DOMAIN inbox /\ inbox'[i] = inbox[i + 1] /\ i \in Nat \ {0}
          BY <2>8, <4>2
        <5>2. SilentAfter(i + 1) => SilentAfter(i)'
          BY <4>2, <5>1, InboxRead
        <5>3. ASSUME \A j \in 1 .. (i + 1) - 1 : inbox[j].kind # "text", NEW j \in 1 .. i - 1
              PROVE  inbox'[j].kind # "text"
          <6>1. j \in DOMAIN inbox' /\ inbox'[j] = inbox[j + 1] /\ j + 1 \in 1 .. (i + 1) - 1
            BY <2>8, <4>2, <5>1
          <6> QED
            BY <5>3, <6>1
        <5> QED
          BY <2>8, <5>1, <5>2, <5>3
      <4> QED
        BY <2>2, <4>1, <4>2 DEF Moves
    <3>2. CASE Fresh(k)
      <4>1. CASE NoEnd'
        BY <2>1, <3>1, <3>2, <4>1
      <4>2. CASE ~NoEnd'
        <5>1. Written /\ Ends(writing.event) /\ ~Doomed
          BY <2>5, <2>6, <3>2, <4>2
        <5>2. writing.event.kind # "done"
          BY <3>1, <5>1 DEF Written, Finishes, Concluding, SilentAfter, Coroutine
        <5>3. Leaving /\ Confirmed
          BY <5>1, <5>2 DEF Written, Leaving, Ends, Asked
        <5>4. heard = utterance /\ cancelling
          BY <5>1, <5>3 DEF Confirmed, Awaited
        <5>5. OneAfter(0)
          BY <3>2, <5>3, <5>4 DEF Late, Taken, Acted, Quiet, Said, AtMostOneLate
        <5>6. \A j \in 1 .. k - 1 : inbox[j].kind # "text"
          <6>1. ASSUME NEW j \in 1 .. k - 1, inbox[j].kind = "text" PROVE FALSE
            <7>1. j \in DOMAIN inbox /\ j > 0 /\ k > 0 /\ j # k
              BY <3>1
            <7> QED
              BY <3>1, <5>5, <6>1, <7>1 DEF OneAfter
          <6> QED
            BY <6>1
        <5>7. ~InWait'
          BY <5>1, <5>2 DEF Written, Ends, Coroutine, InWait
        <5> QED
          BY <3>1, <5>6, <5>7
      <4> QED
        BY <4>1, <4>2
    <3>3. CASE Apart(k)
      <4>1. ~InWait'
        <5>1. ASSUME inbox # << >>, inbox' = Tail(inbox), inbox[1].kind = "text" PROVE FALSE
          <6>1. 1 \in 1 .. k - 1
            BY <3>1, <5>1
          <6> QED
            BY <3>3, <5>1, <6>1
        <5> QED
          BY <1>1, <3>3, <5>1, SessionStarts
      <4> QED
        BY <3>1, <3>3, <4>1
    <3> QED
      BY <3>1, <3>2, <3>3 DEF Finishes
  <2>9. ASSUME NEW i \in DOMAIN outbox', outbox'[i].kind = "done"
        PROVE  \/ DoomedBy(i)'
               \/ Said' /\ SilentAfter(0)' /\ ~InWait' /\ \A j \in 1 .. i - 1 : ~Ends(outbox'[j])
    <3>1. CASE UNCHANGED outbox
      <4>1. DoomedBy(i)' <=> DoomedBy(i)
        BY <3>1 DEF DoomedBy
      <4> QED
        BY <2>1, <2>3, <2>4, <2>9, <3>1, <4>1 DEF Finishes
    <3>2. CASE ~UNCHANGED outbox
      <4>1. PICK f \in Events : outbox' = Append(outbox, f)
            /\ (Fatal(f) \/ (Written /\ f = writing.event))
        BY <1>1, <3>2, SessionSpeaks
      <4>2. CASE i \in DOMAIN outbox
        <5>1. outbox'[i] = outbox[i] /\ (DoomedBy(i)' <=> DoomedBy(i))
              /\ \A j \in 1 .. i - 1 : outbox'[j] = outbox[j]
          <6>1. outbox'[i] = outbox[i] /\ (DoomedBy(i)' <=> DoomedBy(i))
            BY <2>1, <4>1, <4>2, EventAdded
          <6>2. \A j \in 1 .. i - 1 : j \in DOMAIN outbox
            BY <4>2, Boxes
          <6> QED
            BY <2>1, <4>1, <6>1, <6>2
        <5> QED
          BY <2>1, <2>3, <2>4, <2>9, <4>2, <5>1 DEF Finishes
      <4>3. CASE i = Len(outbox) + 1
        <5>1. f.kind = "done" /\ Written /\ f = writing.event
          BY <2>1, <2>9, <4>1, <4>3 DEF Fatal
        <5>2. Said /\ NoEnd /\ SilentAfter(0)
          BY <5>1 DEF Written, Finishes, Concluding, Coroutine
        <5>3. ~InWait'
          BY <5>1 DEF Written, Coroutine, InWait
        <5>4. DoomedBy(i)' <=> Doomed
          BY <2>1, <4>1, <4>3, EventAdded
        <5>5. ASSUME ~Doomed, NEW j \in 1 .. i - 1 PROVE ~Ends(outbox'[j])
          <6>1. j \in DOMAIN outbox /\ outbox'[j] = outbox[j]
            BY <2>1, <4>1, <4>3
          <6>2. ~DoomedBy(j)
            BY <5>5, <6>1, Boxes DEF DoomedBy, Doomed
          <6> QED
            BY <5>2, <6>1, <6>2 DEF NoEnd
        <5> QED
          BY <2>1, <2>3, <5>2, <5>3, <5>4, <5>5
      <4> QED
        BY <2>9, <4>1, <4>2, <4>3
    <3> QED
      BY <3>1, <3>2
  <2> QED
    BY <2>7, <2>8, <2>9 DEF Finishes
<1>2. CASE Synthesize \/ Join \/ SenderChecks \/ RequestCancel
  <2>1. UNCHANGED <<inbox, outbox, connected, phase, writing, inputDone>> /\ (Said => Said')
    BY <1>2 DEF Synthesize, Join, SenderChecks, RequestCancel, sessionVars, uttVars, Said
  <2>2. /\ Concluding' <=> Concluding
        /\ InWait' <=> InWait
        /\ NoEnd' <=> NoEnd
        /\ \A i : (SilentAfter(i)' <=> SilentAfter(i)) /\ (DoomedBy(i)' <=> DoomedBy(i))
    BY <2>1 DEF Concluding, InWait, NoEnd, SilentAfter, DoomedBy
  <2> QED
    BY <2>1, <2>2 DEF Finishes
<1>3. CASE SenderWrites
  <2> SUFFICES ASSUME connected PROVE Finishes'
    BY <1>3 DEF SenderWrites, Finishes
  <2>1. /\ UNCHANGED <<outbox, connected, phase, writing, inputDone, main>>
        /\ Quiet /\ ~Said
    BY <1>3 DEF SenderWrites, uttVars, Quiet, Said
  <2>2. PICK m \in Messages : /\ inbox' = Append(inbox, m)
                              /\ m.kind = "done" => sender' = "ended"
    <3>1. call \in Nat /\ \A ok \in {TRUE, ~OddTexts} : ok \in BOOLEAN
      BY DEF Typed, ClientTypes
    <3> QED
      BY <1>3, <3>1, MessageTypes DEF SenderWrites, Text
  <2>3. /\ Concluding' <=> Concluding
        /\ InWait' <=> InWait
        /\ NoEnd' <=> NoEnd
        /\ \A i : DoomedBy(i)' <=> DoomedBy(i)
    BY <2>1 DEF Concluding, InWait, NoEnd, DoomedBy
  <2>4. ~Concluding'
    BY <2>1, <2>3 DEF Finishes
  <2>5. \A i \in DOMAIN outbox : outbox[i].kind = "done" => DoomedBy(i)
    BY <2>1 DEF Finishes
  <2>6. ASSUME NEW i \in DOMAIN inbox', inbox'[i].kind = "done"
        PROVE  \/ Said' /\ NoEnd' /\ SilentAfter(i)'
               \/ ~InWait' /\ \A j \in 1 .. i - 1 : inbox'[j].kind # "text"
    <3>1. /\ DOMAIN inbox = 1 .. Len(inbox) /\ DOMAIN inbox' = 1 .. Len(inbox) + 1
             /\ Len(inbox) \in Nat
          /\ \A j \in DOMAIN inbox : inbox'[j] = inbox[j]
      BY <2>2
    <3>2. CASE i \in DOMAIN inbox
      <4>1. ~InWait /\ \A j \in 1 .. i - 1 : inbox[j].kind # "text"
        BY <2>1, <2>6, <3>1, <3>2 DEF Finishes
      <4> QED
        BY <2>3, <3>1, <3>2, <4>1
    <3>3. CASE i = Len(inbox) + 1
      <4>1. sender' = "ended"
        BY <2>2, <2>6, <3>3
      <4>2. SilentAfter(i)'
        BY <3>1, <3>3 DEF SilentAfter
      <4>3. CASE main = "recv" /\ NoEnd
        BY <2>1, <2>3, <4>1, <4>2, <4>3 DEF Said
      <4>4. CASE SilentAfter(0) /\ ~InWait
        <5>1. \A j \in 1 .. i - 1 : j \in DOMAIN inbox /\ j > 0
          BY <3>1, <3>3
        <5> QED
          BY <2>3, <3>1, <4>4, <5>1 DEF SilentAfter
      <4>5. CASE main = "join"
        BY <2>1, <4>4, <4>5 DEF Late, Taken
      <4>6. main \in {"recv", "join"}
        BY <2>1 DEF Calls, Quiet
      <4> QED
        BY <2>1, <4>3, <4>4, <4>5, <4>6, EndHeard
    <3> QED
      BY <3>1, <3>2, <3>3
  <2> QED
    BY <2>1, <2>3, <2>4, <2>5, <2>6 DEF Finishes
<1>4. CASE SendCancel
  <2>1. UNCHANGED <<outbox, connected, phase, writing, inputDone, main, sender>>
    BY <1>4 DEF SendCancel, uttVars
  <2>2. PICK m \in Messages : inbox' = Append(inbox, m) /\ m.kind = "cancel"
    BY <1>4, MessageTypes DEF SendCancel, Cancel, Typed, ClientTypes
  <2>3. /\ Concluding' <=> Concluding
        /\ InWait' <=> InWait
        /\ NoEnd' <=> NoEnd
        /\ Said' <=> Said
        /\ \A i : DoomedBy(i)' <=> DoomedBy(i)
    BY <2>1 DEF Concluding, InWait, NoEnd, Said, DoomedBy
  <2>4. \A i \in Nat : SilentAfter(i) => SilentAfter(i)'
    BY <2>2, InboxAdded
  <2>5. ASSUME connected, NEW i \in DOMAIN inbox', inbox'[i].kind = "done"
        PROVE  \/ Said' /\ NoEnd' /\ SilentAfter(i)'
               \/ ~InWait' /\ \A j \in 1 .. i - 1 : inbox'[j].kind # "text"
    <3>1. i \in DOMAIN inbox /\ inbox'[i] = inbox[i] /\ i \in Nat
          /\ \A j \in 1 .. i - 1 : j \in DOMAIN inbox /\ inbox'[j] = inbox[j]
      BY <2>2, <2>5
    <3> QED
      BY <2>3, <2>4, <2>5, <3>1 DEF Finishes
  <2> QED
    BY <2>1, <2>3, <2>4, <2>5 DEF Finishes
<1>5. CASE CloseClient \/ GiveUp
  BY <1>5 DEF CloseClient, GiveUp, Disconnect, Finishes
<1>6. CASE Connect
  <2>1. CASE Admit
    <3>1. inbox' = << >> /\ outbox' = << >> /\ ~Concluding'
      BY <1>6, <2>1 DEF Connect, Admit, Say, Event, InWait, Concluding
    <3> QED
      BY <3>1 DEF Finishes
  <2>2. CASE AcceptFails \/ UNCHANGED sessionVars
    BY <1>6, <2>2 DEF Connect, AcceptFails, sessionVars, Calls, Finishes
  <2> QED
    BY <1>6, <2>1, <2>2 DEF Connect
<1>7. CASE Receive
  <2> DEFINE e == outbox[1]
  <2>1. Head(outbox) = e /\ connected /\ main \in {"opening", "recv"} /\ outbox # << >>
        /\ 1 \in DOMAIN outbox
    BY <1>7 DEF Receive, Calls
  <2>2. CASE Meaning(e) = "bad"
    BY <1>7, <2>1, <2>2 DEF Receive, Disconnect, Finishes
  <2>3. CASE Meaning(e) # "bad"
    <3>1. /\ outbox' = Tail(outbox)
          /\ UNCHANGED <<inbox, connected, phase, writing, inputDone, sender>>
          /\ main' = CASE Meaning(e) = "open" -> "idle"
                       [] Meaning(e) = "end" -> "join" [] OTHER -> "recv"
      BY <1>7, <2>1, <2>3 DEF Receive, uttVars
    <3>2. ~Fatal(e) /\ ~DoomedBy(1)
      BY <2>3 DEF Meaning, Fatal, DoomedBy
    <3>3. /\ Concluding' <=> Concluding
          /\ InWait' <=> InWait
          /\ \A i : SilentAfter(i)' <=> SilentAfter(i)
      BY <3>1 DEF Concluding, InWait, SilentAfter
    <3>4. NoEnd => NoEnd' /\ ~Ends(e)
      BY <2>1, <3>1, <3>2, EventRead DEF NoEnd, Ends
    <3>5. Said => Said' \/ Ends(e)
      BY <2>1, <2>3, <3>1 DEF Said, Meaning, Ends
    <3>6. ASSUME NEW i \in DOMAIN outbox', outbox'[i].kind = "done"
          PROVE  DoomedBy(i)'
                 \/ (Said' /\ SilentAfter(0)' /\ ~InWait'
                    /\ \A j \in 1 .. i - 1 : ~Ends(outbox'[j]))
      <4>1. i + 1 \in DOMAIN outbox /\ outbox'[i] = outbox[i + 1]
            /\ (DoomedBy(i)' <=> DoomedBy(i + 1))
            /\ i \in Nat \ {0}
        BY <2>1, <3>1, <3>2, <3>6, EventRead
      <4>2. CASE Last1(i + 1)
        <5>1. ~Ends(e)
          <6>1. 1 \in 1 .. (i + 1) - 1
            BY <4>1
          <6> QED
            BY <4>2, <6>1
        <5>2. ASSUME NEW j \in 1 .. i - 1 PROVE ~Ends(outbox'[j])
          <6>1. j \in DOMAIN outbox' /\ j + 1 \in 1 .. (i + 1) - 1
            BY <2>1, <3>1, <3>2, <3>6, <4>1
          <6> QED
            BY <2>1, <3>1, <3>2, <4>2, <6>1
        <5> QED
          BY <3>3, <3>5, <4>2, <5>1, <5>2
      <4> QED
        BY <2>1, <3>6, <4>1, <4>2 DEF Finishes
    <3> QED
      BY <2>1, <3>1, <3>3, <3>4, <3>5, <3>6 DEF Finishes
  <2> QED
    BY <2>2, <2>3
<1> QED
  BY <1>1, <1>2, <1>3, <1>4, <1>5, <1>6, <1>7 DEF Next, ReaderStep

-----------------------------------------------------------------------------
(* No close message waits, and no event comes out of place.                 *)

(* Every step keeps that a close message means a connection given up.       *)
LEMMA OpenInv ==
    ASSUME Basics, Open, Next
    PROVE  Open'
<1> USE DEF Basics
<1>1. CASE SessionStep
  <2>1. connected' = connected /\ Moves
    BY <1>1, SessionConnection, SessionMoves
  <2> QED
    BY <2>1, InboxRead DEF Open, Moves
<1>2. CASE Receive \/ Join \/ SenderChecks \/ RequestCancel \/ Synthesize
  BY <1>2
  DEF Receive, Disconnect, Join, SenderChecks, RequestCancel, Synthesize, sessionVars, Open
<1>3. CASE SenderWrites \/ SendCancel
  <2>1. PICK m \in Messages : inbox' = Append(inbox, m) /\ m.kind # "close"
        /\ connected' = connected
    <3>1. call \in Nat /\ canceller \in Nat /\ \A ok \in {TRUE, ~OddTexts} : ok \in BOOLEAN
      BY DEF Typed, ClientTypes
    <3>2. CASE SenderWrites
      BY <3>1, <3>2, MessageTypes DEF SenderWrites, Text, Done
    <3>3. CASE SendCancel
      BY <3>1, <3>3, MessageTypes DEF SendCancel, Cancel
    <3> QED
      BY <1>3, <3>2, <3>3
  <2> QED
    BY <2>1 DEF Open
<1>4. CASE CloseClient \/ GiveUp
  BY <1>4 DEF CloseClient, GiveUp, Disconnect, Open
<1>5. CASE Connect
  <2>1. CASE Admit
    BY <2>1 DEF Admit, Open
  <2>2. CASE AcceptFails \/ UNCHANGED sessionVars
    BY <2>2 DEF AcceptFails, sessionVars, Open
  <2> QED
    BY <1>5, <2>1, <2>2 DEF Connect
<1> QED
  BY <1>1, <1>2, <1>3, <1>4, <1>5 DEF Next, ReaderStep

(* Every step keeps that the reader meets no event out of order.            *)
LEMMA SequenceInv ==
    ASSUME Basics, Order, Asked, NoUnexpectedSequence, Next
    PROVE  NoUnexpectedSequence'
<1> USE DEF Basics
<1>1. CASE Receive
  <2> DEFINE e == outbox[1]
  <2>1. Head(outbox) = e /\ connected /\ main \in {"opening", "recv"} /\ outbox # << >>
        /\ 1 \in DOMAIN outbox
    BY <1>1 DEF Receive, Calls
  <2>2. ASSUME ~Fatal(e) PROVE Meaning(e) # "bad"
    <3>1. Follows(Seen, e) /\ ~DoomedBy(1)
      BY <2>1 DEF Order, Chain, DoomedBy
    <3>2. CASE main = "opening"
      BY <2>2, <3>1, <3>2 DEF Seen, Event, Follows, Fatal, Sounds, Meaning
    <3>3. CASE main = "recv" /\ heard = 0
      BY <2>2, <3>1, <3>3 DEF Seen, Event, Follows, Fatal, Sounds, Meaning
    <3>4. CASE main = "recv" /\ heard # 0
      <4>1. e.kind \in {"audio", "done", "cancelled"} /\ e.utt = heard
        BY <2>2, <3>1, <3>4 DEF Seen, Event, Follows, Fatal
      <4>2. e.kind = "cancelled" => cancelling
        BY <2>1, <3>1 DEF Asked, Awaited
      <4> QED
        BY <3>4, <4>1, <4>2 DEF Meaning
    <3> QED
      BY <2>1, <3>2, <3>3, <3>4
  <2>3. ASSUME Fatal(e) PROVE Raised(e) # "sequence"
    BY <2>1, <2>3, Contents DEF Raised, Fatal, Events, Codes
  <2> QED
    BY <1>1, <2>1, <2>2, <2>3 DEF Receive, Disconnect, NoUnexpectedSequence
<1>2. CASE ~Receive
  BY <1>2
  DEF Next, ReaderStep, clientVars, Join, SenderChecks, SenderWrites, SendCancel, Connect,
     CloseClient, GiveUp, Disconnect, Synthesize, RequestCancel, NoUnexpectedSequence
<1> QED
  BY <1>1, <1>2

-----------------------------------------------------------------------------
(* The invariant and the theorems.                                          *)

(* The invariant holds at the start.                                        *)
LEMMA InitInv == Init => Inv
<1> SUFFICES ASSUME Init PROVE Inv
  OBVIOUS
<1>1. SocketTypes
  <2>1. inbox = << >> /\ outbox = << >> /\ connected \in BOOLEAN /\ slot \in BOOLEAN
    BY DEF Init, SessionInit
  <2>2. << >> \in Seq(Messages) /\ << >> \in Seq(Events)
    OBVIOUS
  <2> QED
    BY <2>1, <2>2 DEF SocketTypes
<1>2. PhaseTypes
  BY EventTypes DEF Init, SessionInit, PhaseTypes
<1>3. UtteranceTypes
  <2>1. stream = [items |-> << >>, finished |-> TRUE, cancelled |-> TRUE]
    BY DEF Init, SessionInit, Cancelled
  <2>2. stream \in Streams /\ Len(stream.items) <= MaxItems
    BY <2>1, SessionAssumption DEF Streams
  <2>3. inputDone \in BOOLEAN /\ text \in 0 .. MaxCalls /\ chunks \in 0 .. MaxChunks
    <3>1. inputDone = FALSE /\ text = 0 /\ chunks = 0
      BY DEF Init, SessionInit
    <3>2. 0 \in 0 .. MaxCalls /\ 0 \in 0 .. MaxChunks
      BY SessionAssumption, ClientAssumption
    <3> QED
      BY <3>1, <3>2
  <2> QED
    BY <2>2, <2>3 DEF Init, SessionInit, UtteranceTypes
<1>4. ClientTypes
  <2>1. cancelling \in BOOLEAN /\ call \in 0 .. MaxCalls /\ left \in 0 .. MaxTexts
        /\ opened \in 0 .. MaxConnections
    <3>1. cancelling = FALSE /\ call = 0 /\ left = 0 /\ opened = 0
      BY DEF Init
    <3>2. 0 \in 0 .. MaxCalls /\ 0 \in 0 .. MaxTexts /\ 0 \in 0 .. MaxConnections
      BY ClientAssumption
    <3> QED
      BY <3>1, <3>2
  <2> QED
    BY <2>1 DEF Init, ClientTypes, Codes
<1>5. Typed
  BY <1>1, <1>2, <1>3, <1>4 DEF Init, SessionInit, Typed
<1>6. Coroutine
  BY DEF Init, SessionInit, Coroutine, InWait, Nothing
<1>7. Spoken /\ Calls
  BY DEF Init, SessionInit, Spoken, Calls, Cancelled
<1>8. Order /\ Numbered /\ Asked /\ Heeded /\ Late /\ Finishes /\ Open
  BY DEF Init, SessionInit, Order, Numbered, Asked, Heeded, Late, Finishes, Open
<1>9. NoUnexpectedSequence
  BY DEF Init, NoUnexpectedSequence
<1> QED
  BY <1>5, <1>6, <1>7, <1>8, <1>9 DEF Inv

(* Every step keeps the invariant.                                          *)
LEMMA NextInv ==
    ASSUME Inv, [Next]_vars
    PROVE  Inv'
<1>1. CASE Next
  <2>1. Basics /\ Basics'
    BY <1>1, BasicsInv DEF Inv, Basics
  <2>2. Order' /\ Numbered'
    BY <1>1, <2>1, OrderInv, NumberedInv DEF Inv
  <2>3. Asked' /\ Heeded'
    BY <1>1, <2>1, <2>2, AskedInv, HeededInv DEF Inv
  <2>4. Late' /\ Finishes'
    BY <1>1, <2>1, LateInv, FinishesInv DEF Inv
  <2>5. Open' /\ NoUnexpectedSequence'
    BY <1>1, <2>1, OpenInv, SequenceInv DEF Inv
  <2> QED
    BY <2>1, <2>2, <2>3, <2>4, <2>5 DEF Inv, Basics
<1>2. CASE UNCHANGED vars
  <2>1. Typed'
    BY <1>2
    DEF Inv, vars, sessionVars, uttVars, clientVars, Typed, SocketTypes, PhaseTypes,
       UtteranceTypes, ClientTypes
  <2>2. Coroutine' /\ Spoken' /\ Calls'
    BY <1>2 DEF Inv, vars, sessionVars, uttVars, clientVars, Coroutine, InWait, Spoken, Calls
  <2>3. Order'
    BY <1>2
    DEF Inv, vars, sessionVars, uttVars, clientVars, Order, Chain, Tuned, Ready, Last, Seen
  <2>4. Numbered' /\ Asked' /\ Heeded'
    BY <1>2
    DEF Inv, vars, sessionVars, uttVars, clientVars, Numbered, Announced, Starting, Asked,
       Leaving, InWait, Pending, Confirmed, Doomed, DoomedBy, Awaited, Heeded, Acted
  <2>5. Late' /\ Finishes' /\ Open' /\ NoUnexpectedSequence'
    BY <1>2
    DEF Inv, vars, sessionVars, uttVars, clientVars, Late, Taken, Acted, Leaving, Quiet,
       SilentAfter, OneAfter, AtMostOneLate, InWait, Finishes, Concluding, Said, NoEnd, DoomedBy,
       Open, NoUnexpectedSequence
  <2> QED
    BY <2>1, <2>2, <2>3, <2>4, <2>5 DEF Inv
<1> QED
  BY <1>1, <1>2

(* The invariant holds in every state: the events on the socket, the        *)
(* numbers of the utterances and the late texts agree with what the client  *)
(* waits for.                                                               *)
THEOREM Invariance == Spec => []Inv
<1>1. Inv /\ [Next]_vars => Inv'
  BY NextInv
<1> QED
  BY <1>1, InitInv, PTL DEF Spec

(* Every variable keeps its type: the bridge never holds more texts than    *)
(* it has room for.                                                         *)
THEOREM TypeCorrect == Spec => []TypeOK
<1>1. Inv => TypeOK
  BY DEF Inv, Typed, SocketTypes, PhaseTypes, UtteranceTypes, ClientTypes, TypeOK, Messages,
     Writings, Streams
<1> QED
  BY <1>1, Invariance, PTL

(* Whatever cancellations and late texts cross the server's events, the     *)
(* reader of a call meets them in order.                                    *)
THEOREM EventsInOrder == Spec => []NoUnexpectedSequence
<1>1. Inv => NoUnexpectedSequence
  BY DEF Inv
<1> QED
  BY <1>1, Invariance, PTL

(* Between two utterances, and when the slot is free, no generator of the   *)
(* vendor model is open.                                                    *)
THEOREM OneGenerator == Spec => []GeneratorsNeverOverlap
<1>1. Inv => GeneratorsNeverOverlap
  BY DEF Inv, Coroutine, GeneratorsNeverOverlap
<1> QED
  BY <1>1, Invariance, PTL

(* audio.done says that the call sent everything, and the vendor read it.   *)
THEOREM DoneIsSpoken == Spec => []DoneMeansSpoken
<1>1. ASSUME Inv PROVE DoneMeansSpoken
  <2> SUFFICES ASSUME connected, writing.event.kind = "done", vendor = "ended"
               PROVE  /\ sender = "ended" /\ stream.items = << >>
                      /\ \A i \in DOMAIN inbox : inbox[i].kind # "text"
    BY DEF DoneMeansSpoken
  <2>1. phase = "write" /\ inputDone
    BY <1>1 DEF Inv, Coroutine, Nothing, Hangup, Event
  <2>2. Said /\ SilentAfter(0)
    BY <1>1, <2>1 DEF Inv, Finishes, Concluding
  <2>3. \A i \in DOMAIN inbox : i > 0
    BY <1>1, Boxes DEF Inv
  <2> QED
    BY <1>1, <2>2, <2>3 DEF Inv, Spoken, Said, SilentAfter
<1> QED
  BY <1>1, Invariance, PTL
=============================================================================

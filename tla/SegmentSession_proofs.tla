----------------------- MODULE SegmentSession_proofs -----------------------
(* Proofs about SegmentSession, the client and the server of a 300M TTS     *)
(* session together, for any segment IDs and texts, any limits of the queue *)
(* and any number of messages and chunks.                                   *)
EXTENDS SegmentSession, SegmentPipeline_proofs

-----------------------------------------------------------------------------
(* The views of a client that was not misled.                               *)

Segment == [id : Ids, acked : BOOLEAN]
View    == [segments : Seq(Segment), accepted : SUBSET Ids, audio : Ids \cup {None},
            cancel : Ids \cup {None}, misled : BOOLEAN]

(* Its segments are distinct, those acknowledged come first, and what is    *)
(* spoken or cancelled was acknowledged before.                             *)
Sane(v) ==
    /\ v \in View /\ ~v.misled
    /\ \A j, k \in DOMAIN v.segments : v.segments[j].id = v.segments[k].id => j = k
    /\ \A j, k \in DOMAIN v.segments : j < k /\ v.segments[k].acked => v.segments[j].acked
    /\ \A k \in DOMAIN v.segments : v.segments[k].acked <=> v.segments[k].id \in v.accepted
    /\ v.audio # None =>
           v.segments # << >> /\ v.segments[1] = [id |-> v.audio, acked |-> TRUE]
    /\ v.cancel # None => v.cancel \in v.accepted

(* The client registers a segment, or the cancellation of one.              *)
Adds(v, i)    == [v EXCEPT !.segments = Append(@, [id |-> i, acked |-> FALSE])]
Cancels(v, i) == [v EXCEPT !.cancel = i]

(* Nothing is being cancelled, and the client may still use the ID.         *)
Fresh(v, i) == v.cancel = None /\ i \in Ids /\ i \notin Outstanding(v) \cup v.accepted

(* What a session that did not fail writes after session.created.           *)
Answer == [kind : EventKinds \ {"created", "fatal"}, id : Ids]
     \cup [kind : {"fatal"}, id : Ids \cup {None}]

-----------------------------------------------------------------------------
(* Taking an element out of a sequence moves up those behind it.            *)
LEMMA Removed ==
    ASSUME NEW S, NEW s \in Seq(S), NEW n \in DOMAIN s
    PROVE  /\ RemoveAt(s, n) \in Seq(S) /\ Len(RemoveAt(s, n)) = Len(s) - 1
           /\ \A k \in 1 .. Len(s) - 1 : RemoveAt(s, n)[k] = IF k < n THEN s[k] ELSE s[k + 1]
<1> DEFINE front == SubSeq(s, 1, n - 1)
           back  == SubSeq(s, n + 1, Len(s))
<1>1. n \in 1 .. Len(s) /\ Len(s) \in Nat
  BY LenProperties
<1>2. /\ front \in Seq(S) /\ Len(front) = n - 1
      /\ \A k \in 1 .. n - 1 : front[k] = s[k]
  <2>1. \A k \in 1 .. n - 1 : s[k] \in S
    BY <1>1, ElementOfSeq
  <2> QED
    BY <1>1, <2>1, SubSeqProperties
<1>3. /\ back \in Seq(S) /\ Len(back) = Len(s) - n
      /\ \A k \in 1 .. Len(s) - n : back[k] = s[n + k]
  <2>1. \A k \in n + 1 .. Len(s) : s[k] \in S
    BY <1>1, ElementOfSeq
  <2> QED
    BY <1>1, <2>1, SubSeqProperties
<1>4. RemoveAt(s, n) = front \o back
  BY DEF RemoveAt
<1> HIDE DEF front, back
<1>5. /\ front \o back \in Seq(S) /\ Len(front \o back) = Len(s) - 1
      /\ \A k \in 1 .. Len(s) - 1 :
            (front \o back)[k] = IF k <= n - 1 THEN front[k] ELSE back[k - (n - 1)]
  BY <1>1, <1>2, <1>3, ConcatProperties, SMTT(30)
<1>6. ASSUME NEW k \in 1 .. Len(s) - 1
      PROVE  (front \o back)[k] = IF k < n THEN s[k] ELSE s[k + 1]
  <2>1. CASE k < n
    <3>1. k \in 1 .. n - 1 /\ k <= n - 1
      BY <1>1, <2>1
    <3> QED
      BY <1>2, <1>5, <2>1, <3>1
  <2>2. CASE ~(k < n)
    <3>1. /\ k - (n - 1) \in 1 .. Len(s) - n /\ n + (k - (n - 1)) = k + 1
          /\ ~(k <= n - 1)
      BY <1>1, <2>2
    <3>2. (front \o back)[k] = back[k - (n - 1)]
      BY <1>5, <3>1
    <3>3. back[k - (n - 1)] = s[n + (k - (n - 1))]
      BY <1>3, <3>1
    <3> QED
      BY <2>2, <3>1, <3>2, <3>3
  <2> QED
    BY <2>1, <2>2
<1> QED
  BY <1>4, <1>5, <1>6

(* Appending commutes with taking out an element that was there before.     *)
LEMMA AppendRemoved ==
    ASSUME NEW S, NEW s \in Seq(S), NEW e \in S, NEW n \in DOMAIN s
    PROVE  RemoveAt(Append(s, e), n) = Append(RemoveAt(s, n), e)
<1> DEFINE t == Append(s, e)
           r == RemoveAt(s, n)
<1>1. n \in 1 .. Len(s) /\ Len(s) \in Nat /\ Len(s) > 0
  BY LenProperties
<1>2. /\ t \in Seq(S) /\ Len(t) = Len(s) + 1 /\ t[Len(s) + 1] = e
      /\ \A k \in 1 .. Len(s) : t[k] = s[k]
  BY AppendProperties
<1>3. n \in DOMAIN t
  BY <1>1, <1>2, LenProperties
<1>4. /\ r \in Seq(S) /\ Len(r) = Len(s) - 1
      /\ \A k \in 1 .. Len(s) - 1 : r[k] = IF k < n THEN s[k] ELSE s[k + 1]
  BY Removed
<1> HIDE DEF t, r
<1>5. /\ RemoveAt(t, n) \in Seq(S) /\ Len(RemoveAt(t, n)) = Len(s)
      /\ \A k \in 1 .. Len(s) : RemoveAt(t, n)[k] = IF k < n THEN t[k] ELSE t[k + 1]
  <2>1. Len(t) - 1 = Len(s)
    BY <1>1, <1>2
  <2>2. /\ RemoveAt(t, n) \in Seq(S) /\ Len(RemoveAt(t, n)) = Len(t) - 1
        /\ \A k \in 1 .. Len(t) - 1 : RemoveAt(t, n)[k] = IF k < n THEN t[k] ELSE t[k + 1]
    BY <1>2, <1>3, Removed
  <2> QED
    BY <2>1, <2>2
<1>6. /\ Append(r, e) \in Seq(S) /\ Len(Append(r, e)) = Len(s) /\ Append(r, e)[Len(s)] = e
      /\ \A k \in 1 .. Len(s) - 1 : Append(r, e)[k] = r[k]
  BY <1>1, <1>4, AppendProperties
<1>7. ASSUME NEW k \in 1 .. Len(s) PROVE RemoveAt(t, n)[k] = Append(r, e)[k]
  BY <1>1, <1>2, <1>4, <1>5, <1>6, SMTT(30)
<1>8. RemoveAt(t, n) = Append(r, e)
  BY <1>5, <1>6, <1>7, SeqEqual
<1> QED
  BY <1>8 DEF t, r

-----------------------------------------------------------------------------
(* What reading an event makes of a sane view.                              *)

(* The segments of a view without one of them.                              *)
LEMMA WithoutOne ==
    ASSUME NEW v, Sane(v), NEW n \in DOMAIN v.segments
    PROVE  Without(v, v.segments[n].id) = RemoveAt(v.segments, n)
<1> DEFINE place == CHOOSE m \in DOMAIN v.segments : v.segments[m].id = v.segments[n].id
<1>1. place \in DOMAIN v.segments /\ v.segments[place].id = v.segments[n].id
  OBVIOUS
<1> HIDE DEF place
<1>2. place = n
  BY <1>1 DEF Sane
<1> QED
  BY <1>2 DEF Without, place

(* The oldest segment not acknowledged, as a place of the view.             *)
Oldest(v, n) ==
    n \in DOMAIN v.segments /\ ~v.segments[n].acked /\ \A k \in 1 .. n - 1 : v.segments[k].acked

(* The segments once one of them is acknowledged.                           *)
Marked(s, n) == [s EXCEPT ![n] = [id |-> s[n].id, acked |-> TRUE]]

(* The segments once one of them is acknowledged, place by place.           *)
LEMMA MarkedParts ==
    ASSUME NEW s \in Seq(Segment), NEW n \in DOMAIN s
    PROVE  /\ Marked(s, n) \in Seq(Segment) /\ Len(Marked(s, n)) = Len(s)
           /\ \A k \in 1 .. Len(s) :
                 Marked(s, n)[k] = IF k = n THEN [id |-> s[n].id, acked |-> TRUE] ELSE s[k]
<1>1. n \in 1 .. Len(s) /\ s[n] \in Segment
  BY LenProperties, ElementOfSeq
<1>2. [id |-> s[n].id, acked |-> TRUE] \in Segment
  BY <1>1 DEF Segment
<1> QED
  BY <1>1, <1>2, ExceptSeq DEF Marked

(* Appending commutes with acknowledging a segment that was there before.   *)
LEMMA AppendMarked ==
    ASSUME NEW s \in Seq(Segment), NEW n \in DOMAIN s, NEW e \in Segment
    PROVE  Marked(Append(s, e), n) = Append(Marked(s, n), e)
<1> DEFINE t == Append(s, e)
           r == Marked(s, n)
           l == Marked(t, n)
<1>1. n \in 1 .. Len(s) /\ Len(s) \in Nat
  BY LenProperties
<1>2. /\ t \in Seq(Segment) /\ Len(t) = Len(s) + 1 /\ t[Len(s) + 1] = e
      /\ \A k \in 1 .. Len(s) : t[k] = s[k]
  BY AppendProperties
<1>3. n \in DOMAIN t
  BY <1>1, <1>2, LenProperties
<1>4. /\ r \in Seq(Segment) /\ Len(r) = Len(s)
      /\ \A k \in 1 .. Len(s) : r[k] = IF k = n THEN [id |-> s[n].id, acked |-> TRUE] ELSE s[k]
  BY MarkedParts
<1> HIDE DEF t, r
<1>5. /\ l \in Seq(Segment) /\ Len(l) = Len(t)
      /\ \A k \in 1 .. Len(t) : l[k] = IF k = n THEN [id |-> t[n].id, acked |-> TRUE] ELSE t[k]
  BY <1>2, <1>3, MarkedParts
<1>6. /\ Append(r, e) \in Seq(Segment) /\ Len(Append(r, e)) = Len(s) + 1
      /\ Append(r, e)[Len(s) + 1] = e /\ \A k \in 1 .. Len(s) : Append(r, e)[k] = r[k]
  BY <1>4, AppendProperties
<1> HIDE DEF l
<1>7. ASSUME NEW k \in 1 .. Len(l) PROVE l[k] = Append(r, e)[k]
  <2>1. k \in 1 .. Len(s) \/ k = Len(s) + 1
    BY <1>1, <1>2, <1>5
  <2>2. k \in 1 .. Len(t)
    BY <1>5
  <2> QED
    BY <1>1, <1>2, <1>4, <1>5, <1>6, <2>1, <2>2
<1>8. l = Append(r, e)
  BY <1>2, <1>5, <1>6, <1>7, SeqEqual
<1> QED
  BY <1>8 DEF l, r, t

(* The parts of a sane view.                                                *)
LEMMA Parts ==
    ASSUME NEW v, Sane(v)
    PROVE  /\ v \in View /\ v.segments \in Seq(Segment) /\ v.accepted \in SUBSET Ids
           /\ v.audio \in Ids \cup {None} /\ v.cancel \in Ids \cup {None} /\ v.misled = FALSE
           /\ Len(v.segments) \in Nat /\ DOMAIN v.segments = 1 .. Len(v.segments)
           /\ \A n \in DOMAIN v.segments :
                 v.segments[n].id \in Ids /\ v.segments[n].acked \in BOOLEAN
<1>1. v \in View /\ ~v.misled
  BY DEF Sane
<1>2. /\ v.segments \in Seq(Segment) /\ v.accepted \in SUBSET Ids
      /\ v.audio \in Ids \cup {None} /\ v.cancel \in Ids \cup {None} /\ v.misled = FALSE
  BY <1>1 DEF View
<1>3. /\ Len(v.segments) \in Nat /\ DOMAIN v.segments = 1 .. Len(v.segments)
      /\ \A n \in 1 .. Len(v.segments) : v.segments[n] \in Segment
  BY <1>2, LenProperties, ElementOfSeq
<1> QED
  BY <1>1, <1>2, <1>3 DEF Segment

(* Taking any segment out leaves a view sane, but for the one spoken.       *)
LEMMA SaneWithout ==
    ASSUME NEW v, Sane(v), NEW n \in DOMAIN v.segments, NEW w \in View,
           w.segments = RemoveAt(v.segments, n), w.accepted = v.accepted, ~w.misled,
           w.audio = None \/ (w.audio = v.audio /\ n # 1),
           w.cancel \in {None, v.cancel}
    PROVE  Sane(w)
<1> DEFINE s == v.segments
           t == w.segments
<1>1. /\ s \in Seq(Segment) /\ Len(s) \in Nat /\ DOMAIN s = 1 .. Len(s) /\ n \in 1 .. Len(s)
  BY Parts
<1>2. /\ t \in Seq(Segment) /\ Len(t) = Len(s) - 1
      /\ \A k \in 1 .. Len(s) - 1 : t[k] = IF k < n THEN s[k] ELSE s[k + 1]
  BY <1>1, Removed
<1>3. DOMAIN t = 1 .. Len(s) - 1
  BY <1>2, LenProperties
<1> DEFINE from(k) == IF k < n THEN k ELSE k + 1
<1>4. \A k \in DOMAIN t : from(k) \in DOMAIN s /\ t[k] = s[from(k)]
  BY <1>1, <1>2, <1>3
<1>5. \A j, k \in DOMAIN t : /\ from(j) = from(k) => j = k
                             /\ j < k => from(j) < from(k)
  BY <1>1, <1>3
<1>6. /\ \A j, k \in DOMAIN s : s[j].id = s[k].id => j = k
      /\ \A j, k \in DOMAIN s : j < k /\ s[k].acked => s[j].acked
      /\ \A k \in DOMAIN s : s[k].acked <=> s[k].id \in v.accepted
      /\ v.audio # None => s # << >> /\ s[1] = [id |-> v.audio, acked |-> TRUE]
      /\ v.cancel # None => v.cancel \in v.accepted
  BY DEF Sane
<1>7. w.audio # None => t # << >> /\ t[1] = [id |-> w.audio, acked |-> TRUE]
  <2> SUFFICES ASSUME w.audio # None PROVE t # << >> /\ t[1] = [id |-> w.audio, acked |-> TRUE]
    OBVIOUS
  <2>1. n # 1 /\ s[1] = [id |-> w.audio, acked |-> TRUE] /\ 1 \in 1 .. Len(s) - 1 /\ 1 < n
    <3>1. n # 1 /\ w.audio = v.audio
      OBVIOUS
    <3>2. 1 \in 1 .. Len(s) - 1 /\ 1 < n
      BY <1>1, <3>1
    <3> QED
      BY <1>6, <3>1, <3>2
  <2>2. t[1] = s[1] /\ t # << >>
    BY <1>2, <2>1
  <2> QED
    BY <2>1, <2>2
<1> HIDE DEF s, t, from
<1>8. /\ \A j, k \in DOMAIN t : t[j].id = t[k].id => j = k
      /\ \A j, k \in DOMAIN t : j < k /\ t[k].acked => t[j].acked
      /\ \A k \in DOMAIN t : t[k].acked <=> t[k].id \in w.accepted
  BY <1>4, <1>5, <1>6
<1>9. w.cancel # None => w.cancel \in w.accepted
  BY <1>6
<1> QED
  BY <1>7, <1>8, <1>9 DEF Sane, t

(* A refusal: of the cancellation, which came too late, or of the oldest    *)
(* segment not acknowledged.                                                *)
LEMMA ReadsRefusal ==
    ASSUME NEW v, Sane(v), NEW e \in Answer, e.kind \in {"rejected", "error"},
           ~Reads(v, e).misled
    PROVE  \/ e.id = v.cancel /\ Reads(v, e) = [v EXCEPT !.cancel = None]
           \/ /\ e.id # v.cancel
              /\ \E n \in DOMAIN v.segments :
                    /\ Oldest(v, n) /\ v.segments[n].id = e.id
                    /\ Reads(v, e) = [v EXCEPT !.segments = RemoveAt(v.segments, n)]
<1>1. Reads(v, e) = Refused(v, e.id)
  BY DEF Reads
<1>2. v \in View /\ Misled(v).misled
  BY DEF Sane, View, Misled
<1>5. e.id # None
  BY IdsAssumption DEF Answer
<1>3. CASE e.id = v.cancel
  BY <1>1, <1>3, <1>5 DEF Refused
<1>4. CASE e.id # v.cancel
  <2>1. FirstUnacked(v, e.id) /\ Refused(v, e.id) = [v EXCEPT !.segments = Without(v, e.id)]
    BY <1>1, <1>2, <1>4, <1>5 DEF Refused
  <2>2. PICK n \in DOMAIN v.segments : /\ v.segments[n] = [id |-> e.id, acked |-> FALSE]
                                       /\ \A k \in 1 .. n - 1 : v.segments[k].acked
    BY <2>1 DEF FirstUnacked
  <2>3. Oldest(v, n) /\ v.segments[n].id = e.id
    BY <2>2 DEF Oldest
  <2> QED
    BY <1>1, <1>4, <2>1, <2>3, WithoutOne
<1> QED
  BY <1>3, <1>4

(* An acknowledgement: of the oldest segment not acknowledged.              *)
LEMMA ReadsAcceptance ==
    ASSUME NEW v, Sane(v), NEW e \in Answer, e.kind = "accepted", ~Reads(v, e).misled
    PROVE  /\ e.id \notin v.accepted
           /\ \E n \in DOMAIN v.segments :
                 /\ Oldest(v, n) /\ v.segments[n].id = e.id
                 /\ Reads(v, e) = [v EXCEPT !.accepted = v.accepted \cup {e.id},
                                            !.segments = Marked(v.segments, n)]
<1>1. Reads(v, e) = Acknowledged(v, e.id)
  BY DEF Reads
<1>2. v \in View /\ Misled(v).misled
  BY DEF Sane, View, Misled
<1> DEFINE marked == [m \in DOMAIN v.segments |->
                        IF v.segments[m].id = e.id
                        THEN [id |-> e.id, acked |-> TRUE] ELSE v.segments[m]]
<1>3. /\ FirstUnacked(v, e.id) /\ e.id \notin v.accepted
      /\ Acknowledged(v, e.id) = [v EXCEPT !.accepted = v.accepted \cup {e.id}, !.segments = marked]
  BY <1>1, <1>2 DEF Acknowledged
<1>4. PICK n \in DOMAIN v.segments : /\ v.segments[n] = [id |-> e.id, acked |-> FALSE]
                                     /\ \A k \in 1 .. n - 1 : v.segments[k].acked
  BY <1>3 DEF FirstUnacked
<1>5. Oldest(v, n) /\ v.segments[n].id = e.id
  BY <1>4 DEF Oldest
<1>6. \A m \in DOMAIN v.segments : v.segments[m].id = e.id <=> m = n
  BY <1>5 DEF Sane
<1>7. marked = Marked(v.segments, n)
  <2>1. v.segments \in [1 .. Len(v.segments) -> Segment]
    BY Parts, LenProperties
  <2> QED
    BY <1>5, <1>6, <2>1 DEF Marked
<1> QED
  BY <1>1, <1>3, <1>5, <1>7

(* The start, the audio and the end of a segment, and the confirmation of   *)
(* a cancellation.                                                          *)
LEMMA ReadsSpeech ==
    ASSUME NEW v, Sane(v), NEW e \in Answer, ~Reads(v, e).misled
    PROVE  /\ e.kind = "start" =>
                 /\ v.audio = None /\ v.segments # << >>
                 /\ v.segments[1] = [id |-> e.id, acked |-> TRUE]
                 /\ Reads(v, e) = [v EXCEPT !.audio = e.id]
           /\ e.kind = "audio" => v.audio # None /\ Reads(v, e) = v
           /\ e.kind = "done" =>
                 /\ e.id = v.audio /\ v.segments # << >>
                 /\ Reads(v, e) = [v EXCEPT !.segments = RemoveAt(v.segments, 1), !.audio = None]
           /\ e.kind = "cancelled" =>
                 /\ e.id = v.cancel /\ e.id = v.audio
                 /\ Reads(v, e) = [v EXCEPT !.segments = << >>, !.audio = None, !.cancel = None]
           /\ e.kind = "fatal" => Reads(v, e) = v
<1>1. /\ e.kind = "start" => Reads(v, e) = StartedAudio(v, e.id)
      /\ e.kind = "audio" => Reads(v, e) = IF v.audio # None THEN v ELSE Misled(v)
      /\ e.kind = "done" => Reads(v, e) = EndedAudio(v, e.id)
      /\ e.kind = "cancelled" => Reads(v, e) = CancelledAll(v, e.id)
      /\ e.kind = "fatal" => Reads(v, e) = v
  BY DEF Reads
<1>2. v \in View /\ Misled(v).misled
  BY DEF Sane, View, Misled
<1>3. ASSUME e.kind = "start"
      PROVE  /\ v.audio = None /\ v.segments # << >>
             /\ v.segments[1] = [id |-> e.id, acked |-> TRUE]
             /\ Reads(v, e) = [v EXCEPT !.audio = e.id]
  <2>1. v.segments # << >> => Head(v.segments) = v.segments[1]
    BY Parts, HeadTailProperties
  <2> QED
    BY <1>1, <1>2, <1>3, <2>1 DEF StartedAudio
<1>4. ASSUME e.kind = "done"
      PROVE  /\ e.id = v.audio /\ v.segments # << >>
             /\ Reads(v, e) = [v EXCEPT !.segments = RemoveAt(v.segments, 1), !.audio = None]
  <2>1. e.id = v.audio /\ Reads(v, e) = [v EXCEPT !.segments = Without(v, e.id), !.audio = None]
    BY <1>1, <1>2, <1>4 DEF EndedAudio
  <2>2. e.id # None
    BY <1>4, IdsAssumption DEF Answer
  <2>3. v.segments # << >> /\ v.segments[1] = [id |-> e.id, acked |-> TRUE]
    BY <2>1, <2>2 DEF Sane
  <2>4. 1 \in DOMAIN v.segments /\ v.segments[1].id = e.id
    <3>1. Len(v.segments) \in Nat \ {0} /\ DOMAIN v.segments = 1 .. Len(v.segments)
      BY <2>3, Parts, EmptySeq
    <3> QED
      BY <2>3, <3>1
  <2>5. Without(v, v.segments[1].id) = RemoveAt(v.segments, 1)
    BY <2>4, WithoutOne
  <2> QED
    BY <2>1, <2>3, <2>4, <2>5
<1>5. ASSUME e.kind = "cancelled"
      PROVE  /\ e.id = v.cancel /\ e.id = v.audio
             /\ Reads(v, e) = [v EXCEPT !.segments = << >>, !.audio = None, !.cancel = None]
  BY <1>1, <1>2, <1>5 DEF CancelledAll
<1> QED
  BY <1>1, <1>2, <1>3, <1>4, <1>5

(* Reading an event leaves a view sane.                                     *)
LEMMA SaneReads ==
    ASSUME NEW v, Sane(v), NEW e \in Answer, ~Reads(v, e).misled
    PROVE  Sane(Reads(v, e))
<1> DEFINE w == Reads(v, e)
<1>1. /\ v \in View /\ v.segments \in Seq(Segment) /\ ~v.misled
      /\ Len(v.segments) \in Nat /\ DOMAIN v.segments = 1 .. Len(v.segments)
  BY Parts DEF Sane
<1>2. CASE e.kind \in {"rejected", "error"}
  <2>1. CASE w = [v EXCEPT !.cancel = None]
    <3>1. /\ w \in View /\ w.segments = v.segments /\ w.accepted = v.accepted
          /\ w.audio = v.audio /\ w.cancel = None /\ ~w.misled
      BY <1>1, <2>1 DEF View
    <3> HIDE DEF w
    <3>2. Sane(w)
      BY <3>1 DEF Sane
    <3> QED
      BY <3>2 DEF w
  <2>2. ASSUME NEW n \in DOMAIN v.segments, Oldest(v, n),
               w = [v EXCEPT !.segments = RemoveAt(v.segments, n)]
        PROVE  Sane(w)
    <3>1. RemoveAt(v.segments, n) \in Seq(Segment)
      BY <1>1, Removed
    <3>2. /\ w \in View /\ w.segments = RemoveAt(v.segments, n) /\ w.accepted = v.accepted
          /\ w.audio = v.audio /\ w.cancel = v.cancel /\ ~w.misled
      BY <1>1, <2>2, <3>1 DEF View
    <3>3. w.audio # None => n # 1
      BY <2>2, <3>2 DEF Oldest, Sane
    <3> HIDE DEF w
    <3>4. Sane(w)
      BY <3>2, <3>3, SaneWithout
    <3> QED
      BY <3>4 DEF w
  <2> QED
    BY <1>2, <2>1, <2>2, ReadsRefusal
<1>3. CASE e.kind = "accepted"
  <2>1. e.id \notin v.accepted /\ e.id \in Ids
    BY <1>3, ReadsAcceptance DEF Answer
  <2>2. PICK n \in DOMAIN v.segments :
           /\ Oldest(v, n) /\ v.segments[n].id = e.id
           /\ w = [v EXCEPT !.accepted = v.accepted \cup {e.id},
                            !.segments = Marked(v.segments, n)]
    BY <1>3, ReadsAcceptance
  <2> DEFINE t == Marked(v.segments, n)
  <2>3. /\ t \in Seq(Segment) /\ Len(t) = Len(v.segments)
        /\ \A m \in 1 .. Len(v.segments) :
              t[m] = IF m = n THEN [id |-> e.id, acked |-> TRUE] ELSE v.segments[m]
    BY <1>1, <2>2, MarkedParts
  <2>4. /\ w \in View /\ w.segments = t /\ w.accepted = v.accepted \cup {e.id}
        /\ w.audio = v.audio /\ w.cancel = v.cancel /\ ~w.misled
    <3> HIDE DEF w
    <3>1. w = [v EXCEPT !.accepted = v.accepted \cup {e.id}, !.segments = t]
      BY <2>2
    <3>2. t \in Seq(Segment) /\ v.accepted \cup {e.id} \in SUBSET Ids
      BY <2>1, <2>3, Parts
    <3> HIDE DEF t
    <3> QED
      BY <1>1, <3>1, <3>2 DEF View
  <2> HIDE DEF w, t
  <2>5. DOMAIN t = 1 .. Len(v.segments) /\ n \in 1 .. Len(v.segments)
    BY <1>1, <2>3, LenProperties
  <2>6. \A m \in DOMAIN t : /\ t[m].id = v.segments[m].id
                            /\ t[m].acked <=> m = n \/ v.segments[m].acked
    BY <1>1, <2>2, <2>3, <2>5
  <2>7. /\ \A j, k \in DOMAIN t : t[j].id = t[k].id => j = k
        /\ \A k \in DOMAIN t : t[k].acked <=> t[k].id \in w.accepted
    BY <1>1, <2>2, <2>4, <2>5, <2>6 DEF Sane
  <2>8. \A j, k \in DOMAIN t : j < k /\ t[k].acked => t[j].acked
    BY <1>1, <2>2, <2>5, <2>6 DEF Sane, Oldest
  <2>9. w.audio # None => w.segments # << >> /\ w.segments[1] = [id |-> w.audio, acked |-> TRUE]
    <3> SUFFICES ASSUME w.audio # None
                 PROVE  t # << >> /\ t[1] = [id |-> w.audio, acked |-> TRUE]
      BY <2>4
    <3>1. v.segments[1] = [id |-> w.audio, acked |-> TRUE] /\ v.segments # << >>
      BY <2>4 DEF Sane
    <3>2. n # 1 /\ 1 \in 1 .. Len(v.segments)
      BY <2>2, <2>5, <3>1 DEF Oldest
    <3> QED
      BY <2>3, <3>1, <3>2
  <2>10. w.cancel # None => w.cancel \in w.accepted
    BY <2>4 DEF Sane
  <2>11. Sane(w)
    BY <2>4, <2>7, <2>8, <2>9, <2>10 DEF Sane
  <2> QED
    BY <2>11 DEF w
<1>4. CASE e.kind = "start"
  <2>1. /\ v.segments # << >> /\ v.segments[1] = [id |-> e.id, acked |-> TRUE]
        /\ w = [v EXCEPT !.audio = e.id] /\ e.id \in Ids
    BY <1>4, ReadsSpeech, ZenonT(30) DEF Answer
  <2>2. /\ w \in View /\ w.segments = v.segments /\ w.accepted = v.accepted
        /\ w.audio = e.id /\ w.cancel = v.cancel /\ ~w.misled
    BY <1>1, <2>1 DEF View
  <2> HIDE DEF w
  <2>3. Sane(w)
    BY <2>1, <2>2 DEF Sane
  <2> QED
    BY <2>3 DEF w
<1>5. CASE e.kind \in {"audio", "fatal"}
  BY <1>5, ReadsSpeech
<1>6. CASE e.kind = "done"
  <2>1. /\ e.id = v.audio /\ v.segments # << >>
        /\ w = [v EXCEPT !.segments = RemoveAt(v.segments, 1), !.audio = None]
    BY <1>6, ReadsSpeech
  <2>2. 1 \in DOMAIN v.segments
    BY <1>1, <2>1, EmptySeq
  <2>3. RemoveAt(v.segments, 1) \in Seq(Segment)
    BY <1>1, <2>2, Removed
  <2>4. /\ w \in View /\ w.segments = RemoveAt(v.segments, 1) /\ w.accepted = v.accepted
        /\ w.audio = None /\ w.cancel = v.cancel /\ ~w.misled
    BY <1>1, <2>1, <2>3 DEF View
  <2> HIDE DEF w
  <2>5. Sane(w)
    BY <2>2, <2>4, SaneWithout
  <2> QED
    BY <2>5 DEF w
<1>7. CASE e.kind = "cancelled"
  <2>1. w = [v EXCEPT !.segments = << >>, !.audio = None, !.cancel = None]
    BY <1>7, ReadsSpeech
  <2>2. /\ w \in View /\ w.segments = << >> /\ w.accepted = v.accepted
        /\ w.audio = None /\ w.cancel = None /\ ~w.misled
    <3>1. << >> \in Seq(Segment)
      OBVIOUS
    <3> HIDE DEF w
    <3> QED
      BY <1>1, <2>1, <3>1 DEF View
  <2> HIDE DEF w
  <2>3. DOMAIN w.segments = {}
    BY <2>2
  <2>4. Sane(w)
    BY <2>2, <2>3 DEF Sane
  <2> QED
    BY <2>4 DEF w
<1> QED
  BY <1>2, <1>3, <1>4, <1>5, <1>6, <1>7 DEF Answer, EventKinds

(* The oldest segment not acknowledged is the first one of its kind.        *)
LEMMA OldestUnacked ==
    ASSUME NEW v, Sane(v), NEW n, Oldest(v, n)
    PROVE  /\ n \in DOMAIN v.segments /\ FirstUnacked(v, v.segments[n].id)
           /\ v.segments[n].id \notin v.accepted
<1>1. n \in DOMAIN v.segments /\ ~v.segments[n].acked /\ \A k \in 1 .. n - 1 : v.segments[k].acked
  BY DEF Oldest
<1>2. v.segments[n] = [id |-> v.segments[n].id, acked |-> FALSE]
  <2>1. v.segments[n] \in Segment
    BY <1>1, Parts, ElementOfSeq
  <2> QED
    BY <1>1, <2>1 DEF Segment
<1> QED
  BY <1>1, <1>2 DEF FirstUnacked, Sane

(* A refusal that is due.                                                   *)
LEMMA RefusalDue ==
    ASSUME NEW v, Sane(v), NEW n, Oldest(v, n), NEW e, e.id = v.segments[n].id,
           e.kind \in {"rejected", "error"}, e.id # v.cancel
    PROVE  Reads(v, e) = [v EXCEPT !.segments = RemoveAt(v.segments, n)]
<1>1. Reads(v, e) = Refused(v, e.id)
  BY DEF Reads
<1>2. Without(v, e.id) = RemoveAt(v.segments, n) /\ FirstUnacked(v, e.id)
  BY OldestUnacked, WithoutOne
<1>3. e.id # None
  BY OldestUnacked, Parts, IdsAssumption
<1> QED
  BY <1>1, <1>2, <1>3 DEF Refused

(* An acknowledgement that is due.                                          *)
LEMMA AcceptanceDue ==
    ASSUME NEW v, Sane(v), NEW n, Oldest(v, n), NEW e, e.id = v.segments[n].id,
           e.kind = "accepted"
    PROVE  Reads(v, e) = [v EXCEPT !.accepted = v.accepted \cup {e.id},
                                   !.segments = Marked(v.segments, n)]
<1> DEFINE marked == [m \in DOMAIN v.segments |->
                        IF v.segments[m].id = e.id
                        THEN [id |-> e.id, acked |-> TRUE] ELSE v.segments[m]]
<1>1. Reads(v, e) = Acknowledged(v, e.id)
  BY DEF Reads
<1>2. n \in DOMAIN v.segments /\ FirstUnacked(v, e.id) /\ e.id \notin v.accepted
  BY OldestUnacked
<1>3. Acknowledged(v, e.id) = [v EXCEPT !.accepted = v.accepted \cup {e.id}, !.segments = marked]
  BY <1>2 DEF Acknowledged
<1>4. \A m \in DOMAIN v.segments : v.segments[m].id = e.id <=> m = n
  BY <1>2 DEF Sane
<1>5. v.segments \in [1 .. Len(v.segments) -> Segment]
  BY Parts, LenProperties
<1>6. marked = Marked(v.segments, n)
  BY <1>4, <1>5 DEF Marked
<1> QED
  BY <1>1, <1>3, <1>6

(* The first segment of a view that has one.                                *)
LEMMA FirstPlace ==
    ASSUME NEW v, Sane(v), v.segments # << >>
    PROVE  /\ 1 \in DOMAIN v.segments /\ Head(v.segments) = v.segments[1]
           /\ Len(v.segments) \in Nat \ {0}
<1>1. v.segments \in Seq(Segment)
  BY Parts
<1>2. Len(v.segments) \in Nat \ {0} /\ DOMAIN v.segments = 1 .. Len(v.segments)
  BY <1>1, EmptySeq, LenProperties
<1>3. Head(v.segments) = v.segments[1]
  BY <1>1, HeadTailProperties
<1> QED
  BY <1>2, <1>3

(* The start of a segment that is due.                                      *)
LEMMA StartDue ==
    ASSUME NEW v, Sane(v), NEW e, e.kind = "start", v.audio = None, v.segments # << >>,
           v.segments[1] = [id |-> e.id, acked |-> TRUE]
    PROVE  Reads(v, e) = [v EXCEPT !.audio = e.id]
<1>1. Reads(v, e) = StartedAudio(v, e.id)
  BY DEF Reads
<1> QED
  BY <1>1, FirstPlace DEF StartedAudio

(* The end of a segment that is due.                                        *)
LEMMA DoneDue ==
    ASSUME NEW v, Sane(v), NEW e, e.kind = "done", e.id = v.audio, e.id # None
    PROVE  /\ v.segments # << >> /\ v.segments[1] = [id |-> e.id, acked |-> TRUE]
           /\ Reads(v, e) = [v EXCEPT !.segments = RemoveAt(v.segments, 1), !.audio = None]
<1>1. Reads(v, e) = [v EXCEPT !.segments = Without(v, e.id), !.audio = None]
  BY DEF Reads, EndedAudio
<1>2. v.segments # << >> /\ v.segments[1] = [id |-> e.id, acked |-> TRUE]
  BY DEF Sane
<1>3. 1 \in DOMAIN v.segments /\ v.segments[1].id = e.id
  BY <1>2, FirstPlace
<1>4. Without(v, v.segments[1].id) = RemoveAt(v.segments, 1)
  BY <1>3, WithoutOne
<1> QED
  BY <1>1, <1>2, <1>3, <1>4

(* The confirmation of a cancellation that is due.                          *)
LEMMA CancelledDue ==
    ASSUME NEW v, NEW e, e.kind = "cancelled", e.id = v.cancel, e.id = v.audio
    PROVE  Reads(v, e) = [v EXCEPT !.segments = << >>, !.audio = None, !.cancel = None]
  BY DEF Reads, CancelledAll

(* Audio that is due, and the end of the session.                           *)
LEMMA OthersDue ==
    ASSUME NEW v, NEW e
    PROVE  /\ e.kind = "audio" /\ v.audio # None => Reads(v, e) = v
           /\ e.kind = "fatal" => Reads(v, e) = v
  BY DEF Reads

-----------------------------------------------------------------------------
(* What the client registers while answers are on their way: they read as   *)
(* if it had registered it after them.                                      *)

(* A view is what its parts are.                                            *)
LEMMA SameView ==
    ASSUME NEW v \in View, NEW w \in View, v.segments = w.segments, v.accepted = w.accepted,
           v.audio = w.audio, v.cancel = w.cancel, v.misled = w.misled
    PROVE  v = w
  BY DEF View

(* Registering a segment leaves a view sane.                                *)
LEMMA SaneAdds ==
    ASSUME NEW v, Sane(v), NEW i, Fresh(v, i)
    PROVE  /\ Sane(Adds(v, i))
           /\ Adds(v, i).segments = Append(v.segments, [id |-> i, acked |-> FALSE])
           /\ Adds(v, i).accepted = v.accepted /\ Adds(v, i).audio = v.audio
           /\ Adds(v, i).cancel = v.cancel
<1> DEFINE w == Adds(v, i)
           s == v.segments
           t == w.segments
<1>1. /\ v \in View /\ s \in Seq(Segment) /\ ~v.misled /\ Len(s) \in Nat
      /\ DOMAIN s = 1 .. Len(s)
  BY Parts DEF Sane
<1>2. i \in Ids /\ i \notin v.accepted /\ v.cancel = None /\ \A k \in DOMAIN s : s[k].id # i
  BY DEF Fresh, Outstanding
<1>3. [id |-> i, acked |-> FALSE] \in Segment
  BY <1>2 DEF Segment
<1>4. Append(s, [id |-> i, acked |-> FALSE]) \in Seq(Segment)
  BY <1>1, <1>3, AppendProperties
<1>5. /\ w \in View /\ t = Append(s, [id |-> i, acked |-> FALSE]) /\ w.accepted = v.accepted
      /\ w.audio = v.audio /\ w.cancel = v.cancel /\ ~w.misled
  BY <1>1, <1>4 DEF View, Adds
<1> HIDE DEF w, t
<1>6. /\ DOMAIN t = 1 .. Len(s) + 1 /\ t[Len(s) + 1] = [id |-> i, acked |-> FALSE]
      /\ \A k \in 1 .. Len(s) : t[k] = s[k]
  <2>1. /\ t \in Seq(Segment) /\ Len(t) = Len(s) + 1
        /\ t[Len(s) + 1] = [id |-> i, acked |-> FALSE] /\ \A k \in 1 .. Len(s) : t[k] = s[k]
    BY <1>1, <1>3, <1>5, AppendProperties
  <2> QED
    BY <2>1, LenProperties
<1>7. \A k \in DOMAIN t : \/ k = Len(s) + 1 /\ t[k].id = i /\ ~t[k].acked
                          \/ k \in DOMAIN s /\ t[k] = s[k]
  BY <1>1, <1>6
<1>8. \A j, k \in DOMAIN t : t[j].id = t[k].id => j = k
  BY <1>2, <1>7 DEF Sane
<1>9. \A j, k \in DOMAIN t : j < k /\ t[k].acked => t[j].acked
  BY <1>1, <1>7 DEF Sane
<1>10. \A k \in DOMAIN t : t[k].acked <=> t[k].id \in w.accepted
  BY <1>2, <1>5, <1>7 DEF Sane
<1>11. w.audio # None => t # << >> /\ t[1] = [id |-> w.audio, acked |-> TRUE]
  <2> SUFFICES ASSUME w.audio # None PROVE t # << >> /\ t[1] = [id |-> w.audio, acked |-> TRUE]
    OBVIOUS
  <2>1. s # << >> /\ s[1] = [id |-> w.audio, acked |-> TRUE]
    BY <1>5 DEF Sane
  <2>2. 1 \in 1 .. Len(s)
    BY <1>1, <2>1, EmptySeq
  <2>3. t # << >>
    BY <1>1, <1>3, <1>5, AppendProperties
  <2> QED
    BY <1>6, <2>1, <2>2, <2>3
<1>12. Sane(w)
  BY <1>2, <1>5, <1>8, <1>9, <1>10, <1>11 DEF Sane, t
<1> QED
  BY <1>5, <1>12 DEF w, t

(* The segment registered last is not the oldest one that waits.            *)
LEMMA OldestOfAdds ==
    ASSUME NEW v, Sane(v), NEW i, Fresh(v, i), NEW n \in DOMAIN v.segments, Oldest(v, n)
    PROVE  /\ Oldest(Adds(v, i), n) /\ Adds(v, i).segments[n] = v.segments[n]
           /\ v.segments[n].id # i
<1> DEFINE t == Adds(v, i).segments
<1>1. /\ v.segments \in Seq(Segment) /\ [id |-> i, acked |-> FALSE] \in Segment
      /\ t = Append(v.segments, [id |-> i, acked |-> FALSE]) /\ v.segments[n].id # i
  BY Parts, SaneAdds DEF Fresh, Segment, Outstanding
<1> HIDE DEF t
<1>2. /\ Len(v.segments) \in Nat /\ DOMAIN v.segments = 1 .. Len(v.segments)
      /\ DOMAIN t = 1 .. Len(v.segments) + 1
      /\ \A k \in 1 .. Len(v.segments) : t[k] = v.segments[k]
  <2>1. /\ t \in Seq(Segment) /\ Len(t) = Len(v.segments) + 1
        /\ \A k \in 1 .. Len(v.segments) : t[k] = v.segments[k]
    BY <1>1, AppendProperties
  <2> QED
    BY <1>1, <2>1, LenProperties
<1>3. n \in DOMAIN t /\ t[n] = v.segments[n] /\ \A k \in 1 .. n - 1 : t[k] = v.segments[k]
  BY <1>2
<1>4. /\ n \in DOMAIN t /\ ~t[n].acked /\ \A k \in 1 .. n - 1 : t[k].acked
  BY <1>3 DEF Oldest
<1> QED
  BY <1>1, <1>3, <1>4 DEF Oldest, t

(* Registering a segment commutes with reading an answer.                   *)
LEMMA ReadsAdds ==
    ASSUME NEW v, Sane(v), NEW i, Fresh(v, i), NEW e \in Answer, ~Reads(v, e).misled
    PROVE  Reads(Adds(v, i), e) = Adds(Reads(v, e), i) /\ Fresh(Reads(v, e), i)
<1> DEFINE new == [id |-> i, acked |-> FALSE]
           u == Adds(v, i)
           w == Reads(v, e)
           s == v.segments
<1>1. /\ v \in View /\ s \in Seq(Segment) /\ new \in Segment /\ DOMAIN s = 1 .. Len(s)
      /\ Len(s) \in Nat
  BY Parts DEF Sane, Fresh, Segment
<1>2. /\ Sane(u) /\ u.segments = Append(s, new) /\ u.accepted = v.accepted
      /\ u.audio = v.audio /\ u.cancel = v.cancel /\ u \in View /\ ~u.misled
  BY SaneAdds DEF Sane
<1>3. i \in Ids /\ i \notin v.accepted /\ v.cancel = None /\ \A k \in DOMAIN s : s[k].id # i
  BY DEF Fresh, Outstanding
<1>4. Sane(w) /\ w \in View /\ ~w.misled
  BY SaneReads DEF Sane
<1>5. /\ \A k \in 1 .. Len(s) : Append(s, new)[k] = s[k]
      /\ Len(Append(s, new)) = Len(s) + 1 /\ Append(s, new) # << >>
  BY <1>1, AppendProperties
<1> HIDE DEF u, w, s, new
(* What follows from the parts of the view read with the segment.           *)
<1>6. ASSUME NEW r \in Seq(Segment), NEW x \in View,
             w.segments = r, w.cancel = None,
             \A k \in DOMAIN r : r[k].id # i, i \notin w.accepted,
             x.segments = Append(r, new), x.accepted = w.accepted, x.audio = w.audio,
             x.cancel = w.cancel, ~x.misled
      PROVE  x = Adds(w, i) /\ Fresh(w, i)
  <2>1. Fresh(w, i)
    BY <1>3, <1>6 DEF Fresh, Outstanding
  <2>2. /\ Adds(w, i) \in View /\ Adds(w, i).segments = Append(w.segments, new)
        /\ Adds(w, i).accepted = w.accepted /\ Adds(w, i).audio = w.audio
        /\ Adds(w, i).cancel = w.cancel /\ ~Adds(w, i).misled
    BY <1>4, <2>1, SaneAdds, Parts DEF new
  <2>3. x.misled = FALSE /\ Adds(w, i).misled = FALSE
    BY <1>6, <2>2 DEF View
  <2>4. x = Adds(w, i)
    BY <1>6, <2>2, <2>3, SameView
  <2> QED
    BY <2>1, <2>4
<1>7. CASE e.kind \in {"rejected", "error"}
  <2>1. e.id \in Ids /\ e.id # v.cancel
    BY <1>3, <1>7, IdsAssumption DEF Answer
  <2>2. PICK n \in DOMAIN s : /\ Oldest(v, n) /\ s[n].id = e.id
                              /\ w = [v EXCEPT !.segments = RemoveAt(s, n)]
    BY <1>7, <2>1, ReadsRefusal DEF w, s
  <2>3. Oldest(u, n) /\ u.segments[n] = s[n]
    BY <2>2, OldestOfAdds DEF u, s
  <2>4. Reads(u, e) = [u EXCEPT !.segments = RemoveAt(Append(s, new), n)]
    <3>1. e.id = u.segments[n].id /\ e.id # u.cancel
      BY <1>2, <2>1, <2>2, <2>3
    <3>2. Reads(u, e) = [u EXCEPT !.segments = RemoveAt(u.segments, n)]
      BY <1>2, <1>7, <2>3, <3>1, RefusalDue, ZenonT(30)
    <3> QED
      BY <1>2, <3>2
  <2>5. RemoveAt(Append(s, new), n) = Append(RemoveAt(s, n), new)
    BY <1>1, AppendRemoved
  <2> DEFINE r == RemoveAt(s, n)
  <2>6. /\ r \in Seq(Segment) /\ Len(r) = Len(s) - 1
        /\ \A k \in 1 .. Len(s) - 1 : r[k] = IF k < n THEN s[k] ELSE s[k + 1]
    BY <1>1, Removed
  <2>7. \A k \in DOMAIN r : r[k].id # i
    <3>1. DOMAIN r = 1 .. Len(s) - 1
      BY <2>6, LenProperties
    <3> HIDE DEF r
    <3>2. \A k \in DOMAIN r :
             (r[k] = s[k] /\ k \in DOMAIN s) \/ (r[k] = s[k + 1] /\ k + 1 \in DOMAIN s)
      BY <1>1, <2>6, <3>1
    <3> QED
      BY <1>3, <3>2
  <2> DEFINE x == Reads(u, e)
  <2>8. Append(r, new) \in Seq(Segment)
    BY <1>1, <2>6, AppendProperties
  <2> HIDE DEF r
  <2>9. /\ x \in View /\ x.segments = Append(r, new) /\ x.accepted = u.accepted
        /\ x.audio = u.audio /\ x.cancel = u.cancel /\ ~x.misled
    BY <1>2, <2>4, <2>5, <2>8 DEF View, r
  <2>10. w.segments = r /\ w.accepted = v.accepted /\ w.audio = v.audio /\ w.cancel = v.cancel
    BY <1>1, <2>2 DEF View, r
  <2> HIDE DEF x
  <2>11. x = Adds(w, i) /\ Fresh(w, i)
    BY <1>2, <1>3, <1>6, <2>6, <2>7, <2>9, <2>10
  <2> QED
    BY <2>11 DEF u, w, x
<1>8. CASE e.kind = "accepted"
  <2>1. e.id \in Ids /\ e.id \notin v.accepted
    BY <1>8, ReadsAcceptance DEF Answer, w
  <2>2. PICK n \in DOMAIN s : /\ Oldest(v, n) /\ s[n].id = e.id
                              /\ w = [v EXCEPT !.accepted = v.accepted \cup {e.id},
                                               !.segments = Marked(s, n)]
    BY <1>8, ReadsAcceptance DEF w, s
  <2>3. Oldest(u, n) /\ u.segments[n] = s[n]
    BY <2>2, OldestOfAdds DEF u, s
  <2> DEFINE r == Marked(s, n)
             x == Reads(u, e)
  <2>4. x = [u EXCEPT !.accepted = v.accepted \cup {e.id}, !.segments = Append(r, new)]
    <3>1. e.id = u.segments[n].id
      BY <2>2, <2>3
    <3>2. Reads(u, e) = [u EXCEPT !.accepted = u.accepted \cup {e.id},
                                  !.segments = Marked(u.segments, n)]
      BY <1>2, <1>8, <2>3, <3>1, AcceptanceDue, ZenonT(30)
    <3>3. Marked(u.segments, n) = Append(r, new)
      BY <1>1, <1>2, AppendMarked
    <3> QED
      BY <1>2, <3>2, <3>3
  <2>5. /\ r \in Seq(Segment) /\ Len(r) = Len(s)
        /\ \A k \in 1 .. Len(s) : r[k] = IF k = n THEN [id |-> s[n].id, acked |-> TRUE] ELSE s[k]
    BY <1>1, MarkedParts
  <2> HIDE DEF r
  <2>6. \A k \in DOMAIN r : r[k].id # i
    <3>1. DOMAIN r = 1 .. Len(s)
      BY <2>5, LenProperties
    <3> QED
      BY <1>1, <1>3, <2>5, <3>1
  <2>7. Append(r, new) \in Seq(Segment) /\ v.accepted \cup {e.id} \in SUBSET Ids
    BY <1>1, <2>1, <2>5, Parts, AppendProperties
  <2> HIDE DEF x
  <2>8. /\ x \in View /\ x.segments = Append(r, new) /\ x.accepted = v.accepted \cup {e.id}
        /\ x.audio = u.audio /\ x.cancel = u.cancel /\ ~x.misled
    BY <1>2, <2>4, <2>7 DEF View
  <2>9. /\ w.segments = r /\ w.accepted = v.accepted \cup {e.id} /\ w.audio = v.audio
        /\ w.cancel = v.cancel
    BY <1>1, <2>2 DEF View, r
  <2>10. i # e.id
    BY <1>3, <2>2
  <2>11. x = Adds(w, i) /\ Fresh(w, i)
    BY <1>2, <1>3, <1>6, <2>5, <2>6, <2>8, <2>9, <2>10
  <2> QED
    BY <2>11 DEF u, w, x
<1>9. CASE e.kind = "start"
  <2>1. /\ v.audio = None /\ s # << >> /\ s[1] = [id |-> e.id, acked |-> TRUE]
        /\ w = [v EXCEPT !.audio = e.id] /\ e.id \in Ids /\ e.id # None
    BY <1>9, ReadsSpeech, IdsAssumption DEF Answer, w, s
  <2>2. u.segments[1] = s[1] /\ u.segments # << >>
    BY <1>1, <1>2, <1>5, <2>1, EmptySeq
  <2> DEFINE x == Reads(u, e)
  <2>3. x = [u EXCEPT !.audio = e.id]
    <3>1. u.audio = None /\ u.segments # << >> /\ u.segments[1] = [id |-> e.id, acked |-> TRUE]
      BY <1>2, <2>1, <2>2
    <3> QED
      BY <1>2, <1>9, <3>1, StartDue
  <2>4. /\ x \in View /\ x.segments = Append(s, new) /\ x.accepted = u.accepted
        /\ x.audio = e.id /\ x.cancel = u.cancel /\ ~x.misled
    BY <1>2, <2>1, <2>3 DEF View
  <2>5. w.segments = s /\ w.accepted = v.accepted /\ w.audio = e.id /\ w.cancel = v.cancel
    BY <1>1, <2>1 DEF View, s
  <2> HIDE DEF x
  <2>6. x = Adds(w, i) /\ Fresh(w, i)
    BY <1>1, <1>2, <1>3, <1>6, <2>4, <2>5
  <2> QED
    BY <2>6 DEF u, w, x
<1>10. CASE e.kind = "audio"
  <2>1. v.audio # None /\ w = v /\ e.id # None
    BY <1>10, ReadsSpeech, IdsAssumption DEF Answer, w
  <2>2. Reads(u, e) = u
    BY <1>2, <1>10, <2>1, OthersDue
  <2> QED
    BY <2>1, <2>2 DEF u, w
<1>11. CASE e.kind = "fatal"
  BY <1>11 DEF Reads, u, w
<1>12. CASE e.kind = "done"
  <2>1. /\ e.id = v.audio /\ s # << >> /\ e.id # None
        /\ w = [v EXCEPT !.segments = RemoveAt(s, 1), !.audio = None]
    BY <1>12, ReadsSpeech, IdsAssumption DEF Answer, w, s
  <2>2. 1 \in DOMAIN s
    BY <1>1, <2>1, EmptySeq
  <2> DEFINE r == RemoveAt(s, 1)
             x == Reads(u, e)
  <2>3. x = [u EXCEPT !.segments = RemoveAt(Append(s, new), 1), !.audio = None]
    <3>1. Reads(u, e) = [u EXCEPT !.segments = RemoveAt(u.segments, 1), !.audio = None]
      BY <1>2, <1>12, <2>1, DoneDue, ZenonT(30)
    <3> QED
      BY <1>2, <3>1
  <2>4. RemoveAt(Append(s, new), 1) = Append(r, new)
    BY <1>1, <2>2, AppendRemoved
  <2>5. /\ r \in Seq(Segment) /\ Len(r) = Len(s) - 1
        /\ \A k \in 1 .. Len(s) - 1 : r[k] = IF k < 1 THEN s[k] ELSE s[k + 1]
    BY <1>1, <2>2, Removed
  <2>6. \A k \in DOMAIN r : r[k].id # i
    <3>1. DOMAIN r = 1 .. Len(s) - 1
      BY <2>5, LenProperties
    <3> HIDE DEF r
    <3>2. \A k \in DOMAIN r : r[k] = s[k + 1] /\ k + 1 \in DOMAIN s
      BY <1>1, <2>5, <3>1
    <3> QED
      BY <1>3, <3>2
  <2>7. Append(r, new) \in Seq(Segment)
    BY <1>1, <2>5, AppendProperties
  <2> HIDE DEF r
  <2>8. /\ x \in View /\ x.segments = Append(r, new) /\ x.accepted = u.accepted
        /\ x.audio = None /\ x.cancel = u.cancel /\ ~x.misled
    BY <1>2, <2>3, <2>4, <2>7 DEF View
  <2>9. w.segments = r /\ w.accepted = v.accepted /\ w.audio = None /\ w.cancel = v.cancel
    BY <1>1, <2>1 DEF View, r
  <2> HIDE DEF x
  <2>10. x = Adds(w, i) /\ Fresh(w, i)
    BY <1>2, <1>3, <1>6, <2>5, <2>6, <2>8, <2>9
  <2> QED
    BY <2>10 DEF u, w, x
<1>13. CASE e.kind = "cancelled"
  BY <1>3, <1>13, ReadsSpeech, IdsAssumption DEF Answer, w
<1> QED
  BY <1>7, <1>8, <1>9, <1>10, <1>11, <1>12, <1>13 DEF Answer, EventKinds

(* Registering a cancellation commutes with reading an answer.              *)
LEMMA ReadsCancels ==
    ASSUME NEW v, Sane(v), v.cancel = None, NEW i \in v.accepted, NEW e \in Answer,
           ~Reads(v, e).misled
    PROVE  /\ Reads(Cancels(v, i), e) = Cancels(Reads(v, e), i)
           /\ Reads(v, e).cancel = None /\ i \in Reads(v, e).accepted
<1> DEFINE u == Cancels(v, i)
           w == Reads(v, e)
<1>1. /\ v \in View /\ v.segments \in Seq(Segment) /\ i \in Ids /\ i # None /\ ~v.misled
  BY Parts, IdsAssumption DEF Sane
<1>2. /\ u \in View /\ u.segments = v.segments /\ u.accepted = v.accepted
      /\ u.audio = v.audio /\ u.cancel = i /\ ~u.misled
  BY <1>1 DEF View, Cancels
<1>3. Sane(w) /\ w \in View /\ ~w.misled
  BY SaneReads DEF Sane
<1> HIDE DEF u, w
<1>4. Sane(u)
  BY <1>2 DEF Sane
(* What follows from the parts of the view read with the cancellation.      *)
<1>5. ASSUME NEW x \in View, w.cancel = None, i \in w.accepted,
             x.segments = w.segments, x.accepted = w.accepted, x.audio = w.audio,
             x.cancel = i, ~x.misled
      PROVE  x = Cancels(w, i) /\ w.cancel = None /\ i \in w.accepted
  <2>1. /\ Cancels(w, i) \in View /\ Cancels(w, i).segments = w.segments
        /\ Cancels(w, i).accepted = w.accepted /\ Cancels(w, i).audio = w.audio
        /\ Cancels(w, i).cancel = i /\ ~Cancels(w, i).misled
    BY <1>1, <1>3 DEF View, Cancels
  <2>2. x.misled = FALSE /\ Cancels(w, i).misled = FALSE
    BY <1>5, <2>1 DEF View
  <2>3. x = Cancels(w, i)
    BY <1>5, <2>1, <2>2, SameView
  <2> QED
    BY <1>5, <2>3
<1> DEFINE x == Reads(u, e)
<1>6. CASE e.kind \in {"rejected", "error"}
  <2>1. e.id \in Ids /\ e.id # v.cancel
    BY <1>6, IdsAssumption DEF Answer
  <2>2. PICK n \in DOMAIN v.segments :
           /\ Oldest(v, n) /\ v.segments[n].id = e.id
           /\ w = [v EXCEPT !.segments = RemoveAt(v.segments, n)]
    BY <1>6, <2>1, ReadsRefusal DEF w
  <2>3. Oldest(u, n) /\ e.id = u.segments[n].id
    BY <1>2, <2>2 DEF Oldest
  <2>4. e.id # u.cancel
    BY <1>2, <2>2 DEF Oldest, Sane
  <2>5. x = [u EXCEPT !.segments = RemoveAt(u.segments, n)]
    BY <1>4, <1>6, <2>3, <2>4, RefusalDue
  <2>6. RemoveAt(v.segments, n) \in Seq(Segment)
    BY <1>1, Removed
  <2> HIDE DEF x
  <2>7. /\ x \in View /\ x.segments = RemoveAt(v.segments, n) /\ x.accepted = v.accepted
        /\ x.audio = v.audio /\ x.cancel = i /\ ~x.misled
    BY <1>2, <2>5, <2>6 DEF View
  <2>8. /\ w.segments = RemoveAt(v.segments, n) /\ w.accepted = v.accepted
        /\ w.audio = v.audio /\ w.cancel = None
    BY <1>1, <2>2 DEF View
  <2> QED
    BY <1>5, <2>7, <2>8 DEF u, w, x
<1>7. CASE e.kind = "accepted"
  <2>1. e.id \in Ids /\ e.id \notin v.accepted
    BY <1>7, ReadsAcceptance DEF Answer, w
  <2>2. PICK n \in DOMAIN v.segments :
           /\ Oldest(v, n) /\ v.segments[n].id = e.id
           /\ w = [v EXCEPT !.accepted = v.accepted \cup {e.id},
                            !.segments = Marked(v.segments, n)]
    BY <1>7, ReadsAcceptance DEF w
  <2> DEFINE r == Marked(v.segments, n)
  <2>3. Oldest(u, n) /\ e.id = u.segments[n].id
    BY <1>2, <2>2 DEF Oldest
  <2>4. x = [u EXCEPT !.accepted = v.accepted \cup {e.id}, !.segments = r]
    <3>1. x = [u EXCEPT !.accepted = u.accepted \cup {e.id}, !.segments = Marked(u.segments, n)]
      BY <1>4, <1>7, <2>3, AcceptanceDue
    <3> QED
      BY <1>2, <3>1
  <2>5. r \in Seq(Segment) /\ v.accepted \cup {e.id} \in SUBSET Ids
    BY <1>1, <2>1, Parts, MarkedParts
  <2> HIDE DEF x, r
  <2>6. /\ x \in View /\ x.segments = r /\ x.accepted = v.accepted \cup {e.id}
        /\ x.audio = v.audio /\ x.cancel = i /\ ~x.misled
    BY <1>2, <2>4, <2>5 DEF View
  <2>7. /\ w.segments = r /\ w.accepted = v.accepted \cup {e.id}
        /\ w.audio = v.audio /\ w.cancel = None
    BY <1>1, <2>2 DEF View, r
  <2> QED
    BY <1>5, <2>6, <2>7 DEF u, w, x
<1>8. CASE e.kind = "start"
  <2>1. /\ v.audio = None /\ v.segments # << >>
        /\ v.segments[1] = [id |-> e.id, acked |-> TRUE]
        /\ w = [v EXCEPT !.audio = e.id] /\ e.id \in Ids
    <3>1. e.id \in Ids
      BY <1>8 DEF Answer
    <3> QED
      BY <1>8, <3>1, ReadsSpeech DEF w
  <2>2. u.audio = None /\ u.segments # << >> /\ u.segments[1] = [id |-> e.id, acked |-> TRUE]
    BY <1>2, <2>1
  <2>3. x = [u EXCEPT !.audio = e.id]
    BY <1>4, <1>8, <2>2, StartDue
  <2> HIDE DEF x
  <2>4. /\ x \in View /\ x.segments = v.segments /\ x.accepted = v.accepted
        /\ x.audio = e.id /\ x.cancel = i /\ ~x.misled
    BY <1>2, <2>1, <2>3 DEF View
  <2>5. /\ w.segments = v.segments /\ w.accepted = v.accepted
        /\ w.audio = e.id /\ w.cancel = None
    BY <1>1, <2>1 DEF View
  <2> QED
    BY <1>5, <2>4, <2>5 DEF u, w, x
<1>9. CASE e.kind = "audio"
  <2>1. v.audio # None /\ w = v /\ e.id # None
    BY <1>9, ReadsSpeech, IdsAssumption DEF Answer, w
  <2>2. Reads(u, e) = u
    BY <1>2, <1>9, <2>1, OthersDue
  <2> QED
    BY <2>1, <2>2 DEF u, w
<1>10. CASE e.kind = "fatal"
  BY <1>10 DEF Reads, u, w
<1>11. CASE e.kind = "done"
  <2>1. /\ e.id = v.audio /\ v.segments # << >> /\ e.id # None
        /\ w = [v EXCEPT !.segments = RemoveAt(v.segments, 1), !.audio = None]
    BY <1>11, ReadsSpeech, IdsAssumption, ZenonT(30) DEF Answer, w
  <2>2. 1 \in DOMAIN v.segments
    BY <2>1, FirstPlace
  <2>3. x = [u EXCEPT !.segments = RemoveAt(u.segments, 1), !.audio = None]
    <3>1. e.id = u.audio /\ e.id # None
      BY <1>2, <2>1
    <3> QED
      BY <1>4, <1>11, <3>1, DoneDue
  <2>4. RemoveAt(v.segments, 1) \in Seq(Segment)
    BY <1>1, <2>2, Removed
  <2> HIDE DEF x
  <2>5. /\ x \in View /\ x.segments = RemoveAt(v.segments, 1) /\ x.accepted = v.accepted
        /\ x.audio = None /\ x.cancel = i /\ ~x.misled
    BY <1>2, <2>3, <2>4 DEF View
  <2>6. /\ w.segments = RemoveAt(v.segments, 1) /\ w.accepted = v.accepted
        /\ w.audio = None /\ w.cancel = None
    BY <1>1, <2>1 DEF View
  <2> QED
    BY <1>5, <2>5, <2>6 DEF u, w, x
<1>12. CASE e.kind = "cancelled"
  BY <1>12, ReadsSpeech, IdsAssumption DEF Answer, w
<1> QED
  BY <1>6, <1>7, <1>8, <1>9, <1>10, <1>11, <1>12 DEF Answer, EventKinds, u, w

-----------------------------------------------------------------------------
(* Reading all the answers that are on their way.                           *)

(* Reading the answers of q one by one, the client that believes v is never *)
(* misled and comes to believe w.                                           *)
Leads(v, q, w) ==
    \E h : /\ h[0] = v /\ h[Len(q)] = w
           /\ \A n \in 0 .. Len(q) : Sane(h[n])
           /\ \A n \in 1 .. Len(q) : h[n] = Reads(h[n - 1], q[n])

(* Nothing to read.                                                         *)
LEMMA LeadsNowhere ==
    ASSUME NEW v, Sane(v)
    PROVE  Leads(v, << >>, v)
<1> DEFINE h == [n \in {0} |-> v]
<1>1. h[0] = v /\ h[Len(<< >>)] = v
  OBVIOUS
<1>2. \A n \in 0 .. Len(<< >>) : Sane(h[n])
  BY <1>1
<1>3. \A n \in 1 .. Len(<< >>) : h[n] = Reads(h[n - 1], << >>[n])
  OBVIOUS
<1> QED
  BY <1>1, <1>2, <1>3 DEF Leads

(* One more answer is written.                                              *)
LEMMA LeadsOn ==
    ASSUME NEW v, NEW q \in Seq(Answer), NEW w, Leads(v, q, w), NEW e \in Answer,
           ~Reads(w, e).misled
    PROVE  Leads(v, Append(q, e), Reads(w, e)) /\ Append(q, e) \in Seq(Answer)
<1> DEFINE p == Append(q, e)
           x == Reads(w, e)
<1>1. PICK h : /\ h[0] = v /\ h[Len(q)] = w
               /\ \A n \in 0 .. Len(q) : Sane(h[n])
               /\ \A n \in 1 .. Len(q) : h[n] = Reads(h[n - 1], q[n])
  BY DEF Leads
<1>2. /\ p \in Seq(Answer) /\ Len(p) = Len(q) + 1 /\ p[Len(q) + 1] = e
      /\ \A n \in 1 .. Len(q) : p[n] = q[n]
  BY AppendProperties
<1>3. Len(q) \in Nat
  BY LenProperties
<1>4. Sane(x)
  <2>1. Sane(w)
    BY <1>1, <1>3
  <2> QED
    BY <2>1, SaneReads
<1> DEFINE g == [n \in 0 .. Len(q) + 1 |-> IF n = Len(q) + 1 THEN x ELSE h[n]]
<1> HIDE DEF x, p
<1>5. g[0] = v /\ g[Len(q) + 1] = x /\ \A n \in 0 .. Len(q) : g[n] = h[n]
  BY <1>1, <1>3
<1> HIDE DEF g
<1>6. \A n \in 0 .. Len(q) + 1 : Sane(g[n])
  <2> SUFFICES ASSUME NEW n \in 0 .. Len(q) + 1 PROVE Sane(g[n])
    OBVIOUS
  <2>1. n \in 0 .. Len(q) \/ n = Len(q) + 1
    BY <1>3
  <2> QED
    BY <1>1, <1>4, <1>5, <2>1
<1>7. \A n \in 1 .. Len(q) + 1 : g[n] = Reads(g[n - 1], p[n])
  <2> SUFFICES ASSUME NEW n \in 1 .. Len(q) + 1 PROVE g[n] = Reads(g[n - 1], p[n])
    OBVIOUS
  <2>1. CASE n \in 1 .. Len(q)
    <3>1. n \in 0 .. Len(q) /\ n - 1 \in 0 .. Len(q)
      BY <1>3, <2>1
    <3> QED
      BY <1>1, <1>2, <1>5, <2>1, <3>1
  <2>2. CASE n = Len(q) + 1
    <3>1. n - 1 = Len(q) /\ Len(q) \in 0 .. Len(q)
      BY <1>3, <2>2
    <3> QED
      BY <1>1, <1>2, <1>5, <2>2, <3>1 DEF x
  <2> QED
    BY <1>3, <2>1, <2>2
<1>8. Leads(v, p, x)
  BY <1>2, <1>5, <1>6, <1>7 DEF Leads
<1> QED
  BY <1>2, <1>8 DEF p, x

(* The first answer is read.                                                *)
LEMMA LeadsFrom ==
    ASSUME NEW v, NEW q \in Seq(Answer), NEW w, Leads(v, q, w), q # << >>
    PROVE  /\ Leads(Reads(v, Head(q)), Tail(q), w) /\ ~Reads(v, Head(q)).misled
           /\ Tail(q) \in Seq(Answer)
<1>1. PICK h : /\ h[0] = v /\ h[Len(q)] = w
               /\ \A n \in 0 .. Len(q) : Sane(h[n])
               /\ \A n \in 1 .. Len(q) : h[n] = Reads(h[n - 1], q[n])
  BY DEF Leads
<1>2. /\ Len(q) \in Nat \ {0} /\ Head(q) = q[1] /\ Tail(q) \in Seq(Answer)
      /\ Len(Tail(q)) = Len(q) - 1 /\ \A n \in 1 .. Len(q) - 1 : Tail(q)[n] = q[n + 1]
  BY EmptySeq, HeadTailProperties
<1> DEFINE g == [n \in 0 .. Len(q) - 1 |-> h[n + 1]]
<1>3. g[0] = h[1] /\ g[Len(q) - 1] = w
  BY <1>1, <1>2
<1>4. h[1] = Reads(v, Head(q)) /\ Sane(h[1])
  <2>1. 1 \in 1 .. Len(q) /\ 1 \in 0 .. Len(q) /\ 1 - 1 = 0
    BY <1>2
  <2>2. h[1] = Reads(h[1 - 1], q[1])
    BY <1>1, <2>1
  <2> QED
    BY <1>1, <1>2, <2>1, <2>2
<1>5. \A n \in 0 .. Len(q) - 1 : Sane(g[n])
  BY <1>1, <1>2
<1>6. \A n \in 1 .. Len(q) - 1 : g[n] = Reads(g[n - 1], Tail(q)[n])
  <2> SUFFICES ASSUME NEW n \in 1 .. Len(q) - 1 PROVE g[n] = Reads(g[n - 1], Tail(q)[n])
    OBVIOUS
  <2>1. n + 1 \in 1 .. Len(q) /\ (n + 1) - 1 = n /\ n - 1 \in 0 .. Len(q) - 1 /\ (n - 1) + 1 = n
    BY <1>2
  <2>2. g[n] = h[n + 1] /\ g[n - 1] = h[n]
    BY <1>2, <2>1
  <2>3. h[n + 1] = Reads(h[n], q[n + 1])
    BY <1>1, <2>1
  <2> QED
    BY <1>2, <2>2, <2>3
<1> HIDE DEF g
<1>7. Leads(h[1], Tail(q), w)
  BY <1>2, <1>3, <1>5, <1>6 DEF Leads
<1> QED
  BY <1>2, <1>4, <1>7 DEF Sane

(* The views at both ends are sane.                                         *)
LEMMA LeadsSanely ==
    ASSUME NEW v, NEW q \in Seq(Answer), NEW w, Leads(v, q, w)
    PROVE  Sane(v) /\ Sane(w)
<1>1. Len(q) \in Nat
  BY LenProperties
<1> QED
  BY <1>1 DEF Leads

(* A segment is registered while answers are on their way.                  *)
LEMMA LeadsAdds ==
    ASSUME NEW v, NEW q \in Seq(Answer), NEW w, Leads(v, q, w), NEW i, Fresh(v, i)
    PROVE  Leads(Adds(v, i), q, Adds(w, i)) /\ Fresh(w, i)
<1>1. PICK h : /\ h[0] = v /\ h[Len(q)] = w
               /\ \A n \in 0 .. Len(q) : Sane(h[n])
               /\ \A n \in 1 .. Len(q) : h[n] = Reads(h[n - 1], q[n])
  BY DEF Leads
<1>2. Len(q) \in Nat
  BY LenProperties
<1> DEFINE T == {n \in Nat : n \in 0 .. Len(q) => Fresh(h[n], i)}
<1>3. ASSUME NEW n \in 1 .. Len(q), Fresh(h[n - 1], i)
      PROVE  Reads(Adds(h[n - 1], i), q[n]) = Adds(h[n], i) /\ Fresh(h[n], i)
  <2>1. /\ n - 1 \in 0 .. Len(q) /\ n \in 0 .. Len(q) /\ q[n] \in Answer
        /\ h[n] = Reads(h[n - 1], q[n])
    BY <1>1, <1>2, ElementOfSeq
  <2>2. Sane(h[n - 1]) /\ ~Reads(h[n - 1], q[n]).misled
    BY <1>1, <2>1 DEF Sane
  <2> QED
    BY <1>3, <2>1, <2>2, ReadsAdds
<1>4. 0 \in T
  BY <1>1
<1>5. \A n \in Nat : n \in T => n + 1 \in T
  <2> SUFFICES ASSUME NEW n \in Nat, n \in T, n + 1 \in 0 .. Len(q) PROVE Fresh(h[n + 1], i)
    OBVIOUS
  <2>1. n + 1 \in 1 .. Len(q) /\ n \in 0 .. Len(q) /\ (n + 1) - 1 = n
    BY <1>2
  <2> QED
    BY <1>3, <2>1
<1> HIDE DEF T
<1>6. Nat \subseteq T
  BY <1>4, <1>5, SetInduction
<1>7. \A n \in 0 .. Len(q) : Fresh(h[n], i)
  BY <1>6 DEF T
<1> DEFINE g == [n \in 0 .. Len(q) |-> Adds(h[n], i)]
<1>8. g[0] = Adds(v, i) /\ g[Len(q)] = Adds(w, i)
  BY <1>1, <1>2
<1>9. \A n \in 0 .. Len(q) : Sane(g[n])
  BY <1>1, <1>7, SaneAdds
<1>10. \A n \in 1 .. Len(q) : g[n] = Reads(g[n - 1], q[n])
  <2> SUFFICES ASSUME NEW n \in 1 .. Len(q) PROVE g[n] = Reads(g[n - 1], q[n])
    OBVIOUS
  <2>1. n - 1 \in 0 .. Len(q) /\ n \in 0 .. Len(q)
    BY <1>2
  <2> QED
    BY <1>3, <1>7, <2>1
<1> HIDE DEF g
<1>11. Leads(Adds(v, i), q, Adds(w, i))
  BY <1>8, <1>9, <1>10 DEF Leads
<1> QED
  BY <1>1, <1>2, <1>7, <1>11

(* A cancellation is registered while answers are on their way.             *)
LEMMA LeadsCancels ==
    ASSUME NEW v, NEW q \in Seq(Answer), NEW w, Leads(v, q, w), v.cancel = None,
           NEW i \in v.accepted
    PROVE  Leads(Cancels(v, i), q, Cancels(w, i)) /\ w.cancel = None /\ i \in w.accepted
<1>1. PICK h : /\ h[0] = v /\ h[Len(q)] = w
               /\ \A n \in 0 .. Len(q) : Sane(h[n])
               /\ \A n \in 1 .. Len(q) : h[n] = Reads(h[n - 1], q[n])
  BY DEF Leads
<1>2. Len(q) \in Nat
  BY LenProperties
<1> DEFINE Able(n) == h[n].cancel = None /\ i \in h[n].accepted
           T == {n \in Nat : n \in 0 .. Len(q) => Able(n)}
<1>3. ASSUME NEW n \in 1 .. Len(q), Able(n - 1)
      PROVE  Reads(Cancels(h[n - 1], i), q[n]) = Cancels(h[n], i) /\ Able(n)
  <2>1. /\ n - 1 \in 0 .. Len(q) /\ n \in 0 .. Len(q) /\ q[n] \in Answer
        /\ h[n] = Reads(h[n - 1], q[n])
    BY <1>1, <1>2, ElementOfSeq
  <2>2. Sane(h[n - 1]) /\ ~Reads(h[n - 1], q[n]).misled
    BY <1>1, <2>1 DEF Sane
  <2> QED
    BY <1>3, <2>1, <2>2, ReadsCancels
<1>4. 0 \in T
  BY <1>1
<1> HIDE DEF Able
<1>5. \A n \in Nat : n \in T => n + 1 \in T
  <2> SUFFICES ASSUME NEW n \in Nat, n \in T, n + 1 \in 0 .. Len(q) PROVE Able(n + 1)
    OBVIOUS
  <2>1. n + 1 \in 1 .. Len(q) /\ n \in 0 .. Len(q) /\ (n + 1) - 1 = n
    BY <1>2
  <2> QED
    BY <1>3, <2>1
<1> HIDE DEF T
<1>6. Nat \subseteq T
  BY <1>4, <1>5, SetInduction
<1>7. \A n \in 0 .. Len(q) : Able(n)
  BY <1>6 DEF T
<1> DEFINE g == [n \in 0 .. Len(q) |-> Cancels(h[n], i)]
<1>8. g[0] = Cancels(v, i) /\ g[Len(q)] = Cancels(w, i)
  BY <1>1, <1>2
<1>9. \A n \in 0 .. Len(q) : Sane(g[n])
  <2> SUFFICES ASSUME NEW n \in 0 .. Len(q) PROVE Sane(Cancels(h[n], i))
    OBVIOUS
  <2>1. Sane(h[n]) /\ i \in h[n].accepted
    BY <1>1, <1>7 DEF Able
  <2> DEFINE x == Cancels(h[n], i)
  <2>2. /\ x \in View /\ x.segments = h[n].segments /\ x.accepted = h[n].accepted
        /\ x.audio = h[n].audio /\ x.cancel = i /\ ~x.misled
    BY <2>1, Parts DEF View, Cancels
  <2> HIDE DEF x
  <2>3. Sane(x)
    BY <2>1, <2>2 DEF Sane
  <2> QED
    BY <2>3 DEF x
<1>10. \A n \in 1 .. Len(q) : g[n] = Reads(g[n - 1], q[n])
  <2> SUFFICES ASSUME NEW n \in 1 .. Len(q) PROVE g[n] = Reads(g[n - 1], q[n])
    OBVIOUS
  <2>1. n - 1 \in 0 .. Len(q) /\ n \in 0 .. Len(q)
    BY <1>2
  <2> QED
    BY <1>3, <1>7, <2>1
<1> HIDE DEF g
<1>11. Leads(Cancels(v, i), q, Cancels(w, i))
  BY <1>8, <1>9, <1>10 DEF Leads
<1> QED
  BY <1>1, <1>2, <1>7, <1>11 DEF Able

-----------------------------------------------------------------------------
(* What the server has yet to answer.                                       *)

(* No message, or one.                                                      *)
Slip(m) == IF m = NoMessage THEN << >> ELSE <<m>>

(* The message handled, those received behind it, the one about to be sent. *)
Unanswered == Slip(message) \o inbox \o Slip(holding)

MessagesOK ==
    /\ message \in Messages \cup {NoMessage} /\ holding \in Messages \cup {NoMessage}
    /\ inbox \in Seq(Messages)

(* No message is not a message.                                             *)
LEMMA NoMessageApart == NoMessage \notin Messages
<1>1. NoMessage.kind = "none"
  BY DEF NoMessage
<1> QED
  BY <1>1, MessageParts

(* A slip holds messages.                                                   *)
LEMMA SlipType == \A m \in Messages \cup {NoMessage} : Slip(m) \in Seq(Messages)
<1> SUFFICES ASSUME NEW m \in Messages \cup {NoMessage} PROVE Slip(m) \in Seq(Messages)
  OBVIOUS
<1>1. << >> \in Seq(Messages) /\ (m \in Messages => <<m>> \in Seq(Messages))
  OBVIOUS
<1> QED
  BY <1>1 DEF Slip

(* What is unanswered is messages.                                          *)
LEMMA UnansweredType == MessagesOK => Unanswered \in Seq(Messages)
  BY SlipType, ConcatProperties DEF MessagesOK, Unanswered

(* The message handled is the oldest; once answered, the rest is left.      *)
LEMMA Answered ==
    ASSUME MessagesOK, message # NoMessage
    PROVE  /\ Unanswered # << >> /\ Unanswered[1] = message /\ Len(Unanswered) \in Nat \ {0}
           /\ (message' = NoMessage /\ UNCHANGED <<inbox, holding>>
                  => Unanswered' = Tail(Unanswered))
<1> DEFINE rest == inbox \o Slip(holding)
<1>1. rest \in Seq(Messages) /\ message \in Messages /\ <<message>> \in Seq(Messages)
  BY SlipType, ConcatProperties DEF MessagesOK
<1>2. Unanswered = <<message>> \o rest
  BY <1>1, SlipType, ConcatAssociative DEF MessagesOK, Unanswered, Slip
<1> HIDE DEF rest
<1>3. /\ Len(<<message>> \o rest) = 1 + Len(rest) /\ Len(rest) \in Nat
      /\ (<<message>> \o rest)[1] = message
      /\ <<message>> \o rest # << >> /\ Tail(<<message>> \o rest) = rest
  BY <1>1
<1>4. ASSUME message' = NoMessage, UNCHANGED <<inbox, holding>> PROVE Unanswered' = rest
  <2>1. << >> \o inbox = inbox
    BY ConcatEmptySeq DEF MessagesOK
  <2> QED
    BY <1>4, <2>1 DEF Unanswered, Slip, rest
<1> QED
  BY <1>2, <1>3, <1>4

(* Taking a message to handle changes nothing.                              *)
LEMMA TakenUp ==
    ASSUME MessagesOK, message = NoMessage, inbox # << >>, message' = Head(inbox),
           inbox' = Tail(inbox), holding' = holding
    PROVE  Unanswered' = Unanswered
<1>1. Head(inbox) \in Messages /\ <<Head(inbox)>> \o Tail(inbox) = inbox /\ << >> \o inbox = inbox
  BY DEF MessagesOK
<1>2. Slip(message) = << >> /\ Slip(message') = <<Head(inbox)>>
  BY <1>1, NoMessageApart DEF Slip
<1>3. Slip(holding)' = Slip(holding)
  BY DEF Slip
<1> QED
  BY <1>1, <1>2, <1>3 DEF Unanswered

(* Nor does sending one.                                                    *)
LEMMA SentOff ==
    ASSUME MessagesOK, holding # NoMessage, holding' = NoMessage,
           inbox' = Append(inbox, holding), message' = message
    PROVE  Unanswered' = Unanswered
<1> DEFINE m == Slip(message)
<1>1. m \in Seq(Messages) /\ inbox \in Seq(Messages) /\ holding \in Messages
      /\ <<holding>> \in Seq(Messages)
  BY SlipType DEF MessagesOK
<1>2. inbox \o <<holding>> = Append(inbox, holding) /\ Append(inbox, holding) \in Seq(Messages)
  BY <1>1, AppendIsConcat, AppendProperties
<1>3. Unanswered = (m \o inbox) \o <<holding>>
  BY DEF Unanswered, Slip
<1>4. Unanswered' = (m \o Append(inbox, holding)) \o << >>
  BY DEF Unanswered, Slip
<1> HIDE DEF m
<1>5. (m \o inbox) \o <<holding>> = m \o Append(inbox, holding)
  <2>1. (m \o inbox) \o <<holding>> = m \o (inbox \o <<holding>>)
    BY <1>1, ConcatAssociative
  <2> QED
    BY <1>2, <2>1
<1>6. (m \o Append(inbox, holding)) \o << >> = m \o Append(inbox, holding)
  BY <1>1, <1>2, ConcatProperties, ConcatEmptySeq
<1> QED
  BY <1>3, <1>4, <1>5, <1>6

(* A message registered to be sent comes last.                              *)
LEMMA Registered ==
    ASSUME MessagesOK, holding = NoMessage, NEW m \in Messages, holding' = m,
           UNCHANGED <<inbox, message>>
    PROVE  Unanswered' = Append(Unanswered, m)
<1> DEFINE q == Slip(message) \o inbox
<1>1. q \in Seq(Messages)
  BY SlipType, ConcatProperties DEF MessagesOK
<1>2. Unanswered = q \o << >>
  BY DEF Unanswered, Slip
<1>3. Unanswered' = q \o <<m>>
  BY NoMessageApart DEF Unanswered, Slip
<1> HIDE DEF q
<1>4. q \o << >> = q /\ q \o <<m>> = Append(q, m)
  BY <1>1, ConcatEmptySeq, AppendIsConcat
<1> QED
  BY <1>2, <1>3, <1>4

-----------------------------------------------------------------------------
(* Reading the answers on their way with a fold.                            *)

(* The recursion of FoldLeft over the places of a sequence.                 *)
Folds(v, q, D, f) ==
    f = [s \in SUBSET D |-> IF s = {} THEN v ELSE Reads(f[s \ {Max(s)}], q[Max(s)])]

(* The last of the first n + 1 places.                                      *)
LEMMA LastPlace ==
    ASSUME NEW n \in Nat, NEW s \in SUBSET (1 .. n + 1), n + 1 \in s
    PROVE  Max(s) = n + 1 /\ s \ {n + 1} \in SUBSET (1 .. n)
<1>1. Max(s) \in s /\ \A y \in s : Max(s) >= y
  <2>1. n + 1 \in s /\ \A y \in s : n + 1 >= y
    OBVIOUS
  <2> QED
    BY <2>1 DEF Max
<1>2. Max(s) = n + 1
  <2> DEFINE m == Max(s)
  <2>1. m \in s /\ m >= n + 1
    BY <1>1
  <2> HIDE DEF m
  <2>2. m \in 1 .. n + 1
    BY <2>1
  <2>3. m = n + 1
    BY <2>1, <2>2
  <2> QED
    BY <2>3 DEF m
<1>3. \A y \in s \ {n + 1} : y \in 1 .. n
  OBVIOUS
<1> QED
  BY <1>2, <1>3

(* The recursion has a solution.                                            *)
LEMMA FoldExists ==
    ASSUME NEW v, NEW q
    PROVE  \A n \in Nat : \E f : Folds(v, q, 1 .. n, f)
<1> DEFINE T == {n \in Nat : \E f : Folds(v, q, 1 .. n, f)}
<1>1. 0 \in T
  <2> DEFINE f == [s \in SUBSET (1 .. 0) |-> v]
  <2>1. f = [s \in SUBSET (1 .. 0) |->
                IF s = {} THEN v ELSE Reads(f[s \ {Max(s)}], q[Max(s)])]
    <3>1. \A s \in SUBSET (1 .. 0) : s = {}
      OBVIOUS
    <3> QED
      BY <3>1
  <2> QED
    BY <2>1 DEF Folds
<1>2. ASSUME NEW n \in Nat, n \in T PROVE n + 1 \in T
  <2>1. PICK f : Folds(v, q, 1 .. n, f)
    BY <1>2
  <2>2. f = [s \in SUBSET (1 .. n) |->
                IF s = {} THEN v ELSE Reads(f[s \ {Max(s)}], q[Max(s)])]
    BY <2>1 DEF Folds
  <2> DEFINE g == [s \in SUBSET (1 .. n + 1) |->
                      IF n + 1 \in s THEN Reads(f[s \ {n + 1}], q[n + 1]) ELSE f[s]]
  <2>3. ASSUME NEW s \in SUBSET (1 .. n)
        PROVE  /\ g[s] = f[s]
               /\ f[s] = IF s = {} THEN v ELSE Reads(f[s \ {Max(s)}], q[Max(s)])
    <3>1. s \in SUBSET (1 .. n + 1) /\ n + 1 \notin s
      OBVIOUS
    <3>2. f[s] = IF s = {} THEN v ELSE Reads(f[s \ {Max(s)}], q[Max(s)])
      BY <2>2
    <3> QED
      BY <3>1, <3>2
  <2>4. ASSUME NEW s \in SUBSET (1 .. n + 1)
        PROVE  g[s] = IF s = {} THEN v ELSE Reads(g[s \ {Max(s)}], q[Max(s)])
    <3>1. CASE n + 1 \in s
      <4>1. Max(s) = n + 1 /\ s \ {n + 1} \in SUBSET (1 .. n)
        BY <3>1, LastPlace
      <4>2. g[s] = Reads(f[s \ {n + 1}], q[n + 1])
        BY <3>1
      <4>3. g[s \ {n + 1}] = f[s \ {n + 1}]
        BY <2>3, <4>1
      <4> HIDE DEF g
      <4> QED
        BY <3>1, <4>1, <4>2, <4>3
    <3>2. CASE n + 1 \notin s
      <4>1. s \in SUBSET (1 .. n) /\ s \ {Max(s)} \in SUBSET (1 .. n)
        <5>1. \A y \in s : y \in 1 .. n
          BY <3>2
        <5> QED
          BY <5>1
      <4>2. g[s] = f[s] /\ g[s \ {Max(s)}] = f[s \ {Max(s)}]
        BY <2>3, <4>1
      <4>3. f[s] = IF s = {} THEN v ELSE Reads(f[s \ {Max(s)}], q[Max(s)])
        BY <2>3, <4>1
      <4> HIDE DEF g
      <4> QED
        BY <4>2, <4>3
    <3> QED
      BY <3>1, <3>2
  <2>5. g = [s \in SUBSET (1 .. n + 1) |->
                IF s = {} THEN v ELSE Reads(g[s \ {Max(s)}], q[Max(s)])]
    <3> DEFINE r == [s \in SUBSET (1 .. n + 1) |->
                IF s = {} THEN v ELSE Reads(g[s \ {Max(s)}], q[Max(s)])]
    <3>1. DOMAIN g = DOMAIN r /\ g = [s \in DOMAIN g |-> g[s]] /\ r = [s \in DOMAIN r |-> r[s]]
      OBVIOUS
    <3>2. \A s \in DOMAIN g : g[s] = r[s]
      <4>1. \A s \in SUBSET (1 .. n + 1) :
               r[s] = IF s = {} THEN v ELSE Reads(g[s \ {Max(s)}], q[Max(s)])
        <5> HIDE DEF g
        <5> QED
          OBVIOUS
      <4>2. DOMAIN g = SUBSET (1 .. n + 1)
        OBVIOUS
      <4> HIDE DEF g, r
      <4> QED
        BY <2>4, <4>1, <4>2
    <3> HIDE DEF g, r
    <3>3. g = r
      BY <3>1, <3>2
    <3> QED
      BY <3>3 DEF r
  <2> HIDE DEF g
  <2>6. \E k : Folds(v, q, 1 .. n + 1, k)
    BY <2>5 DEF Folds
  <2> QED
    BY <2>6
<1> HIDE DEF T
<1>3. Nat \subseteq T
  BY <1>1, <1>2, SetInduction
<1> QED
  BY <1>3 DEF T

(* Its solutions agree on what reading the answers one by one leads to.     *)
LEMMA FoldValue ==
    ASSUME NEW v, NEW q \in Seq(Answer), NEW w, Leads(v, q, w),
           NEW f, Folds(v, q, 1 .. Len(q), f)
    PROVE  f[1 .. Len(q)] = w
<1>1. PICK h : /\ h[0] = v /\ h[Len(q)] = w
               /\ \A n \in 1 .. Len(q) : h[n] = Reads(h[n - 1], q[n])
  BY DEF Leads
<1>2. Len(q) \in Nat
  OBVIOUS
<1>3. \A s \in SUBSET (1 .. Len(q)) :
         f[s] = IF s = {} THEN v ELSE Reads(f[s \ {Max(s)}], q[Max(s)])
  <2>1. f = [s \in SUBSET (1 .. Len(q)) |->
                IF s = {} THEN v ELSE Reads(f[s \ {Max(s)}], q[Max(s)])]
    BY DEF Folds
  <2> QED
    BY <2>1
<1> DEFINE T == {n \in Nat : n <= Len(q) => f[1 .. n] = h[n]}
<1>4. 0 \in T
  <2>1. 1 .. 0 = {} /\ 1 .. 0 \in SUBSET (1 .. Len(q))
    BY <1>2
  <2> QED
    BY <1>1, <1>3, <2>1
<1>5. ASSUME NEW n \in Nat, n \in T PROVE n + 1 \in T
  <2> SUFFICES ASSUME n + 1 <= Len(q) PROVE f[1 .. n + 1] = h[n + 1]
    OBVIOUS
  <2>1. /\ n + 1 \in 1 .. n + 1 /\ 1 .. n + 1 \in SUBSET (1 .. Len(q))
        /\ (1 .. n + 1) \ {n + 1} = 1 .. n /\ 1 .. n + 1 # {}
    BY <1>2
  <2>2. Max(1 .. n + 1) = n + 1
    BY <2>1, LastPlace
  <2>3. f[1 .. n + 1] = Reads(f[1 .. n], q[n + 1])
    BY <1>3, <2>1, <2>2
  <2>4. f[1 .. n] = h[n]
    BY <1>2, <1>5
  <2>5. n + 1 \in 1 .. Len(q) /\ (n + 1) - 1 = n
    BY <1>2
  <2> QED
    BY <1>1, <2>3, <2>4, <2>5
<1> HIDE DEF T
<1>6. Len(q) \in T
  BY <1>2, <1>4, <1>5, SetInduction
<1> QED
  BY <1>1, <1>2, <1>6 DEF T

(* The fold over the answers is what reading them one by one leads to.      *)
LEMMA FoldedLeads ==
    ASSUME NEW v, NEW q \in Seq(Answer), NEW w, Leads(v, q, w)
    PROVE  FoldLeft(Reads, v, q) = w
<1>1. DOMAIN q = 1 .. Len(q) /\ Len(q) \in Nat
  OBVIOUS
<1>2. \E f : Folds(v, q, DOMAIN q, f)
  BY <1>1, FoldExists
<1> DEFINE iter == CHOOSE f : Folds(v, q, DOMAIN q, f)
<1>3. Folds(v, q, DOMAIN q, iter)
  BY <1>2
<1>4. FoldLeft(Reads, v, q) = iter[DOMAIN q]
  BY DEF FoldLeft, MapThenFoldSet, Folds
<1> HIDE DEF iter
<1> QED
  BY <1>1, <1>3, <1>4, FoldValue

-----------------------------------------------------------------------------
(* What a client that read all answers believes of the server.              *)

(* The accepted segments not yet ended, while nothing is cancelled.         *)
Ahead == IF active = None THEN << >> ELSE <<active>> \o pending

(* The first acks of its segments are acknowledged.                         *)
Prefix(w, acks) ==
    /\ acks \in 0 .. Len(w.segments)
    /\ \A k \in DOMAIN w.segments : w.segments[k].acked <=> k <= acks

(* The message of a segment: one that is too large no longer shows whose.   *)
Speaks(m, i) == (m.kind = "segment" /\ m.id = i) \/ (m = JunkMessage /\ i \in Oversized)

(* A segment too large for a message waits for its answer.                  *)
Waits(w) ==
    \E k \in DOMAIN w.segments : ~w.segments[k].acked /\ w.segments[k].id \in Oversized

(* Its other segments, and the cancellation it asked for, are what the      *)
(* receiver has yet to answer, in this order.                               *)
Backlog(w, acks) ==
    receiver # "done" =>
        /\ w.accepted = acceptedIds
        /\ \A k \in 1 .. Len(w.segments) - acks :
              k \in 1 .. Len(Unanswered) /\ Speaks(Unanswered[k], w.segments[acks + k].id)
        /\ w.cancel = None => Len(Unanswered) = Len(w.segments) - acks
        /\ w.cancel # None =>
              \/ Len(Unanswered) = 0 /\ Len(w.segments) = acks
              \/ /\ Len(Unanswered) = Len(w.segments) - acks + 1
                 /\ Unanswered[Len(Unanswered)] = CancelMessage(w.cancel)

(* The acknowledged ones are those the server works on.                     *)
Queue(w, acks) ==
    ~stopping /\ ~cancelled =>
        acks = Len(Ahead) /\ \A k \in 1 .. acks : w.segments[k].id = Ahead[k]

(* The one spoken, and the one about to be spoken.                          *)
Voice(w) ==
    /\ w.audio = IF started THEN active ELSE None
    /\ worker = "start" => w.segments # << >> /\ w.segments[1] = [id |-> active, acked |-> TRUE]

(* A cancellation is carried out only if the client still waits for it.     *)
Cancelling == (cancelled /\ ~stopping) \/ (worker = "end" /\ ending = "cancelled")
Mercy(w)   == Cancelling => w.cancel = active /\ (receiver # "done" => Unanswered = << >>)

Agrees(w) ==
    /\ Voice(w) /\ Mercy(w)
    /\ \E acks \in Nat : Prefix(w, acks) /\ Backlog(w, acks) /\ Queue(w, acks)

(* The receiver has a message only while it handles one.                    *)
Idling == receiver \in {"receive", "done"} => message = NoMessage

(* The answers on their way bring the client's view up to the server's.     *)
InStep == outbox \in Seq(Answer) /\ \E w : Leads(view, outbox, w) /\ Agrees(w)

(* Or, behind those of p, there is one that names no segment, and the       *)
(* segment it is about will still be among those the client waits for.      *)
Spoilt ==
    /\ outbox \in Seq(Event)
    /\ \E p, w :
          /\ p \in Seq(Answer) /\ Len(p) < Len(outbox)
          /\ \A n \in 1 .. Len(p) : outbox[n] = p[n]
          /\ outbox[Len(p) + 1] = Uncorrelated
          /\ Leads(view, p, w) /\ Waits(w)

SessionInv ==
    /\ Inv /\ MessagesOK /\ Idling /\ link # "misled"
    /\ link = "uncorrelated" => Waits(view)
    /\ link = "up" => connected /\ (InStep \/ Spoilt)

(* Steps that change little of what the client believes in.                 *)
LEMMA AgreesKept ==
    ASSUME NEW w, Sane(w), Agrees(w),
           UNCHANGED <<active, started>>,
           receiver' # "done" => receiver # "done" /\ UNCHANGED <<acceptedIds, Unanswered>>,
           ~stopping' /\ ~cancelled' => ~stopping /\ ~cancelled /\ UNCHANGED pending,
           worker' = "start" => worker = "start" \/ (active # None /\ ~stopping /\ ~cancelled),
           Cancelling' => Cancelling,
           active # None => active \in Ids /\ pending \in Seq(Ids)
    PROVE  Agrees(w)'
<1>1. PICK acks \in Nat : Prefix(w, acks) /\ Backlog(w, acks) /\ Queue(w, acks)
  BY DEF Agrees
<1>2. Prefix(w, acks)'
  BY <1>1 DEF Prefix
<1>3. Backlog(w, acks)'
  BY <1>1 DEF Backlog
<1>4. Queue(w, acks)'
  BY <1>1 DEF Queue, Ahead
<1>5. Mercy(w)'
  BY DEF Agrees, Mercy
<1>6. ASSUME active # None, ~stopping, ~cancelled
      PROVE  w.segments # << >> /\ w.segments[1] = [id |-> active, acked |-> TRUE]
  <2>1. acks = Len(Ahead) /\ \A k \in 1 .. acks : w.segments[k].id = Ahead[k]
    BY <1>1, <1>6 DEF Queue
  <2>2. Ahead = <<active>> \o pending /\ Len(Ahead) \in Nat \ {0} /\ Ahead[1] = active
    BY <1>6 DEF Ahead
  <2>3. /\ 1 \in DOMAIN w.segments /\ w.segments \in Seq(Segment) /\ w.segments[1] \in Segment
        /\ w.segments[1].acked /\ w.segments[1].id = active
    <3>1. 1 \in 1 .. acks /\ acks \in 0 .. Len(w.segments)
      BY <1>1, <2>1, <2>2 DEF Prefix
    <3>2. /\ w.segments \in Seq(Segment) /\ Len(w.segments) \in Nat
          /\ DOMAIN w.segments = 1 .. Len(w.segments)
      BY Parts
    <3>3. 1 \in 1 .. Len(w.segments) /\ w.segments[1] \in Segment
      BY <3>1, <3>2, ElementOfSeq
    <3> QED
      BY <1>1, <2>1, <2>2, <3>1, <3>2, <3>3 DEF Prefix
  <2>4. w.segments # << >>
    BY <2>3
  <2> QED
    BY <2>3, <2>4 DEF Segment
<1>7. Voice(w)'
  BY <1>6 DEF Agrees, Voice
<1> QED
  BY <1>2, <1>3, <1>4, <1>5, <1>7 DEF Agrees

-----------------------------------------------------------------------------
(* What the answers make of such a view.                                    *)

(* The message handled is the oldest segment not acknowledged, or the       *)
(* cancellation, once no such segment is left.                              *)
LEMMA HandledKind ==
    ASSUME Inv, MessagesOK, receiver \in {"lock", "ack", "error"}, NEW w, Sane(w), NEW acks \in Nat,
           Prefix(w, acks), Backlog(w, acks)
    PROVE  \/ /\ acks + 1 \in DOMAIN w.segments
              /\ Speaks(message, w.segments[acks + 1].id)
           \/ /\ Len(w.segments) = acks /\ w.cancel # None /\ message = CancelMessage(w.cancel)
              /\ Len(Unanswered) = 1
<1>1. message # NoMessage
  BY NoMessageApart DEF Inv, Handled
<1>2. Unanswered[1] = message /\ Len(Unanswered) \in Nat \ {0}
  BY <1>1, Answered
<1>3. /\ Len(w.segments) \in Nat /\ DOMAIN w.segments = 1 .. Len(w.segments)
      /\ acks \in 0 .. Len(w.segments)
  BY Parts DEF Prefix
<1>4. CASE acks < Len(w.segments)
  <2>1. 1 \in 1 .. Len(w.segments) - acks /\ acks + 1 \in DOMAIN w.segments
    BY <1>3, <1>4
  <2> QED
    BY <1>2, <2>1 DEF Backlog
<1>5. CASE acks = Len(w.segments)
  <2>1. w.cancel # None /\ Len(Unanswered) = 1 /\ Unanswered[1] = CancelMessage(w.cancel)
    BY <1>2, <1>3, <1>5 DEF Backlog
  <2> QED
    BY <1>2, <1>5, <2>1
<1> QED
  BY <1>3, <1>4, <1>5

(* The oldest segment not acknowledged.                                     *)
LEMMA NextInPrefix ==
    ASSUME NEW w, Sane(w), NEW acks \in Nat, Prefix(w, acks), acks + 1 \in DOMAIN w.segments
    PROVE  Oldest(w, acks + 1)
<1>1. /\ Len(w.segments) \in Nat /\ DOMAIN w.segments = 1 .. Len(w.segments)
      /\ \A k \in DOMAIN w.segments : w.segments[k].acked <=> k <= acks
  BY Parts DEF Prefix
<1>2. ~(acks + 1 <= acks) /\ \A k \in 1 .. (acks + 1) - 1 : k \in DOMAIN w.segments /\ k <= acks
  BY <1>1
<1> QED
  BY <1>1, <1>2 DEF Oldest

(* It is acknowledged.                                                      *)
LEMMA AfterAcceptance ==
    ASSUME NEW w, Sane(w), NEW acks \in Nat, Prefix(w, acks), acks + 1 \in DOMAIN w.segments,
           NEW e, e.kind = "accepted", e.id = w.segments[acks + 1].id
    PROVE  /\ ~Reads(w, e).misled
           /\ Reads(w, e).accepted = w.accepted \cup {e.id} /\ Reads(w, e).audio = w.audio
           /\ Reads(w, e).cancel = w.cancel /\ Len(Reads(w, e).segments) = Len(w.segments)
           /\ \A k \in 1 .. Len(w.segments) : Reads(w, e).segments[k].id = w.segments[k].id
           /\ Prefix(Reads(w, e), acks + 1)
           /\ acks >= 1 => Reads(w, e).segments[1] = w.segments[1]
<1> DEFINE x == Reads(w, e)
           t == Marked(w.segments, acks + 1)
<1>1. /\ w \in View /\ w.segments \in Seq(Segment) /\ w.accepted \in SUBSET Ids /\ ~w.misled
      /\ Len(w.segments) \in Nat /\ DOMAIN w.segments = 1 .. Len(w.segments)
      /\ w.segments[acks + 1].id \in Ids
  BY Parts
<1>2. x = [w EXCEPT !.accepted = w.accepted \cup {e.id}, !.segments = t]
  BY NextInPrefix, AcceptanceDue
<1>3. /\ t \in Seq(Segment) /\ Len(t) = Len(w.segments)
      /\ \A k \in 1 .. Len(w.segments) :
            t[k] = IF k = acks + 1 THEN [id |-> w.segments[acks + 1].id, acked |-> TRUE]
                   ELSE w.segments[k]
  BY <1>1, MarkedParts
<1> HIDE DEF x, t
<1>4. /\ x.segments = t /\ x.accepted = w.accepted \cup {e.id} /\ x.audio = w.audio
      /\ x.cancel = w.cancel /\ ~x.misled
  BY <1>1, <1>2 DEF View
<1>5. DOMAIN t = 1 .. Len(w.segments)
  BY <1>3, LenProperties
<1>6. \A k \in DOMAIN t : /\ t[k].id = w.segments[k].id
                          /\ t[k].acked <=> k = acks + 1 \/ w.segments[k].acked
  BY <1>3, <1>5
<1>7. acks + 1 \in 0 .. Len(t) /\ \A k \in DOMAIN t : t[k].acked <=> k <= acks + 1
  <2>1. ASSUME NEW k \in DOMAIN t PROVE t[k].acked <=> k <= acks + 1
    <3>1. w.segments[k].acked <=> k <= acks
      BY <1>1, <1>5 DEF Prefix
    <3> QED
      BY <1>1, <1>5, <1>6, <3>1
  <2> QED
    BY <1>1, <1>3, <2>1
<1>8. Prefix(x, acks + 1)
  BY <1>4, <1>7 DEF Prefix
<1>9. acks >= 1 => t[1] = w.segments[1]
  <2> SUFFICES ASSUME acks >= 1 PROVE t[1] = w.segments[1]
    OBVIOUS
  <2>1. 1 \in 1 .. Len(w.segments) /\ 1 # acks + 1
    BY <1>1
  <2> QED
    BY <1>3, <2>1
<1>10. \A k \in 1 .. Len(w.segments) : x.segments[k].id = w.segments[k].id
  BY <1>4, <1>5, <1>6
<1> QED
  BY <1>3, <1>4, <1>8, <1>9, <1>10 DEF x

(* It is refused.                                                           *)
LEMMA AfterRefusal ==
    ASSUME NEW w, Sane(w), NEW acks \in Nat, Prefix(w, acks), acks + 1 \in DOMAIN w.segments,
           NEW e, e.kind \in {"rejected", "error"}, e.id = w.segments[acks + 1].id
    PROVE  /\ ~Reads(w, e).misled
           /\ Reads(w, e).accepted = w.accepted /\ Reads(w, e).audio = w.audio
           /\ Reads(w, e).cancel = w.cancel /\ Len(Reads(w, e).segments) = Len(w.segments) - 1
           /\ \A k \in 1 .. Len(w.segments) - 1 :
                 Reads(w, e).segments[k] = IF k <= acks THEN w.segments[k] ELSE w.segments[k + 1]
           /\ Prefix(Reads(w, e), acks)
<1> DEFINE x == Reads(w, e)
           t == RemoveAt(w.segments, acks + 1)
<1>1. /\ w \in View /\ w.segments \in Seq(Segment) /\ ~w.misled
      /\ Len(w.segments) \in Nat /\ DOMAIN w.segments = 1 .. Len(w.segments)
  BY Parts
<1>2. e.id # w.cancel /\ Oldest(w, acks + 1)
  <2>1. Oldest(w, acks + 1) /\ w.segments[acks + 1].id \in Ids
    BY NextInPrefix, Parts
  <2>2. w.segments[acks + 1].id \notin w.accepted
    BY <2>1, OldestUnacked
  <2>3. w.cancel # None => w.cancel \in w.accepted
    BY DEF Sane
  <2> QED
    BY <2>1, <2>2, <2>3, IdsAssumption
<1>3. x = [w EXCEPT !.segments = t]
  BY <1>2, RefusalDue
<1>4. /\ t \in Seq(Segment) /\ Len(t) = Len(w.segments) - 1
      /\ \A k \in 1 .. Len(w.segments) - 1 :
            t[k] = IF k < acks + 1 THEN w.segments[k] ELSE w.segments[k + 1]
  BY <1>1, Removed
<1> HIDE DEF x, t
<1>5. /\ x.segments = t /\ x.accepted = w.accepted /\ x.audio = w.audio
      /\ x.cancel = w.cancel /\ ~x.misled
  BY <1>1, <1>3 DEF View
<1>6. \A k \in 1 .. Len(w.segments) - 1 :
         t[k] = IF k <= acks THEN w.segments[k] ELSE w.segments[k + 1]
  BY <1>1, <1>4
<1>7. DOMAIN t = 1 .. Len(w.segments) - 1
  BY <1>4, LenProperties
<1>8. \A k \in DOMAIN t : t[k].acked <=> k <= acks
  <2> SUFFICES ASSUME NEW k \in DOMAIN t PROVE t[k].acked <=> k <= acks
    OBVIOUS
  <2>1. /\ k \in DOMAIN w.segments /\ k + 1 \in DOMAIN w.segments /\ k \in Nat
        /\ k \in 1 .. Len(w.segments) - 1
    BY <1>1, <1>7
  <2>2. /\ w.segments[k].acked <=> k <= acks
        /\ w.segments[k + 1].acked <=> k + 1 <= acks
    BY <2>1 DEF Prefix
  <2>3. CASE k <= acks
    BY <1>6, <2>1, <2>2, <2>3
  <2>4. CASE ~(k <= acks)
    <3>1. ~(k + 1 <= acks)
      BY <2>1, <2>4
    <3> QED
      BY <1>6, <2>1, <2>2, <2>4, <3>1
  <2> QED
    BY <2>3, <2>4
<1>9. acks \in 0 .. Len(t)
  BY <1>1, <1>4
<1>10. Prefix(x, acks)
  BY <1>5, <1>8, <1>9 DEF Prefix
<1> QED
  BY <1>4, <1>5, <1>6, <1>10 DEF x

(* The cancellation is refused, because it came too late.                   *)
LEMMA AfterLateCancel ==
    ASSUME NEW w, Sane(w), w.cancel # None,
           NEW e, e.kind \in {"rejected", "error"}, e.id = w.cancel
    PROVE  /\ ~Reads(w, e).misled
           /\ Reads(w, e).accepted = w.accepted /\ Reads(w, e).audio = w.audio
           /\ Reads(w, e).cancel = None /\ Reads(w, e).segments = w.segments
<1>1. Reads(w, e) = [w EXCEPT !.cancel = None]
  BY DEF Reads, Refused
<1>2. w \in View /\ ~w.misled
  BY Parts
<1> QED
  BY <1>1, <1>2 DEF View

(* The first segment ends.                                                  *)
LEMMA AfterDone ==
    ASSUME NEW w, Sane(w), NEW acks \in Nat, Prefix(w, acks),
           NEW e, e.kind = "done", e.id = w.audio, e.id # None
    PROVE  /\ ~Reads(w, e).misled
           /\ Reads(w, e).accepted = w.accepted /\ Reads(w, e).audio = None
           /\ Reads(w, e).cancel = w.cancel /\ Len(Reads(w, e).segments) = Len(w.segments) - 1
           /\ \A k \in 1 .. Len(w.segments) - 1 : Reads(w, e).segments[k] = w.segments[k + 1]
           /\ acks \in Nat \ {0} /\ Prefix(Reads(w, e), acks - 1)
<1> DEFINE x == Reads(w, e)
           t == RemoveAt(w.segments, 1)
<1>1. /\ w \in View /\ w.segments \in Seq(Segment) /\ ~w.misled
      /\ Len(w.segments) \in Nat /\ DOMAIN w.segments = 1 .. Len(w.segments)
  BY Parts
<1>2. /\ x = [w EXCEPT !.segments = t, !.audio = None]
      /\ 1 \in DOMAIN w.segments /\ w.segments[1].acked
  <2>1. /\ w.segments # << >> /\ w.segments[1] = [id |-> e.id, acked |-> TRUE]
        /\ Reads(w, e) = [w EXCEPT !.segments = RemoveAt(w.segments, 1), !.audio = None]
    BY DoneDue
  <2>2. 1 \in DOMAIN w.segments
    BY <2>1, FirstPlace
  <2> QED
    BY <2>1, <2>2
<1>3. /\ t \in Seq(Segment) /\ Len(t) = Len(w.segments) - 1
      /\ \A k \in 1 .. Len(w.segments) - 1 :
               t[k] = IF k < 1 THEN w.segments[k] ELSE w.segments[k + 1]
  <2> DEFINE s == w.segments
  <2> HIDE DEF s
  <2>1. s \in Seq(Segment) /\ 1 \in DOMAIN s
    BY <1>1, <1>2 DEF s
  <2>2. /\ RemoveAt(s, 1) \in Seq(Segment) /\ Len(RemoveAt(s, 1)) = Len(s) - 1
        /\ \A k \in 1 .. Len(s) - 1 : RemoveAt(s, 1)[k] = IF k < 1 THEN s[k] ELSE s[k + 1]
    BY <2>1, Removed
  <2> QED
    BY <2>2 DEF s
<1> HIDE DEF x, t
<1>4. /\ x.segments = t /\ x.accepted = w.accepted /\ x.audio = None
      /\ x.cancel = w.cancel /\ ~x.misled
  BY <1>1, <1>2 DEF View
<1>5. \A k \in 1 .. Len(w.segments) - 1 : t[k] = w.segments[k + 1]
  BY <1>1, <1>3
<1>6. DOMAIN t = 1 .. Len(w.segments) - 1
  BY <1>3, LenProperties
<1>7. acks \in Nat \ {0} /\ acks \in 0 .. Len(w.segments)
  <2>1. 1 <= acks
    BY <1>2 DEF Prefix
  <2> QED
    BY <2>1 DEF Prefix
<1>8. \A k \in DOMAIN t : t[k].acked <=> k <= acks - 1
  <2> SUFFICES ASSUME NEW k \in DOMAIN t PROVE t[k].acked <=> k <= acks - 1
    OBVIOUS
  <2>1. k + 1 \in DOMAIN w.segments /\ k \in Nat /\ t[k] = w.segments[k + 1]
    BY <1>1, <1>5, <1>6
  <2>2. w.segments[k + 1].acked <=> k + 1 <= acks
    BY <2>1 DEF Prefix
  <2> QED
    BY <1>7, <2>1, <2>2
<1>9. acks - 1 \in 0 .. Len(t)
  BY <1>1, <1>3, <1>7
<1>10. Prefix(x, acks - 1)
  BY <1>4, <1>8, <1>9 DEF Prefix
<1> QED
  BY <1>3, <1>4, <1>5, <1>7, <1>10 DEF x

(* A write of the server shows on the wire.                                 *)
LEMMA WriteShows ==
    ASSUME Inv, connected, NEW k, NEW i, Write(k, i)
    PROVE  wire' # wire /\ wire'.event = [kind |-> k, id |-> i]
<1>1. wire' = After(wire, k, i) /\ wire.odd \in BOOLEAN
  BY DEF Inv, TypeOK, Write
<1>2. wire'.odd = ~wire.odd /\ wire'.event = [kind |-> k, id |-> i]
  BY <1>1 DEF After
<1> QED
  BY <1>1, <1>2

-----------------------------------------------------------------------------
(* The server's steps keep the client and the server in agreement.          *)

(* What the proofs about the server's steps start from.                     *)
Agreeing(w) == Inv /\ MessagesOK /\ Idling /\ connected /\ Sane(w) /\ Agrees(w)

(* What they end with: nothing was written, or what was written does not    *)
(* mislead who agrees, or it refuses a message that is too large.           *)
StillAgreeing(w) ==
    /\ Idling'
    /\ \/ wire' = wire /\ Agrees(w)'
       \/ \E e \in Answer : /\ wire' # wire /\ wire'.event = e
                            /\ ~Reads(w, e).misled /\ Agrees(Reads(w, e))'
       \/ wire' # wire /\ wire'.event = Uncorrelated /\ Waits(w)

(* Nothing is being cancelled while a message of the client is handled.     *)
LEMMA NotCancelling ==
    ASSUME NEW w, Agreeing(w), receiver \in {"lock", "ack", "error"}
    PROVE  ~Cancelling
<1>1. message # NoMessage
  BY NoMessageApart DEF Agreeing, Inv, Handled
<1>2. Unanswered # << >>
  BY <1>1, Answered DEF Agreeing
<1> QED
  BY <1>2 DEF Agreeing, Agrees, Mercy

(* The active segment and the queue are of their types.                     *)
LEMMA ActiveType == Inv => active \in Ids \cup {None} /\ pending \in Seq(Ids)
  BY DEF Inv, TypeOK

(* A message stays unanswered while its handling goes on.                   *)
LEMMA SameUnanswered == UNCHANGED <<message, inbox, holding>> => Unanswered' = Unanswered
  BY DEF Unanswered, Slip

(* The steps of the receiver that write nothing.                            *)
LEMMA ReceiverSilent ==
    ASSUME NEW w, Agreeing(w), UNCHANGED holding,
           Receive \/ ReceiveEof \/ ReceiverSeesStop \/ HandleSegment \/ HandleClose
           \/ HandleError \/ ReceiverWriteFails \/ IdleTimeout
    PROVE  StillAgreeing(w)
<1> USE DEF Agreeing, peerVars, queueVars, flagVars, recvVars, workVars, superVars
<1>1. active # None => active \in Ids /\ pending \in Seq(Ids)
  BY ActiveType
<1>2. CASE Receive
  <2>1. Unanswered' = Unanswered
    BY <1>2, TakenUp DEF Receive, Idling
  <2>2. Agrees(w)'
    BY <1>1, <1>2, <2>1, AgreesKept DEF Receive, Cancelling
  <2> QED
    BY <1>2, <2>2 DEF Receive, Idling, StillAgreeing
<1>3. CASE ReceiveEof
  BY <1>3 DEF ReceiveEof
<1>4. CASE ReceiverSeesStop \/ IdleTimeout
  <2>1. Agrees(w)'
    BY <1>1, <1>4, AgreesKept
    DEF ReceiverSeesStop, IdleTimeout, ReceiverEnds, Stopped, Cancelling
  <2> QED
    BY <1>4, <2>1 DEF ReceiverSeesStop, IdleTimeout, ReceiverEnds, Idling, StillAgreeing
<1>5. CASE HandleSegment \/ HandleError
  <2>1. Unanswered' = Unanswered
    BY <1>5, SameUnanswered DEF HandleSegment, HandleError
  <2>2. /\ UNCHANGED <<acceptedIds, active, pending, started, cancelled, stopping, worker, ending>>
        /\ receiver = "lock"
    BY <1>5 DEF HandleSegment, HandleError, Handling
  <2>3. Agrees(w)'
    BY <1>1, <2>1, <2>2, AgreesKept DEF Cancelling
  <2> QED
    BY <1>5, <2>3 DEF HandleSegment, HandleError, Idling, StillAgreeing
<1>6. CASE HandleClose
  <2>1. PICK acks \in Nat : Prefix(w, acks) /\ Backlog(w, acks)
    BY DEF Agrees
  <2>2. receiver = "lock" /\ message.kind = "close"
    BY <1>6 DEF HandleClose, Handling, MayClose
  <2>3. message.kind = "segment" \/ message = JunkMessage \/ message = CancelMessage(w.cancel)
    BY <2>1, <2>2, HandledKind DEF Speaks
  <2> QED
    BY <2>2, <2>3 DEF CancelMessage, JunkMessage
<1>7. CASE ReceiverWriteFails
  <2>1. Agrees(w)'
    BY <1>1, <1>7, AgreesKept DEF ReceiverWriteFails, ReceiverEnds, Stopped, Cancelling
  <2> QED
    BY <1>7, <2>1 DEF ReceiverWriteFails, ReceiverEnds, Idling, StillAgreeing
<1> QED
  BY <1>2, <1>3, <1>4, <1>5, <1>6, <1>7

(* The cancellation is carried out.                                         *)
LEMMA CancelAgrees ==
    ASSUME NEW w, Agreeing(w), UNCHANGED holding, HandleCancel
    PROVE  StillAgreeing(w)
<1> USE DEF Agreeing, peerVars, queueVars, flagVars, recvVars, workVars, superVars
<1>1. PICK acks \in Nat : Prefix(w, acks) /\ Backlog(w, acks)
  BY DEF Agrees
<1>2. receiver = "lock" /\ message.kind = "cancel" /\ message.id = active
  BY DEF HandleCancel, Handling, MatchesActive
<1>3. /\ Len(w.segments) = acks /\ w.cancel # None /\ message = CancelMessage(w.cancel)
      /\ Len(Unanswered) = 1
  BY <1>1, <1>2, HandledKind DEF Speaks, JunkMessage
<1>4. Unanswered' = << >>
  <2>1. message # NoMessage
    BY NoMessageApart, <1>2 DEF Inv, Handled
  <2>2. /\ Unanswered' = Tail(Unanswered) /\ Unanswered # << >>
        /\ Unanswered \in Seq(Messages)
    BY <2>1, Answered, UnansweredType DEF HandleCancel
  <2>3. Len(Tail(Unanswered)) = 0 /\ Tail(Unanswered) \in Seq(Messages)
    BY <1>3, <2>2, HeadTailProperties
  <2> QED
    BY <2>2, <2>3, EmptySeq
<1>5. w.cancel = active
  BY <1>2, <1>3 DEF CancelMessage
<1>6. Voice(w)'
  BY DEF HandleCancel, Agrees, Voice
<1>7. Mercy(w)'
  BY <1>4, <1>5 DEF HandleCancel, Mercy
<1>8. Prefix(w, acks)'
  BY <1>1 DEF Prefix
<1>9. Backlog(w, acks)'
  <2>1. Len(w.segments) - acks = 0 /\ Len(Unanswered') = 0
    BY <1>3, <1>4
  <2> QED
    BY <1>1, <1>2, <1>3, <2>1 DEF HandleCancel, Backlog
<1>10. Queue(w, acks)'
  BY DEF HandleCancel, Queue
<1>11. Agrees(w)'
  BY <1>6, <1>7, <1>8, <1>9, <1>10 DEF Agrees
<1> QED
  BY <1>11 DEF HandleCancel, Idling, StillAgreeing

(* The receiver refused the oldest message.                                 *)
AnswersOldest ==
    /\ UNCHANGED <<active, started, worker, ending>>
    /\ receiver' # "done" => /\ receiver # "done" /\ UNCHANGED acceptedIds
                             /\ Unanswered # << >> /\ Unanswered' = Tail(Unanswered)
    /\ ~stopping' => ~stopping /\ UNCHANGED <<cancelled, pending>>

(* What the refusal of the oldest segment not acknowledged makes of the     *)
(* agreement.                                                               *)
LEMMA RefusalAgrees ==
    ASSUME NEW w, Agreeing(w), NEW acks \in Nat,
           Prefix(w, acks), Backlog(w, acks), Queue(w, acks), acks + 1 \in DOMAIN w.segments,
           NEW e, e.kind \in {"rejected", "error"}, e.id = w.segments[acks + 1].id,
           AnswersOldest, ~Cancelling
    PROVE  ~Reads(w, e).misled /\ Agrees(Reads(w, e))'
<1>0. Inv /\ MessagesOK /\ Sane(w) /\ Agrees(w)
  BY DEF Agreeing
<1> DEFINE x == Reads(w, e)
           s == w.segments
<1>1. /\ ~x.misled /\ x.accepted = w.accepted /\ x.audio = w.audio /\ x.cancel = w.cancel
      /\ Len(x.segments) = Len(s) - 1
      /\ \A k \in 1 .. Len(s) - 1 : x.segments[k] = IF k <= acks THEN s[k] ELSE s[k + 1]
      /\ Prefix(x, acks)
  BY <1>0, AfterRefusal
<1>2. /\ s \in Seq(Segment) /\ Len(s) \in Nat /\ DOMAIN s = 1 .. Len(s)
      /\ acks + 1 \in 1 .. Len(s) /\ acks <= Len(s) - 1 /\ Len(s) - 1 \in Nat
  <2>1. s \in Seq(Segment) /\ Len(s) \in Nat /\ DOMAIN s = 1 .. Len(s)
    BY <1>0, Parts
  <2>2. acks + 1 \in 1 .. Len(s)
    BY <2>1
  <2> HIDE DEF s
  <2> QED
    BY <2>1, <2>2
<1> HIDE DEF x, s
<1> DEFINE l == Len(s)
           y == Len(x.segments)
<1>8. y = l - 1 /\ l \in Nat /\ acks + 1 \in 1 .. l
  BY <1>1, <1>2
<1>9. \A k \in 1 .. l - 1 : x.segments[k] = IF k <= acks THEN s[k] ELSE s[k + 1]
  BY <1>1
<1> HIDE DEF l, y
<1>10. y \in Nat /\ l = y + 1 /\ acks <= y
  BY <1>8
<1>3. Voice(x)'
  <2>1. x.audio = IF started' THEN active' ELSE None
    BY <1>0, <1>1 DEF Agrees, Voice, AnswersOldest
  <2>2. ASSUME worker = "start"
        PROVE  x.segments # << >> /\ x.segments[1] = [id |-> active, acked |-> TRUE]
    <3>1. s # << >> /\ s[1] = [id |-> active, acked |-> TRUE]
      BY <1>0, <2>2 DEF Agrees, Voice, s
    <3>2. 1 \in DOMAIN s /\ 1 <= acks
      BY <1>0, <3>1, FirstPlace DEF Prefix, s
    <3>3. 1 \in 1 .. l - 1 /\ y # 0
      BY <1>10, <3>2
    <3>4. x.segments[1] = s[1]
      BY <1>9, <3>2, <3>3
    <3>5. x.segments # << >>
      BY <3>3 DEF y
    <3> QED
      BY <3>1, <3>4, <3>5
  <2> QED
    BY <2>1, <2>2 DEF Voice, AnswersOldest
<1>4. Mercy(x)'
  BY DEF Mercy, Cancelling, AnswersOldest
<1>5. Backlog(x, acks)'
  <2> SUFFICES ASSUME receiver' # "done"
               PROVE  /\ x.accepted = acceptedIds'
                      /\ \A k \in 1 .. y - acks :
                            /\ k \in 1 .. Len(Unanswered')
                            /\ Speaks(Unanswered'[k], x.segments[acks + k].id)
                      /\ x.cancel = None => Len(Unanswered') = y - acks
                      /\ x.cancel # None =>
                            /\ Len(Unanswered') = y - acks + 1
                            /\ Unanswered'[Len(Unanswered')] = CancelMessage(x.cancel)
    BY DEF Backlog, y
  <2> DEFINE U == Unanswered
             T == Unanswered'
  <2>1. U \in Seq(Messages) /\ U # << >> /\ T = Tail(U)
    BY <1>0, UnansweredType DEF AnswersOldest
  <2>2. /\ Len(U) \in Nat \ {0} /\ Len(T) = Len(U) - 1
        /\ \A k \in 1 .. Len(U) - 1 : T[k] = U[k + 1]
    BY <2>1, EmptySeq, HeadTailProperties
  <2>3. /\ w.accepted = acceptedIds
        /\ \A k \in 1 .. l - acks :
              k \in 1 .. Len(U) /\ Speaks(U[k], s[acks + k].id)
        /\ w.cancel = None => Len(U) = l - acks
        /\ w.cancel # None => Len(U) = l - acks + 1 /\ U[Len(U)] = CancelMessage(w.cancel)
    BY <1>2 DEF Backlog, AnswersOldest, s, l
  <2> HIDE DEF U, T
  <2>4. ASSUME NEW k \in 1 .. y - acks
        PROVE  k \in 1 .. Len(T) /\ Speaks(T[k], x.segments[acks + k].id)
    <3>1. /\ k + 1 \in 1 .. l - acks /\ acks + k \in 1 .. l - 1
          /\ ~(acks + k <= acks) /\ acks + (k + 1) = (acks + k) + 1
      BY <1>10
    <3>2. k + 1 \in 1 .. Len(U) /\ Speaks(U[k + 1], s[acks + (k + 1)].id)
      BY <2>3, <3>1
    <3>3. k \in 1 .. Len(U) - 1 /\ T[k] = U[k + 1]
      BY <2>2, <3>2
    <3>4. x.segments[acks + k] = s[(acks + k) + 1]
      BY <1>9, <3>1
    <3> QED
      BY <2>2, <3>1, <3>2, <3>3, <3>4
  <2>5. x.cancel = None => Len(T) = y - acks
    BY <1>1, <1>10, <2>2, <2>3
  <2>6. x.cancel # None => Len(T) = y - acks + 1 /\ T[Len(T)] = CancelMessage(x.cancel)
    <3> SUFFICES ASSUME x.cancel # None
                 PROVE  Len(T) = y - acks + 1 /\ T[Len(T)] = CancelMessage(x.cancel)
      OBVIOUS
    <3>1. Len(U) = l - acks + 1 /\ U[Len(U)] = CancelMessage(x.cancel)
      BY <1>1, <2>3
    <3>2. Len(T) \in 1 .. Len(U) - 1 /\ Len(T) + 1 = Len(U)
      BY <1>10, <2>2, <3>1
    <3> QED
      BY <1>10, <2>2, <3>1, <3>2
  <2> QED
    BY <1>1, <2>3, <2>4, <2>5, <2>6 DEF T, AnswersOldest
<1>6. Queue(x, acks)'
  <2> SUFFICES ASSUME ~stopping', ~cancelled'
               PROVE  acks = Len(Ahead') /\ \A k \in 1 .. acks : x.segments[k].id = Ahead'[k]
    BY DEF Queue
  <2>1. Ahead' = Ahead /\ acks = Len(Ahead) /\ \A k \in 1 .. acks : s[k].id = Ahead[k]
    BY DEF Queue, Ahead, AnswersOldest, s
  <2>2. \A k \in 1 .. acks : x.segments[k] = s[k]
    BY <1>9, <1>10
  <2> QED
    BY <2>1, <2>2
<1>7. Prefix(x, acks)'
  BY <1>1 DEF Prefix
<1>12. Agrees(x)'
  BY <1>3, <1>4, <1>5, <1>6, <1>7 DEF Agrees
<1> QED
  BY <1>1, <1>12 DEF x

(* What the refusal of a late cancellation makes of it.                     *)
LEMMA LateCancelAgrees ==
    ASSUME NEW w, Agreeing(w), NEW acks \in Nat,
           Prefix(w, acks), Backlog(w, acks), Queue(w, acks),
           Len(w.segments) = acks, w.cancel # None, Len(Unanswered) = 1,
           NEW e, e.kind \in {"rejected", "error"}, e.id = w.cancel,
           AnswersOldest, ~Cancelling
    PROVE  ~Reads(w, e).misled /\ Agrees(Reads(w, e))'
<1> USE DEF Agreeing
<1> DEFINE x == Reads(w, e)
<1>1. /\ ~x.misled /\ x.accepted = w.accepted /\ x.audio = w.audio /\ x.cancel = None
      /\ x.segments = w.segments
  BY AfterLateCancel
<1> HIDE DEF x
<1>2. Voice(x)'
  BY <1>1 DEF Agrees, Voice, AnswersOldest
<1>3. Mercy(x)'
  BY DEF Mercy, Cancelling, AnswersOldest
<1>4. Backlog(x, acks)'
  <2> SUFFICES ASSUME receiver' # "done"
               PROVE  x.accepted = acceptedIds' /\ Len(Unanswered') = Len(x.segments) - acks
                      /\ Len(x.segments) - acks = 0
    BY <1>1 DEF Backlog
  <2>1. Unanswered \in Seq(Messages)
    BY UnansweredType
  <2>2. Len(Unanswered') = 0
    BY <2>1, HeadTailProperties DEF AnswersOldest
  <2> QED
    BY <1>1, <2>2 DEF Backlog, AnswersOldest
<1>5. Queue(x, acks)'
  BY <1>1 DEF Queue, Ahead, AnswersOldest
<1>6. Prefix(x, acks)'
  BY <1>1 DEF Prefix
<1>7. Agrees(x)'
  BY <1>2, <1>3, <1>4, <1>5, <1>6 DEF Agrees
<1> QED
  BY <1>1, <1>7 DEF x

(* An acknowledged segment comes last of those accepted.                     *)
LEMMA AckQueues ==
    ASSUME Inv, AckWritten, ~stopping', ~cancelled'
    PROVE  /\ Ahead \in Seq(Ids) /\ message.id \in Ids /\ ~stopping /\ ~cancelled
           /\ Ahead' = Append(Ahead, message.id)
<1>1. /\ active \in Ids \cup {None} /\ pending \in Seq(Ids) /\ message.id \in Ids
      /\ (active = None => pending = << >>) /\ None \notin Ids
  BY IdsAssumption DEF Inv, TypeOK, AckWritten, Handled, Waiting
<1>2. /\ ~stopping /\ ~cancelled /\ active' = IF active = None THEN message.id ELSE active
      /\ pending' = IF active = None THEN pending ELSE Append(pending, message.id)
  BY DEF AckWritten, Stopped
<1>3. CASE active = None
  <2>1. Ahead = << >> /\ Ahead' = <<message.id>> \o << >>
    BY <1>1, <1>2, <1>3 DEF Ahead
  <2> QED
    BY <1>1, <1>2, <2>1
<1>4. CASE active # None
  <2>1. Ahead = <<active>> \o pending /\ Ahead' = <<active>> \o Append(pending, message.id)
    BY <1>1, <1>2, <1>4 DEF Ahead
  <2>2. <<active>> \in Seq(Ids) /\ <<message.id>> \in Seq(Ids)
    BY <1>1, <1>4
  <2>3. /\ Append(pending, message.id) = pending \o <<message.id>>
        /\ Append(Ahead, message.id) = (<<active>> \o pending) \o <<message.id>>
        /\ Ahead \in Seq(Ids)
    BY <1>1, <2>1, <2>2, AppendIsConcat, ConcatProperties
  <2>4. (<<active>> \o pending) \o <<message.id>> = <<active>> \o (pending \o <<message.id>>)
    BY <1>1, <2>2, ConcatAssociative
  <2> QED
    BY <1>1, <1>2, <2>1, <2>3, <2>4
<1> QED
  BY <1>3, <1>4

(* The acknowledgement is written.                                          *)
LEMMA AckAgrees ==
    ASSUME NEW w, Agreeing(w), UNCHANGED holding, AckWritten
    PROVE  StillAgreeing(w)
<1>0. Inv /\ MessagesOK /\ Idling /\ connected /\ Sane(w) /\ Agrees(w)
  BY DEF Agreeing
<1>e. PICK e : e = [kind |-> "accepted", id |-> message.id]
  OBVIOUS
<1>1. wire' # wire /\ wire'.event = e
  BY <1>0, <1>e, WriteShows DEF AckWritten
<1>2. /\ receiver = "ack" /\ message.kind = "segment" /\ message.id \in Ids /\ e \in Answer
      /\ worker # "start" /\ message \in Messages
  BY <1>0, <1>e DEF AckWritten, Inv, Handled, Locking, Answer, EventKinds
<1>3. PICK acks \in Nat : Prefix(w, acks) /\ Backlog(w, acks) /\ Queue(w, acks)
  BY <1>0 DEF Agrees
<1> DEFINE x == Reads(w, e)
           s == w.segments
           l == Len(s)
<1>4. acks + 1 \in DOMAIN s /\ message.id = s[acks + 1].id
  <2>1. message.kind # "cancel"
    BY <1>2
  <2> QED
    BY <1>0, <1>2, <1>3, <2>1, HandledKind DEF CancelMessage, JunkMessage, Speaks
<1>5. l \in Nat /\ DOMAIN s = 1 .. l
  BY <1>0, Parts
<1>6. /\ ~x.misled /\ x.accepted = w.accepted \cup {message.id} /\ x.audio = w.audio
      /\ x.cancel = w.cancel /\ Len(x.segments) = l
      /\ \A k \in 1 .. l : x.segments[k].id = s[k].id
      /\ Prefix(x, acks + 1)
  <2>1. e.kind = "accepted" /\ e.id = message.id
    BY <1>e
  <2>2. e.id = w.segments[acks + 1].id /\ acks + 1 \in DOMAIN w.segments
    BY <1>e, <1>4
  <2> QED
    BY <1>0, <1>3, <2>1, <2>2, AfterAcceptance
<1> HIDE DEF x
<1>7. Voice(x)'
  <2>1. started' = started /\ worker' = worker
        /\ active' = IF active = None THEN message.id ELSE active
    BY DEF AckWritten, workVars
  <2>2. active = None => ~started
    BY <1>0 DEF Inv, Waiting
  <2>3. x.audio = IF started THEN active ELSE None
    BY <1>0, <1>6 DEF Agrees, Voice
  <2> QED
    BY <1>2, <2>1, <2>2, <2>3 DEF Voice
<1>8. Mercy(x)'
  <2>1. ~Cancelling
    BY <1>2, NotCancelling
  <2>2. ~Cancelling'
    BY <2>1 DEF Cancelling, AckWritten, workVars, Stopped
  <2> QED
    BY <2>2 DEF Mercy
<1>9. Prefix(x, acks + 1)'
  BY <1>6 DEF Prefix
<1>10. Backlog(x, acks + 1)'
  <2> SUFFICES ASSUME receiver' # "done"
               PROVE  /\ x.accepted = acceptedIds'
                      /\ \A k \in 1 .. l - (acks + 1) :
                            /\ k \in 1 .. Len(Unanswered')
                            /\ Speaks(Unanswered'[k], x.segments[(acks + 1) + k].id)
                      /\ x.cancel = None => Len(Unanswered') = l - (acks + 1)
                      /\ x.cancel # None =>
                            /\ Len(Unanswered') = l - (acks + 1) + 1
                            /\ Unanswered'[Len(Unanswered')] = CancelMessage(x.cancel)
    BY <1>6 DEF Backlog
  <2> DEFINE U == Unanswered
             T == Unanswered'
             m == Len(U)
             r == Len(T)
  <2>1. U \in Seq(Messages) /\ U # << >> /\ T = Tail(U)
    <3>1. message # NoMessage /\ message' = NoMessage /\ UNCHANGED <<inbox, holding>>
      BY <1>2, NoMessageApart DEF AckWritten, peerVars
    <3> QED
      BY <1>0, <3>1, Answered, UnansweredType
  <2>2. /\ m \in Nat \ {0} /\ r = m - 1
        /\ \A k \in 1 .. m - 1 : T[k] = U[k + 1]
    BY <2>1, EmptySeq, HeadTailProperties
  <2>3. /\ w.accepted = acceptedIds
        /\ \A k \in 1 .. l - acks :
              k \in 1 .. m /\ Speaks(U[k], s[acks + k].id)
        /\ w.cancel = None => m = l - acks
        /\ w.cancel # None => \/ m = 0
                              \/ m = l - acks + 1 /\ U[m] = CancelMessage(w.cancel)
    BY <1>2, <1>3 DEF Backlog
  <2>4. \A k \in 1 .. l : x.segments[k].id = s[k].id
    BY <1>6
  <2>5. acks + 1 \in 1 .. l /\ l \in Nat
    BY <1>4, <1>5
  <2> HIDE DEF U, T, m, r, l, s
  <2>6. ASSUME NEW k \in 1 .. l - (acks + 1)
        PROVE  k \in 1 .. r /\ Speaks(T[k], x.segments[(acks + 1) + k].id)
    <3>1. /\ k + 1 \in 1 .. l - acks /\ (acks + 1) + k \in 1 .. l
          /\ acks + (k + 1) = (acks + 1) + k /\ k \in Nat
      BY <2>5
    <3>2. k + 1 \in 1 .. m /\ Speaks(U[k + 1], s[acks + (k + 1)].id)
      BY <2>3, <3>1
    <3>3. k \in 1 .. m - 1 /\ T[k] = U[k + 1]
      BY <2>2, <3>1, <3>2
    <3>4. x.segments[(acks + 1) + k].id = s[(acks + 1) + k].id
      BY <2>4, <3>1
    <3> QED
      BY <2>2, <3>1, <3>2, <3>3, <3>4
  <2>7. x.cancel = None => r = l - (acks + 1)
    BY <1>6, <2>2, <2>3, <2>5
  <2>8. x.cancel # None => r = l - (acks + 1) + 1 /\ T[r] = CancelMessage(x.cancel)
    <3> SUFFICES ASSUME x.cancel # None
                 PROVE  r = l - (acks + 1) + 1 /\ T[r] = CancelMessage(x.cancel)
      OBVIOUS
    <3>1. m = l - acks + 1 /\ U[m] = CancelMessage(x.cancel)
      BY <1>6, <2>2, <2>3
    <3>2. r \in 1 .. m - 1 /\ r + 1 = m /\ r = l - (acks + 1) + 1
      BY <2>2, <2>5, <3>1
    <3> QED
      BY <2>2, <3>1, <3>2
  <2>9. x.accepted = acceptedIds'
    BY <1>6, <2>3 DEF AckWritten
  <2> QED
    BY <2>6, <2>7, <2>8, <2>9 DEF T, r
<1>11. Queue(x, acks + 1)'
  <2> SUFFICES ASSUME ~stopping', ~cancelled'
               PROVE  /\ acks + 1 = Len(Ahead')
                      /\ \A k \in 1 .. acks + 1 : x.segments[k].id = Ahead'[k]
    BY DEF Queue
  <2>1. /\ Ahead \in Seq(Ids) /\ message.id \in Ids /\ ~stopping /\ ~cancelled
        /\ Ahead' = Append(Ahead, message.id)
    BY <1>0, AckQueues
  <2>2. acks = Len(Ahead) /\ \A k \in 1 .. acks : s[k].id = Ahead[k]
    BY <1>3, <2>1 DEF Queue
  <2>3. /\ Len(Ahead') = acks + 1 /\ Ahead'[acks + 1] = message.id
        /\ \A k \in 1 .. acks : Ahead'[k] = Ahead[k]
    BY <2>1, <2>2, AppendProperties
  <2>4. \A k \in 1 .. acks + 1 : x.segments[k].id = s[k].id
    <3>1. \A k \in 1 .. acks + 1 : k \in 1 .. l
      BY <1>4, <1>5
    <3> QED
      BY <1>6, <3>1
  <2>5. ASSUME NEW k \in 1 .. acks + 1 PROVE x.segments[k].id = Ahead'[k]
    <3>1. CASE k = acks + 1
      BY <1>4, <2>3, <2>4, <3>1
    <3>2. CASE k # acks + 1
      <4>1. k \in 1 .. acks
        BY <3>2
      <4> QED
        BY <2>2, <2>3, <2>4, <4>1
    <3> QED
      BY <3>1, <3>2
  <2> QED
    BY <2>3, <2>5
<1>12. Agrees(x)'
  <2>1. acks + 1 \in Nat
    OBVIOUS
  <2> QED
    BY <1>7, <1>8, <1>9, <1>10, <1>11, <2>1 DEF Agrees
<1>13. Idling'
  BY DEF AckWritten, Idling
<1> QED
  BY <1>1, <1>2, <1>6, <1>12, <1>13 DEF StillAgreeing, x

(* The message being handled is refused.                                    *)
LEMMA AnswerRefuses ==
    ASSUME NEW w, Agreeing(w), receiver \in {"lock", "ack", "error"}, AnswersOldest,
           message # JunkMessage, NEW e, e.kind \in {"rejected", "error"}, e.id = message.id
    PROVE  ~Reads(w, e).misled /\ Agrees(Reads(w, e))'
<1>0. Inv /\ MessagesOK /\ Sane(w) /\ Agrees(w) /\ ~Cancelling
  BY NotCancelling DEF Agreeing
<1>1. PICK acks \in Nat : Prefix(w, acks) /\ Backlog(w, acks) /\ Queue(w, acks)
  BY <1>0 DEF Agrees
<1>2. \/ acks + 1 \in DOMAIN w.segments /\ message.id = w.segments[acks + 1].id
      \/ /\ Len(w.segments) = acks /\ w.cancel # None /\ message.id = w.cancel
         /\ Len(Unanswered) = 1
  BY <1>0, <1>1, HandledKind DEF CancelMessage, Speaks
<1>3. CASE acks + 1 \in DOMAIN w.segments /\ message.id = w.segments[acks + 1].id
  <2>1. e.id = w.segments[acks + 1].id
    BY <1>3
  <2> QED
    BY <1>0, <1>1, <1>3, <2>1, RefusalAgrees
<1>4. CASE /\ Len(w.segments) = acks /\ w.cancel # None /\ message.id = w.cancel
           /\ Len(Unanswered) = 1
  <2>1. e.id = w.cancel
    BY <1>4
  <2> QED
    BY <1>0, <1>1, <1>4, <2>1, LateCancelAgrees
<1> QED
  BY <1>2, <1>3, <1>4

(* The message being handled, if it can be read, is one with a segment ID.  *)
LEMMA HandledId ==
    ASSUME NEW w, Agreeing(w), receiver \in {"lock", "ack", "error"}, message # JunkMessage
    PROVE  message \in Messages /\ message # NoMessage /\ message.id \in Ids
<1>0. Inv /\ MessagesOK /\ Sane(w) /\ Agrees(w)
  BY DEF Agreeing
<1>1. PICK acks \in Nat : Prefix(w, acks) /\ Backlog(w, acks) /\ Queue(w, acks)
  BY <1>0 DEF Agrees
<1>2. message \in Messages /\ message # NoMessage
  BY <1>0, NoMessageApart DEF Inv, Handled
<1>3. message.kind \in {"segment", "cancel"}
  BY <1>0, <1>1, HandledKind DEF CancelMessage, Speaks
<1> QED
  BY <1>2, <1>3 DEF Messages, SegmentMessage, CancelMessage, CloseMessage, JunkMessage

(* What answering the message being handled leaves unanswered.              *)
LEMMA AnswerLeaves ==
    ASSUME NEW w, Agreeing(w), receiver \in {"lock", "ack", "error"},
           message' = NoMessage, UNCHANGED <<inbox, holding>>
    PROVE  Unanswered # << >> /\ Unanswered' = Tail(Unanswered)
<1>1. MessagesOK /\ message # NoMessage
  BY NoMessageApart DEF Agreeing, Inv, Handled
<1> QED
  BY <1>1, Answered

(* A message that cannot be read is that of the oldest segment not          *)
(* acknowledged, which is too large for one.                                *)
LEMMA JunkWaits ==
    ASSUME NEW w, Agreeing(w), receiver \in {"lock", "ack", "error"}, message = JunkMessage
    PROVE  Waits(w)
<1>0. Inv /\ MessagesOK /\ Sane(w) /\ Agrees(w)
  BY DEF Agreeing
<1>1. PICK acks \in Nat : Prefix(w, acks) /\ Backlog(w, acks) /\ Queue(w, acks)
  BY <1>0 DEF Agrees
<1>2. acks + 1 \in DOMAIN w.segments /\ Speaks(message, w.segments[acks + 1].id)
  <2>1. message.kind # "cancel"
    BY DEF JunkMessage
  <2> QED
    BY <1>0, <1>1, <2>1, HandledKind DEF CancelMessage
<1>3. w.segments[acks + 1].id \in Oversized
  BY <1>2 DEF Speaks, JunkMessage
<1>4. ~w.segments[acks + 1].acked
  BY <1>0, <1>1, <1>2, NextInPrefix DEF Oldest
<1> QED
  BY <1>2, <1>3, <1>4 DEF Waits

(* The error event is written.                                              *)
LEMMA ErrorAgrees ==
    ASSUME NEW w, Agreeing(w), UNCHANGED holding, ErrorWritten
    PROVE  StillAgreeing(w)
<1>1. Inv /\ connected /\ receiver = "error" /\ message' = NoMessage /\ UNCHANGED inbox
  BY DEF Agreeing, ErrorWritten, ReceiverEnds, peerVars
<1>2. PICK e : e = [kind |-> ErrorKind, id |-> message.id]
  OBVIOUS
<1>3. wire' # wire /\ wire'.event = e
  BY <1>1, <1>2, WriteShows DEF ErrorWritten
<1>4. Idling'
  BY <1>1 DEF Idling
<1>5. CASE message = JunkMessage
  <2>1. e = Uncorrelated
    BY <1>2, <1>5 DEF ErrorKind, JunkMessage, Uncorrelated
  <2>2. Waits(w)
    BY <1>1, <1>5, JunkWaits
  <2> QED
    BY <1>3, <1>4, <2>1, <2>2 DEF StillAgreeing
<1>6. CASE message # JunkMessage
  <2>1. message.id \in Ids
    BY <1>1, <1>6, HandledId
  <2>2. e.kind \in {"rejected", "error"} /\ e.id = message.id /\ e \in Answer
    BY <1>2, <2>1 DEF ErrorKind, Answer, EventKinds
  <2>3. AnswersOldest
    <3>1. Unanswered # << >> /\ Unanswered' = Tail(Unanswered)
      BY <1>1, AnswerLeaves
    <3> QED
      BY <1>1, <3>1
      DEF AnswersOldest, ErrorWritten, ReceiverEnds, Stopped, queueVars, flagVars, workVars
  <2>4. ~Reads(w, e).misled /\ Agrees(Reads(w, e))'
    BY <1>1, <1>6, <2>2, <2>3, AnswerRefuses
  <2> QED
    BY <1>3, <1>4, <2>2, <2>4 DEF StillAgreeing
<1> QED
  BY <1>5, <1>6

-----------------------------------------------------------------------------
(* The steps of the worker.                                                 *)

(* Those that write nothing.                                                *)
LEMMA WorkerSilent ==
    ASSUME NEW w, Agreeing(w), UNCHANGED holding,
           WorkerSeesStop \/ BeginSegment \/ NextChunk \/ NextDone \/ Drained \/ BeginEnd
           \/ NextFails \/ ChunkWriteFails \/ Unwound \/ DrainFails \/ EventWriteFails
    PROVE  StillAgreeing(w)
<1>0. Inv /\ MessagesOK /\ Idling /\ connected /\ Sane(w) /\ Agrees(w)
  BY DEF Agreeing
<1>1. active # None => active \in Ids /\ pending \in Seq(Ids)
  BY <1>0, ActiveType
<1>2. UNCHANGED <<receiver, message, inbox, wire, active, started, acceptedIds>>
  BY DEF WorkerSeesStop, BeginSegment, NextChunk, NextDone, Drained, BeginEnd, NextFails,
         ChunkWriteFails, Unwound, DrainFails, EventWriteFails, WorkerEnds, peerVars, queueVars,
         flagVars, recvVars
<1>3. Unanswered' = Unanswered
  BY <1>2, SameUnanswered
<1>4. ~stopping' /\ ~cancelled' => ~stopping /\ ~cancelled /\ UNCHANGED pending
  BY DEF WorkerSeesStop, BeginSegment, NextChunk, NextDone, Drained, BeginEnd, NextFails,
         ChunkWriteFails, Unwound, DrainFails, EventWriteFails, WorkerEnds, Stopped, queueVars,
         flagVars
<1>5. worker' = "start" => worker = "start" \/ (active # None /\ ~stopping /\ ~cancelled)
  <2>1. cancelled /\ ~stopping => started
    BY <1>0 DEF Inv, Waiting
  <2>2. worker = "ready" => ~started
    BY <1>0 DEF Inv, Working
  <2> QED
    BY <2>1, <2>2
    DEF WorkerSeesStop, BeginSegment, NextChunk, NextDone, Drained, BeginEnd, NextFails,
        ChunkWriteFails, Unwound, DrainFails, EventWriteFails, WorkerEnds
<1>6. Cancelling' => Cancelling
  BY DEF Cancelling, WorkerSeesStop, BeginSegment, NextChunk, NextDone, Drained, BeginEnd,
         NextFails, ChunkWriteFails, Unwound, DrainFails, EventWriteFails, WorkerEnds, Stopped,
         flagVars
<1>7. Agrees(w)'
  BY <1>0, <1>1, <1>2, <1>3, <1>4, <1>5, <1>6, AgreesKept
<1>8. Idling'
  BY <1>0, <1>2 DEF Idling
<1> QED
  BY <1>2, <1>7, <1>8 DEF StillAgreeing

(* audio.start is written.                                                  *)
LEMMA StartAgrees ==
    ASSUME NEW w, Agreeing(w), UNCHANGED holding, StartWritten
    PROVE  StillAgreeing(w)
<1>0. Inv /\ MessagesOK /\ Idling /\ connected /\ Sane(w) /\ Agrees(w)
  BY DEF Agreeing
<1>1. /\ worker = "start" /\ started' = TRUE /\ worker' \in {"drain", "next"}
      /\ UNCHANGED <<receiver, message, inbox, acceptedIds, pending, active, cancelled, stopping>>
  BY DEF StartWritten, peerVars, queueVars, recvVars
<1>2. active \in Ids /\ active # None /\ ~started
  BY <1>0, <1>1 DEF Inv, TypeOK, Working
<1>3. PICK e : e = [kind |-> "start", id |-> active]
  OBVIOUS
<1>4. wire' # wire /\ wire'.event = e /\ e \in Answer
  BY <1>0, <1>2, <1>3, WriteShows DEF StartWritten, Answer, EventKinds
<1> DEFINE x == Reads(w, e)
<1>5. x = [w EXCEPT !.audio = e.id]
  <2>1. /\ w.audio = None /\ w.segments # << >> /\ w.segments[1] = [id |-> e.id, acked |-> TRUE]
        /\ e.kind = "start"
    BY <1>0, <1>1, <1>2, <1>3 DEF Agrees, Voice
  <2> QED
    BY <1>0, <2>1, StartDue
<1>6. w \in View /\ ~w.misled
  BY <1>0, Parts
<1> HIDE DEF x
<1>7. /\ x.segments = w.segments /\ x.accepted = w.accepted /\ x.audio = active
      /\ x.cancel = w.cancel /\ ~x.misled
  BY <1>3, <1>5, <1>6 DEF View
<1>8. PICK acks \in Nat : Prefix(w, acks) /\ Backlog(w, acks) /\ Queue(w, acks)
  BY <1>0 DEF Agrees
<1>9. Unanswered' = Unanswered
  BY <1>1, SameUnanswered
<1>10. Prefix(x, acks)' /\ Queue(x, acks)'
  BY <1>1, <1>7, <1>8 DEF Prefix, Queue, Ahead
<1>11. Backlog(x, acks)'
  BY <1>1, <1>7, <1>8, <1>9 DEF Backlog
<1>12. Voice(x)'
  BY <1>1, <1>7 DEF Voice
<1>13. Mercy(x)'
  BY <1>0, <1>1, <1>7, <1>9 DEF Agrees, Mercy, Cancelling
<1>14. Agrees(x)'
  BY <1>10, <1>11, <1>12, <1>13 DEF Agrees
<1>15. Idling'
  BY <1>0, <1>1 DEF Idling
<1> QED
  BY <1>4, <1>7, <1>14, <1>15 DEF StillAgreeing, x

(* A chunk of audio is written.                                             *)
LEMMA ChunkAgrees ==
    ASSUME NEW w, Agreeing(w), UNCHANGED holding, ChunkWritten
    PROVE  StillAgreeing(w)
<1>0. Inv /\ MessagesOK /\ Idling /\ connected /\ Sane(w) /\ Agrees(w)
  BY DEF Agreeing
<1>1. /\ worker = "chunk" /\ worker' \in {"drain", "next"}
      /\ UNCHANGED <<receiver, message, inbox, acceptedIds, pending, active, started, cancelled,
                     stopping>>
  BY DEF ChunkWritten, peerVars, queueVars, flagVars, recvVars
<1>2. active \in Ids /\ active # None /\ started /\ pending \in Seq(Ids)
  BY <1>0, <1>1 DEF Inv, TypeOK, Working
<1>3. PICK e : e = [kind |-> "audio", id |-> active]
  OBVIOUS
<1>4. wire' # wire /\ wire'.event = e /\ e \in Answer
  BY <1>0, <1>2, <1>3, WriteShows DEF ChunkWritten, Answer, EventKinds
<1>5. Reads(w, e) = w
  BY <1>0, <1>2, <1>3, OthersDue DEF Agrees, Voice
<1>6. Unanswered' = Unanswered
  BY <1>1, SameUnanswered
<1>7. Cancelling' => Cancelling
  BY <1>1 DEF Cancelling
<1>8. Agrees(w)'
  BY <1>0, <1>1, <1>2, <1>6, <1>7, AgreesKept
<1>9. Idling' /\ ~w.misled
  BY <1>0, <1>1, Parts DEF Idling
<1> QED
  BY <1>4, <1>5, <1>8, <1>9 DEF StillAgreeing

(* What waits behind a segment that ended moves up.                         *)
LEMMA EndPromotes ==
    ASSUME Inv, EndWritten, ~cancelled
    PROVE  /\ pending \in Seq(Ids) /\ Ahead' = pending /\ Len(Ahead) = Len(pending) + 1
           /\ \A k \in 1 .. Len(pending) : Ahead[k + 1] = pending[k]
<1>1. active \in Ids /\ active # None /\ pending \in Seq(Ids) /\ None \notin Ids
  BY IdsAssumption DEF Inv, TypeOK, Working, EndWritten
<1>2. Ahead = <<active>> \o pending
  BY <1>1 DEF Ahead
<1>3. /\ Len(<<active>> \o pending) = Len(pending) + 1
      /\ \A k \in 1 .. Len(pending) : (<<active>> \o pending)[k + 1] = pending[k]
  BY <1>1
<1>4. Ahead' = pending
  <2>1. CASE pending = << >>
    BY <2>1 DEF EndWritten, Ahead
  <2>2. CASE pending # << >>
    <3>1. Head(pending) \in Ids /\ <<Head(pending)>> \o Tail(pending) = pending
      BY <1>1, <2>2
    <3>2. active' = Head(pending) /\ pending' = Tail(pending)
      BY <2>2 DEF EndWritten
    <3>3. Ahead' = <<active'>> \o pending'
      BY <1>1, <3>1, <3>2 DEF Ahead
    <3> QED
      BY <3>1, <3>2, <3>3
  <2> QED
    BY <2>1, <2>2
<1> QED
  BY <1>1, <1>2, <1>3, <1>4

(* A segment ends uncancelled.                                              *)
LEMMA DoneAgrees ==
    ASSUME NEW w, Agreeing(w), UNCHANGED holding, EndWritten \/ EndWrittenLate, ending = "done"
    PROVE  StillAgreeing(w)
<1>0. Inv /\ MessagesOK /\ Idling /\ connected /\ Sane(w) /\ Agrees(w)
  BY DEF Agreeing
<1>1. /\ worker = "end" /\ started' = FALSE /\ worker' \in {"ready", "done"}
      /\ UNCHANGED <<receiver, message, inbox, acceptedIds>>
      /\ Write(ending, active) /\ ~Cancelling'
  BY DEF EndWritten, EndWrittenLate, Stopped, Cancelling, peerVars, recvVars
<1>2. active \in Ids /\ active # None /\ started
  BY <1>0, <1>1 DEF Inv, TypeOK, Working
<1>3. PICK e : e = [kind |-> "done", id |-> active]
  OBVIOUS
<1>4. wire' # wire /\ wire'.event = e /\ e \in Answer
  BY <1>0, <1>1, <1>2, <1>3, WriteShows DEF Answer, EventKinds
<1>5. PICK acks \in Nat : Prefix(w, acks) /\ Backlog(w, acks) /\ Queue(w, acks)
  BY <1>0 DEF Agrees
<1> DEFINE x == Reads(w, e)
           s == w.segments
           l == Len(s)
           y == Len(x.segments)
<1>6. /\ ~x.misled /\ x.accepted = w.accepted /\ x.audio = None /\ x.cancel = w.cancel
      /\ y = l - 1 /\ \A k \in 1 .. l - 1 : x.segments[k] = s[k + 1]
      /\ acks \in Nat \ {0} /\ Prefix(x, acks - 1)
  <2>1. e.kind = "done" /\ e.id = w.audio /\ e.id # None
    BY <1>0, <1>2, <1>3 DEF Agrees, Voice
  <2> QED
    BY <1>0, <1>5, <2>1, AfterDone
<1>7. l \in Nat /\ acks \in 0 .. l
  BY <1>0, <1>5, Parts DEF Prefix
<1> HIDE DEF x, s, l, y
<1>8. Voice(x)' /\ Mercy(x)' /\ Prefix(x, acks - 1)'
  BY <1>1, <1>6 DEF Voice, Mercy, Prefix
<1>9. Backlog(x, acks - 1)'
  <2>1. CASE receiver = "done"
    BY <1>1, <2>1 DEF Backlog
  <2>2. CASE receiver # "done"
    <3> DEFINE U == Unanswered
               m == Len(U)
    <3>1. /\ w.accepted = acceptedIds
          /\ \A k \in 1 .. l - acks :
                k \in 1 .. m /\ Speaks(U[k], s[acks + k].id)
          /\ w.cancel = None => m = l - acks
          /\ w.cancel # None => \/ m = 0 /\ l = acks
                                \/ m = l - acks + 1 /\ U[m] = CancelMessage(w.cancel)
      BY <1>5, <2>2 DEF Backlog, s, l
    <3>2. Unanswered' = U
      BY <1>1, SameUnanswered
    <3> HIDE DEF U, m
    <3>3. y - (acks - 1) = l - acks /\ (y = acks - 1 <=> l = acks)
      BY <1>6, <1>7
    <3>4. ASSUME NEW k \in 1 .. l - acks
          PROVE  Speaks(U[k], x.segments[(acks - 1) + k].id)
      <4>1. (acks - 1) + k \in 1 .. l - 1 /\ ((acks - 1) + k) + 1 = acks + k
        BY <1>6, <1>7
      <4>2. x.segments[(acks - 1) + k] = s[acks + k]
        BY <1>6, <4>1
      <4> QED
        BY <3>1, <4>2
    <3>5. /\ x.accepted = acceptedIds'
          /\ \A k \in 1 .. y - (acks - 1) :
                k \in 1 .. m /\ Speaks(U[k], x.segments[(acks - 1) + k].id)
          /\ x.cancel = None => m = y - (acks - 1)
          /\ x.cancel # None => \/ m = 0 /\ y = acks - 1
                                \/ m = y - (acks - 1) + 1 /\ U[m] = CancelMessage(x.cancel)
      BY <1>1, <1>6, <3>1, <3>3, <3>4
    <3> QED
      BY <3>2, <3>5 DEF Backlog, U, m, y
  <2> QED
    BY <2>1, <2>2
<1>10. Queue(x, acks - 1)'
  <2> SUFFICES ASSUME ~stopping', ~cancelled'
               PROVE  acks - 1 = Len(Ahead')
                      /\ \A k \in 1 .. acks - 1 : x.segments[k].id = Ahead'[k]
    BY DEF Queue
  <2>1. EndWritten /\ ~stopping
    BY DEF EndWritten, EndWrittenLate, Stopped
  <2>2. ~cancelled
    BY <1>0, <1>1, <2>1 DEF Inv, Working
  <2> DEFINE p == Len(pending)
  <2>3. /\ pending \in Seq(Ids) /\ Ahead' = pending /\ Len(Ahead) = p + 1
        /\ \A k \in 1 .. p : Ahead[k + 1] = pending[k]
    BY <1>0, <2>1, <2>2, EndPromotes
  <2>4. acks = Len(Ahead) /\ \A k \in 1 .. acks : s[k].id = Ahead[k]
    BY <1>5, <2>1, <2>2 DEF Queue, s
  <2>5. p \in Nat
    BY <2>3, LenProperties
  <2>6. acks - 1 = Len(Ahead')
    BY <2>3, <2>4, <2>5
  <2> HIDE DEF p
  <2>7. ASSUME NEW k \in 1 .. acks - 1 PROVE x.segments[k].id = Ahead'[k]
    <3>1. k \in 1 .. l - 1 /\ k + 1 \in 1 .. acks /\ k \in 1 .. p
      BY <1>7, <2>3, <2>4, <2>5
    <3>2. x.segments[k] = s[k + 1] /\ s[k + 1].id = Ahead[k + 1]
      BY <1>6, <2>4, <3>1
    <3> QED
      BY <2>3, <3>1, <3>2
  <2> QED
    BY <2>6, <2>7
<1>11. Agrees(x)'
  <2>1. acks - 1 \in Nat
    BY <1>6
  <2> QED
    BY <1>8, <1>9, <1>10, <2>1 DEF Agrees
<1>12. Idling'
  BY <1>0, <1>1 DEF Idling
<1> QED
  BY <1>4, <1>6, <1>11, <1>12 DEF StillAgreeing, x

(* A cancelled segment ends.                                                *)
LEMMA CancelledAgrees ==
    ASSUME NEW w, Agreeing(w), UNCHANGED holding, EndWritten \/ EndWrittenLate,
           ending = "cancelled"
    PROVE  StillAgreeing(w)
<1>0. Inv /\ MessagesOK /\ Idling /\ connected /\ Sane(w) /\ Agrees(w)
  BY DEF Agreeing
<1>1. /\ worker = "end" /\ started' = FALSE /\ worker' \in {"ready", "done"}
      /\ UNCHANGED <<receiver, message, inbox, acceptedIds>>
      /\ Write(ending, active) /\ ~Cancelling'
  BY DEF EndWritten, EndWrittenLate, Stopped, Cancelling, peerVars, recvVars
<1>2. active \in Ids /\ active # None /\ started
  BY <1>0, <1>1 DEF Inv, TypeOK, Working
<1>3. PICK e : e = [kind |-> "cancelled", id |-> active]
  OBVIOUS
<1>4. wire' # wire /\ wire'.event = e /\ e \in Answer
  BY <1>0, <1>1, <1>2, <1>3, WriteShows DEF Answer, EventKinds
<1>5. w.audio = active /\ w.cancel = active /\ (receiver # "done" => Unanswered = << >>)
  BY <1>0, <1>1, <1>2 DEF Agrees, Voice, Mercy, Cancelling
<1> DEFINE x == Reads(w, e)
<1>6. x = [w EXCEPT !.segments = << >>, !.audio = None, !.cancel = None]
  BY <1>3, <1>5, CancelledDue
<1>7. w \in View /\ ~w.misled
  BY <1>0, Parts
<1> HIDE DEF x
<1>8. /\ x.segments = << >> /\ x.accepted = w.accepted /\ x.audio = None
      /\ x.cancel = None /\ ~x.misled
  BY <1>6, <1>7 DEF View
<1>9. Len(x.segments) = 0 /\ DOMAIN x.segments = {}
  BY <1>8
<1>10. Voice(x)' /\ Mercy(x)' /\ Prefix(x, 0)'
  BY <1>1, <1>8, <1>9 DEF Voice, Mercy, Prefix
<1>11. Backlog(x, 0)'
  <2>1. Unanswered' = Unanswered
    BY <1>1, SameUnanswered
  <2>2. receiver # "done" => w.accepted = acceptedIds
    BY <1>0 DEF Agrees, Backlog
  <2>3. Len(<< >>) = 0
    OBVIOUS
  <2> QED
    BY <1>1, <1>5, <1>8, <1>9, <2>1, <2>2, <2>3 DEF Backlog
<1>12. Queue(x, 0)'
  <2> SUFFICES ASSUME ~stopping' PROVE Ahead' = << >>
    BY DEF Queue
  <2>1. EndWritten /\ ~stopping
    BY DEF EndWritten, EndWrittenLate, Stopped
  <2>2. pending = << >>
    BY <1>0, <1>1, <2>1 DEF Inv, Working, Waiting
  <2> QED
    BY <2>1, <2>2 DEF EndWritten, Ahead
<1>13. Agrees(x)'
  <2>1. 0 \in Nat
    OBVIOUS
  <2> QED
    BY <1>10, <1>11, <1>12, <2>1 DEF Agrees
<1>14. Idling'
  BY <1>0, <1>1 DEF Idling
<1> QED
  BY <1>4, <1>8, <1>13, <1>14 DEF StillAgreeing, x

(* Every step of the worker.                                                *)
LEMMA WorkerAgrees ==
    ASSUME NEW w, Agreeing(w), UNCHANGED holding, WorkerStep
    PROVE  StillAgreeing(w)
<1>1. CASE EndWritten \/ EndWrittenLate
  <2>1. ending \in {"done", "cancelled"}
    BY <1>1 DEF Agreeing, Inv, TypeOK, Working, EndWritten, EndWrittenLate
  <2> QED
    BY <1>1, <2>1, DoneAgrees, CancelledAgrees
<1> QED
  BY <1>1, WorkerSilent, StartAgrees, ChunkAgrees DEF WorkerStep

-----------------------------------------------------------------------------
(* The steps of the supervisor.                                             *)

(* What a write that went out late shows.                                   *)
LEMMA LateShows ==
    ASSUME Inv, NEW k, NEW i, wire' = After(wire, k, i)
    PROVE  wire' # wire /\ wire'.event = [kind |-> k, id |-> i]
<1>1. wire.odd \in BOOLEAN /\ wire'.odd = ~wire.odd /\ wire'.event = [kind |-> k, id |-> i]
  BY DEF Inv, TypeOK, After
<1> QED
  BY <1>1

(* The receiver is cancelled while it acknowledges a segment, and the       *)
(* acknowledgement went out.                                                *)
LEMMA LateAckAgrees ==
    ASSUME NEW w, Agreeing(w), Supervise, receiver = "ack",
           wire' = After(wire, "accepted", message.id)
    PROVE  StillAgreeing(w)
<1>0. Inv /\ MessagesOK /\ Idling /\ connected /\ Sane(w) /\ Agrees(w)
  BY DEF Agreeing
<1>1. PICK e : e = [kind |-> "accepted", id |-> message.id]
  OBVIOUS
<1>2. wire' # wire /\ wire'.event = e
  BY <1>0, <1>1, LateShows
<1>3. /\ message.kind = "segment" /\ message.id \in Ids /\ e \in Answer /\ worker # "start"
  BY <1>0, <1>1 DEF Inv, Handled, Locking, Answer, EventKinds
<1>4. PICK acks \in Nat : Prefix(w, acks) /\ Backlog(w, acks)
  BY <1>0 DEF Agrees
<1>5. acks + 1 \in DOMAIN w.segments /\ message.id = w.segments[acks + 1].id
  <2>1. message.kind # "cancel"
    BY <1>3
  <2> QED
    BY <1>0, <1>3, <1>4, <2>1, HandledKind DEF CancelMessage, JunkMessage, Speaks
<1> DEFINE x == Reads(w, e)
<1>6. ~x.misled /\ x.audio = w.audio /\ Prefix(x, acks + 1)
  <2>1. e.kind = "accepted" /\ e.id = w.segments[acks + 1].id
    BY <1>1, <1>5
  <2> QED
    BY <1>0, <1>4, <1>5, <2>1, AfterAcceptance
<1> HIDE DEF x
<1>7. /\ receiver' = "done" /\ message' = NoMessage /\ stopping' = TRUE
      /\ UNCHANGED <<active, started, worker, ending>>
  BY DEF Supervise, Stopped, workVars
<1>8. ~Cancelling
  BY NotCancelling
<1>9. Voice(x)' /\ Mercy(x)' /\ Prefix(x, acks + 1)'
  BY <1>0, <1>3, <1>6, <1>7, <1>8 DEF Agrees, Voice, Mercy, Cancelling, Prefix
<1>10. Backlog(x, acks + 1)' /\ Queue(x, acks + 1)' /\ acks + 1 \in Nat
  BY <1>7 DEF Backlog, Queue
<1>11. Agrees(x)'
  BY <1>9, <1>10 DEF Agrees
<1>12. Idling'
  BY <1>7 DEF Idling
<1> QED
  BY <1>2, <1>3, <1>6, <1>11, <1>12 DEF StillAgreeing, x

(* The receiver is cancelled while it refuses a message, and the refusal    *)
(* went out.                                                                *)
LEMMA LateErrorAgrees ==
    ASSUME NEW w, Agreeing(w), Supervise, receiver = "error",
           wire' = After(wire, ErrorKind, message.id)
    PROVE  StillAgreeing(w)
<1>1. Inv
  BY DEF Agreeing
<1>2. PICK e : e = [kind |-> ErrorKind, id |-> message.id]
  OBVIOUS
<1>3. wire' # wire /\ wire'.event = e
  BY <1>1, <1>2, LateShows
<1>4. AnswersOldest /\ receiver' = "done" /\ message' = NoMessage
  BY DEF AnswersOldest, Supervise, Stopped, workVars
<1>5. Idling'
  BY <1>4 DEF Idling
<1>6. CASE message = JunkMessage
  <2>1. e = Uncorrelated
    BY <1>2, <1>6 DEF ErrorKind, JunkMessage, Uncorrelated
  <2>2. Waits(w)
    BY <1>6, JunkWaits
  <2> QED
    BY <1>3, <1>5, <2>1, <2>2 DEF StillAgreeing
<1>7. CASE message # JunkMessage
  <2>1. message.id \in Ids
    BY <1>7, HandledId
  <2>2. e.kind \in {"rejected", "error"} /\ e.id = message.id /\ e \in Answer
    BY <1>2, <2>1 DEF ErrorKind, Answer, EventKinds
  <2>3. ~Reads(w, e).misled /\ Agrees(Reads(w, e))'
    BY <1>4, <1>7, <2>2, AnswerRefuses
  <2> QED
    BY <1>3, <1>5, <2>2, <2>3 DEF StillAgreeing
<1> QED
  BY <1>6, <1>7

(* serve_session() sees that a task ended.                                  *)
LEMMA SuperviseAgrees ==
    ASSUME NEW w, Agreeing(w), UNCHANGED holding, Supervise
    PROVE  StillAgreeing(w)
<1>0. Inv /\ MessagesOK /\ Idling /\ connected /\ Sane(w) /\ Agrees(w)
  BY DEF Agreeing
<1>1. CASE wire' = wire
  <2>1. /\ receiver' = "done" /\ message' = NoMessage /\ stopping' = TRUE
        /\ UNCHANGED <<active, started, worker, ending>>
    BY DEF Supervise, Stopped, workVars
  <2>2. active # None => active \in Ids /\ pending \in Seq(Ids)
    BY <1>0, ActiveType
  <2>3. Cancelling' => Cancelling
    BY <2>1 DEF Cancelling
  <2>4. Agrees(w)'
    BY <1>0, <2>1, <2>2, <2>3, AgreesKept
  <2> QED
    BY <1>1, <2>1, <2>4 DEF StillAgreeing, Idling
<1>2. CASE wire' # wire
  <2>1. \/ receiver = "ack" /\ wire' = After(wire, "accepted", message.id)
        \/ receiver = "error" /\ wire' = After(wire, ErrorKind, message.id)
    BY <1>2 DEF Supervise, LateWrite
  <2> QED
    BY <2>1, LateAckAgrees, LateErrorAgrees
<1> QED
  BY <1>1, <1>2

(* The session's end is reported.                                           *)
LEMMA ReleaseAgrees ==
    ASSUME NEW w, Agreeing(w), UNCHANGED holding, Release
    PROVE  StillAgreeing(w)
<1>0. Inv /\ MessagesOK /\ Idling /\ connected /\ Sane(w) /\ Agrees(w)
  BY DEF Agreeing
<1>1. UNCHANGED <<receiver, message, inbox, acceptedIds, pending, active, started, cancelled,
                  stopping, worker, ending>>
  BY DEF Release, peerVars, queueVars, flagVars, recvVars, workVars
<1>2. Unanswered' = Unanswered
  BY <1>1, SameUnanswered
<1>3. active \in Ids \cup {None} /\ (active # None => active \in Ids /\ pending \in Seq(Ids))
  BY <1>0, ActiveType
<1>4. Cancelling' => Cancelling
  BY <1>1 DEF Cancelling
<1>5. Agrees(w)'
  BY <1>0, <1>1, <1>2, <1>3, <1>4, AgreesKept
<1>6. Idling' /\ ~w.misled
  BY <1>0, <1>1, Parts DEF Idling
<1>7. wire' = wire \/ wire' = After(wire, "fatal", active)
  BY DEF Release, ReportError
<1>8. CASE wire' = After(wire, "fatal", active)
  <2>1. PICK e : e = [kind |-> "fatal", id |-> active]
    OBVIOUS
  <2>2. wire' # wire /\ wire'.event = e /\ e \in Answer
    BY <1>0, <1>3, <1>8, <2>1, LateShows DEF Answer
  <2>3. Reads(w, e) = w
    BY <2>1, OthersDue
  <2> QED
    BY <1>5, <1>6, <2>2, <2>3 DEF StillAgreeing
<1> QED
  BY <1>5, <1>6, <1>7, <1>8 DEF StillAgreeing

(* Every step of the server.                                                *)
LEMMA ServerAgrees ==
    ASSUME NEW w, Agreeing(w), UNCHANGED holding, ServerStep
    PROVE  StillAgreeing(w)
  BY ReceiverSilent, AckAgrees, CancelAgrees, ErrorAgrees, WorkerAgrees, SuperviseAgrees,
     ReleaseAgrees
  DEF ServerStep, ReceiverStep, SupervisorStep

-----------------------------------------------------------------------------
(* The client's calls keep them in agreement.                               *)

(* A client that asked for no cancellation: none is being carried out.      *)
LEMMA NoneCancelled ==
    ASSUME NEW w, Agreeing(w), w.cancel = None
    PROVE  ~Cancelling
<1>1. Cancelling => active \in Ids /\ active # None
  BY IdsAssumption DEF Agreeing, Inv, TypeOK, Waiting, Working, Cancelling
<1>2. Cancelling => w.cancel = active
  BY DEF Agreeing, Agrees, Mercy
<1> QED
  BY <1>1, <1>2

(* A segment is registered, and its message with it.                        *)
LEMMA AddAgrees ==
    ASSUME NEW w, Agreeing(w), NEW i, Fresh(w, i), NEW ok \in BOOLEAN,
           UNCHANGED vars, holding = NoMessage, holding' = MessageFor(i, ok)
    PROVE  Agrees(Adds(w, i))'
<1>0. Inv /\ MessagesOK /\ Idling /\ connected /\ Sane(w) /\ Agrees(w)
  BY DEF Agreeing
<1>1. w.cancel = None /\ i \in Ids
  BY DEF Fresh
<1>2. PICK m : m = MessageFor(i, ok)
  OBVIOUS
<1>3. m \in Messages /\ Speaks(m, i)
  BY <1>1, <1>2 DEF MessageFor, Messages, Speaks, SegmentMessage
<1>4. PICK acks \in Nat : Prefix(w, acks) /\ Backlog(w, acks) /\ Queue(w, acks)
  BY <1>0 DEF Agrees
<1> DEFINE x == Adds(w, i)
           s == w.segments
           new == [id |-> i, acked |-> FALSE]
           l == Len(s)
           U == Unanswered
           n == Len(U)
<1>5. /\ Sane(x) /\ x.segments = Append(s, new) /\ x.accepted = w.accepted
      /\ x.audio = w.audio /\ x.cancel = w.cancel
  BY <1>0, SaneAdds
<1>6. s \in Seq(Segment) /\ l \in Nat /\ DOMAIN s = 1 .. l /\ new \in Segment
  BY <1>0, <1>1, Parts DEF Segment
<1>7. /\ Len(x.segments) = l + 1 /\ DOMAIN x.segments = 1 .. l + 1
      /\ x.segments[l + 1] = new /\ \A k \in 1 .. l : x.segments[k] = s[k]
  <2>1. /\ Append(s, new) \in Seq(Segment) /\ Len(Append(s, new)) = l + 1
        /\ Append(s, new)[l + 1] = new /\ \A k \in 1 .. l : Append(s, new)[k] = s[k]
    BY <1>6, AppendProperties
  <2>2. DOMAIN Append(s, new) = 1 .. l + 1
    BY <2>1, LenProperties
  <2> QED
    BY <1>5, <2>1, <2>2
<1>8. U \in Seq(Messages) /\ Unanswered' = Append(U, m)
  <2>1. UNCHANGED <<inbox, message>> /\ holding' = m
    BY <1>2 DEF vars, peerVars, recvVars
  <2> QED
    BY <1>0, <1>3, <2>1, Registered, UnansweredType
<1>9. /\ n \in Nat /\ Len(Unanswered') = n + 1 /\ Unanswered'[n + 1] = m
      /\ \A k \in 1 .. n : Unanswered'[k] = U[k]
  BY <1>3, <1>8, AppendProperties, LenProperties
<1>10. UNCHANGED <<receiver, acceptedIds, pending, active, started, cancelled, stopping,
                   worker, ending>>
  BY DEF vars, queueVars, flagVars, recvVars, workVars
<1>11. acks \in 0 .. l /\ (\A k \in 1 .. l : s[k].acked <=> k <= acks)
  BY <1>4, <1>6 DEF Prefix
<1>12. receiver # "done" =>
           /\ w.accepted = acceptedIds /\ n = l - acks
           /\ \A k \in 1 .. l - acks :
                 k \in 1 .. n /\ Speaks(U[k], s[acks + k].id)
  BY <1>1, <1>4 DEF Backlog
<1> HIDE DEF x, s, l, U, n
<1>13. Prefix(x, acks)'
  <2>1. ASSUME NEW k \in 1 .. l + 1 PROVE x.segments[k].acked <=> k <= acks
    <3>1. CASE k = l + 1
      <4>1. ~(k <= acks)
        BY <1>6, <1>11, <3>1
      <4> QED
        BY <1>7, <3>1, <4>1 DEF new
    <3>2. CASE k # l + 1
      <4>1. k \in 1 .. l
        BY <1>6, <3>2
      <4> QED
        BY <1>7, <1>11, <4>1
    <3> QED
      BY <3>1, <3>2
  <2>2. acks \in 0 .. l + 1
    BY <1>6, <1>11
  <2> QED
    BY <1>7, <2>1, <2>2 DEF Prefix
<1>14. Backlog(x, acks)'
  <2> SUFFICES ASSUME receiver' # "done"
               PROVE  /\ x.accepted = acceptedIds' /\ Len(Unanswered') = (l + 1) - acks
                      /\ \A k \in 1 .. (l + 1) - acks :
                            /\ k \in 1 .. Len(Unanswered')
                            /\ Speaks(Unanswered'[k], x.segments[acks + k].id)
    BY <1>1, <1>5, <1>7 DEF Backlog
  <2>1. n = l - acks /\ n + 1 = (l + 1) - acks
    BY <1>6, <1>10, <1>11, <1>12
  <2>2. ASSUME NEW k \in 1 .. n + 1
        PROVE  Speaks(Unanswered'[k], x.segments[acks + k].id)
    <3>1. CASE k = n + 1
      <4>1. acks + k = l + 1
        BY <1>6, <1>11, <2>1, <3>1
      <4> QED
        BY <1>3, <1>7, <1>9, <3>1, <4>1 DEF new
    <3>2. CASE k # n + 1
      <4>1. k \in 1 .. l - acks /\ k \in 1 .. n /\ acks + k \in 1 .. l
        BY <1>6, <1>9, <1>11, <2>1, <3>2
      <4> QED
        BY <1>7, <1>9, <1>10, <1>12, <4>1
    <3> QED
      BY <3>1, <3>2
  <2> QED
    BY <1>5, <1>9, <1>10, <1>12, <2>1, <2>2
<1>15. Queue(x, acks)'
  <2> SUFFICES ASSUME ~stopping', ~cancelled'
               PROVE  acks = Len(Ahead') /\ \A k \in 1 .. acks : x.segments[k].id = Ahead'[k]
    BY DEF Queue
  <2>1. Ahead' = Ahead /\ acks = Len(Ahead) /\ \A k \in 1 .. acks : s[k].id = Ahead[k]
    BY <1>4, <1>10 DEF Queue, Ahead, s
  <2>2. \A k \in 1 .. acks : k \in 1 .. l
    BY <1>6, <1>11
  <2> QED
    BY <1>7, <2>1, <2>2
<1>16. Voice(x)'
  <2>1. /\ w.audio = IF started THEN active ELSE None
        /\ worker = "start" => s # << >> /\ s[1] = [id |-> active, acked |-> TRUE]
    BY <1>0 DEF Agrees, Voice, s
  <2>2. s # << >> => 1 \in 1 .. l
    BY <1>6, EmptySeq DEF l
  <2>3. x.segments # << >>
    <3>1. Len(<< >>) = 0 /\ l + 1 # 0
      BY <1>6
    <3> QED
      BY <1>7, <3>1
  <2> QED
    BY <1>5, <1>7, <1>10, <2>1, <2>2, <2>3 DEF Voice
<1>17. Mercy(x)'
  <2>1. ~Cancelling
    BY <1>1, NoneCancelled
  <2> QED
    BY <1>10, <2>1 DEF Mercy, Cancelling
<1>18. Agrees(x)'
  BY <1>13, <1>14, <1>15, <1>16, <1>17 DEF Agrees
<1> QED
  BY <1>18 DEF x

(* A cancellation is registered, and its message with it.                   *)
LEMMA AskAgrees ==
    ASSUME NEW w, Agreeing(w), NEW i \in Ids, w.cancel = None,
           UNCHANGED vars, holding = NoMessage, holding' = CancelMessage(i)
    PROVE  Agrees(Cancels(w, i))'
<1>0. Inv /\ MessagesOK /\ Idling /\ connected /\ Sane(w) /\ Agrees(w)
  BY DEF Agreeing
<1>1. PICK m : m = CancelMessage(i)
  OBVIOUS
<1>2. m \in Messages
  BY <1>1 DEF Messages
<1>3. PICK acks \in Nat : Prefix(w, acks) /\ Backlog(w, acks) /\ Queue(w, acks)
  BY <1>0 DEF Agrees
<1> DEFINE x == Cancels(w, i)
           l == Len(w.segments)
           U == Unanswered
           n == Len(U)
<1>4. /\ x.segments = w.segments /\ x.accepted = w.accepted /\ x.audio = w.audio
      /\ x.cancel = i /\ i # None
  <2>1. w \in View /\ i # None
    BY <1>0, Parts, IdsAssumption
  <2> QED
    BY <2>1 DEF View, Cancels
<1>5. U \in Seq(Messages) /\ Unanswered' = Append(U, m)
  <2>1. UNCHANGED <<inbox, message>> /\ holding' = m
    BY <1>1 DEF vars, peerVars, recvVars
  <2> QED
    BY <1>0, <1>2, <2>1, Registered, UnansweredType
<1>6. /\ n \in Nat /\ Len(Unanswered') = n + 1 /\ Unanswered'[n + 1] = m
      /\ \A k \in 1 .. n : Unanswered'[k] = U[k]
  BY <1>2, <1>5, AppendProperties, LenProperties
<1>7. UNCHANGED <<receiver, acceptedIds, pending, active, started, cancelled, stopping,
                  worker, ending>>
  BY DEF vars, queueVars, flagVars, recvVars, workVars
<1>8. receiver # "done" =>
          /\ w.accepted = acceptedIds /\ n = l - acks
          /\ \A k \in 1 .. l - acks :
                k \in 1 .. n /\ Speaks(U[k], w.segments[acks + k].id)
  BY <1>3 DEF Backlog
<1>9. l \in Nat /\ acks \in 0 .. l
  BY <1>0, <1>3, Parts DEF Prefix
<1> HIDE DEF x, l, U, n
<1>10. Prefix(x, acks)' /\ Queue(x, acks)'
  BY <1>3, <1>4, <1>7 DEF Prefix, Queue, Ahead
<1>11. Backlog(x, acks)'
  <2> SUFFICES ASSUME receiver' # "done"
               PROVE  /\ x.accepted = acceptedIds'
                      /\ Len(Unanswered') = l - acks + 1
                      /\ Unanswered'[Len(Unanswered')] = CancelMessage(i)
                      /\ \A k \in 1 .. l - acks :
                            /\ k \in 1 .. Len(Unanswered')
                            /\ Speaks(Unanswered'[k], x.segments[acks + k].id)
    BY <1>4 DEF Backlog, l
  <2>1. ASSUME NEW k \in 1 .. l - acks
        PROVE  k \in 1 .. n + 1 /\ Unanswered'[k] = U[k]
    BY <1>6, <1>7, <1>8
  <2> QED
    BY <1>1, <1>4, <1>6, <1>7, <1>8, <2>1
<1>12. Voice(x)'
  BY <1>0, <1>4, <1>7 DEF Agrees, Voice
<1>13. Mercy(x)'
  <2>1. ~Cancelling
    BY NoneCancelled
  <2> QED
    BY <1>7, <2>1 DEF Mercy, Cancelling
<1>14. Agrees(x)'
  BY <1>10, <1>11, <1>12, <1>13 DEF Agrees
<1> QED
  BY <1>14 DEF x

-----------------------------------------------------------------------------
(* The invariant of the session.                                            *)

(* At the start nothing is outstanding.                                     *)
LEMMA SessionInitInv == SessionInit => SessionInv
<1> SUFFICES ASSUME SessionInit PROVE SessionInv
  OBVIOUS
<1>1. Inv
  BY InitInv DEF SessionInit
<1>2. MessagesOK /\ Idling /\ connected /\ link = "up" /\ outbox = << >>
  BY DEF SessionInit, Init, MessagesOK, Idling
<1>3. /\ view.segments = << >> /\ view.accepted = {} /\ view.audio = None
      /\ view.cancel = None /\ view.misled = FALSE /\ view \in View
  BY DEF SessionInit, View
<1>4. Sane(view)
  <2>1. DOMAIN view.segments = {}
    BY <1>3
  <2> QED
    BY <1>3, <2>1 DEF Sane
<1>5. Leads(view, outbox, view) /\ outbox \in Seq(Answer)
  BY <1>2, <1>4, LeadsNowhere
<1>6. Agrees(view)
  <2>1. Unanswered = << >> \o << >> \o << >>
    BY DEF SessionInit, Init, Unanswered, Slip
  <2>2. Len(Unanswered) = 0 /\ Len(view.segments) = 0 /\ DOMAIN view.segments = {}
    BY <1>3, <2>1
  <2>3. Prefix(view, 0) /\ Backlog(view, 0)
    BY <1>3, <2>2 DEF SessionInit, Init, Prefix, Backlog
  <2>4. Queue(view, 0)
    BY DEF SessionInit, Init, Queue, Ahead
  <2>5. Voice(view) /\ Mercy(view)
    BY <1>3 DEF SessionInit, Init, Voice, Mercy, Cancelling
  <2>6. 0 \in Nat
    OBVIOUS
  <2> QED
    BY <2>3, <2>4, <2>5, <2>6 DEF Agrees
<1> QED
  BY <1>1, <1>2, <1>5, <1>6 DEF SessionInv, InStep

(* The pipeline's invariant gives the types of its messages.                *)
LEMMA TypesOfMessages ==
    Inv /\ holding \in Messages \cup {NoMessage} => MessagesOK
  BY DEF Inv, TypeOK, MessagesOK

(* A client that leaves, asking for the close or not, is one whose session  *)
(* goes on by itself.                                                       *)
LEMMA CloseInv ==
    ASSUME Inv, CloseClient
    PROVE  Inv'
<1>1. /\ inbox' \in {inbox, Append(inbox, CloseMessage)} /\ connected' = FALSE
      /\ UNCHANGED <<said, wire, queueVars, flagVars, lock, recvVars, workVars, superVars>>
  BY DEF CloseClient
<1>2. inbox' \in Seq(Messages)
  <2>1. CloseMessage \in Messages /\ inbox \in Seq(Messages)
    BY DEF Messages, Inv, TypeOK
  <2>2. Append(inbox, CloseMessage) \in Seq(Messages)
    BY <2>1, AppendProperties
  <2> QED
    BY <1>1, <2>1, <2>2
<1> USE DEF Inv, queueVars, flagVars, recvVars, workVars, superVars
<1>3. TypeOK'
  <2>1. connected' \in BOOLEAN
    BY <1>1
  <2>2. /\ UNCHANGED <<said, wire, acceptedIds, pending, pendingChars, active, started, cancelled,
                      stopping, ready, lock>>
        /\ UNCHANGED <<receiver, message, receiverEnd, worker, workerEnd, generator, chunks,
                      ending, supervisor, closeCode, slot>>
    BY <1>1
  <2> QED
    BY <1>2, <2>1, <2>2 DEF TypeOK
<1>4. Locking' /\ Handled'
  BY <1>1 DEF Locking, Handled, QueueFull
<1>5. Waiting'
  BY <1>1 DEF Waiting, QueueWithinLimits
<1>6. Working' /\ Ending' /\ SessionEndsWithCause'
  BY <1>1 DEF Working, Ending, SessionEndsWithCause, SessionError
<1> QED
  BY <1>3, <1>4, <1>5, <1>6

(* The receiver has a message only while it handles one.                    *)
LEMMA IdlingKept ==
    ASSUME Idling, ServerStep
    PROVE  Idling'
<1>1. CASE ReceiverStep \/ IdleTimeout
  BY <1>1
  DEF Idling, ReceiverStep, IdleTimeout, Receive, ReceiveEof, ReceiverSeesStop, HandleSegment,
      AckWritten, HandleCancel, HandleClose, HandleError, ErrorWritten, ReceiverWriteFails,
      ReceiverEnds, Handling
<1>2. CASE WorkerStep
  <2>1. UNCHANGED recvVars
    BY <1>2
    DEF WorkerStep, WorkerSeesStop, BeginSegment, StartWritten, NextChunk, NextDone, ChunkWritten,
        Drained, BeginEnd, EndWritten, EndWrittenLate, NextFails, ChunkWriteFails, Unwound,
        DrainFails, EventWriteFails
  <2> QED
    BY <2>1 DEF Idling, recvVars
<1>3. CASE SupervisorStep
  BY <1>3 DEF Idling, SupervisorStep, Supervise, Release, recvVars
<1> QED
  BY <1>1, <1>2, <1>3 DEF ServerStep

(* The peer's connection is not the server's to change.                     *)
LEMMA ConnectedKept == ServerStep => UNCHANGED connected
<1> SUFFICES ASSUME ServerStep PROVE UNCHANGED connected
  OBVIOUS
<1>1. CASE ReceiverStep \/ IdleTimeout
  BY <1>1
  DEF ReceiverStep, IdleTimeout, Receive, ReceiveEof, ReceiverSeesStop, HandleSegment,
      AckWritten, HandleCancel, HandleClose, HandleError, ErrorWritten, ReceiverWriteFails,
      peerVars
<1>2. CASE WorkerStep
  BY <1>2
  DEF WorkerStep, WorkerSeesStop, BeginSegment, StartWritten, NextChunk, NextDone, ChunkWritten,
      Drained, BeginEnd, EndWritten, EndWrittenLate, NextFails, ChunkWriteFails, Unwound,
      DrainFails, EventWriteFails, peerVars
<1>3. CASE SupervisorStep
  BY <1>3 DEF SupervisorStep, Supervise, Release, peerVars
<1> QED
  BY <1>1, <1>2, <1>3 DEF ServerStep

(* An answer on its way is an event.                                        *)
LEMMA AnswersAreEvents == Answer \subseteq Event /\ Uncorrelated \in Event
  BY DEF Answer, Event, EventKinds, Uncorrelated

(* Events written behind the one that names no segment change nothing.      *)
LEMMA SpoiltOn ==
    ASSUME Spoilt, UNCHANGED view,
           UNCHANGED outbox \/ \E e \in Event : outbox' = Append(outbox, e)
    PROVE  Spoilt'
<1>1. outbox \in Seq(Event)
  BY DEF Spoilt
<1>2. PICK p, w :
         /\ p \in Seq(Answer) /\ Len(p) < Len(outbox)
         /\ \A n \in 1 .. Len(p) : outbox[n] = p[n]
         /\ outbox[Len(p) + 1] = Uncorrelated
         /\ Leads(view, p, w) /\ Waits(w)
  BY DEF Spoilt
<1>3. CASE UNCHANGED outbox
  BY <1>1, <1>2, <1>3 DEF Spoilt
<1>4. ASSUME NEW e \in Event, outbox' = Append(outbox, e) PROVE Spoilt'
  <2>1. /\ outbox' \in Seq(Event) /\ Len(outbox') = Len(outbox) + 1
        /\ \A n \in 1 .. Len(outbox) : outbox'[n] = outbox[n]
    BY <1>1, <1>4, AppendProperties
  <2>2. Len(outbox) \in Nat /\ Len(p) \in Nat
    BY <1>1, LenProperties
  <2>3. Len(p) < Len(outbox') /\ Len(p) + 1 \in 1 .. Len(outbox)
        /\ \A n \in 1 .. Len(p) : n \in 1 .. Len(outbox)
    BY <1>2, <2>1, <2>2
  <2>4. (\A n \in 1 .. Len(p) : outbox'[n] = p[n]) /\ outbox'[Len(p) + 1] = Uncorrelated
    BY <1>2, <2>1, <2>3
  <2> QED
    BY <1>2, <2>1, <2>3, <2>4 DEF Spoilt
<1> QED
  BY <1>3, <1>4

(* The refusal of a message that is too large is written.                   *)
LEMMA Spoils ==
    ASSUME outbox \in Seq(Answer), NEW w, Leads(view, outbox, w), Waits(w), UNCHANGED view,
           outbox' = Append(outbox, Uncorrelated)
    PROVE  Spoilt'
<1>1. outbox \in Seq(Event) /\ Uncorrelated \in Event /\ Len(outbox) \in Nat
  BY AnswersAreEvents, LenProperties
<1>2. /\ outbox' \in Seq(Event) /\ Len(outbox') = Len(outbox) + 1
      /\ outbox'[Len(outbox) + 1] = Uncorrelated
      /\ \A n \in 1 .. Len(outbox) : outbox'[n] = outbox[n]
  BY <1>1, AppendProperties
<1>3. Len(outbox) < Len(outbox')
  BY <1>1, <1>2
<1> QED
  BY <1>2, <1>3 DEF Spoilt

(* What waits goes on waiting when more is registered.                      *)
LEMMA WaitsOn ==
    ASSUME NEW w, Sane(w), Waits(w), NEW i
    PROVE  (i \in Ids => Waits(Adds(w, i))) /\ Waits(Cancels(w, i)) /\ Waits(Misled(w))
<1>1. PICK k \in DOMAIN w.segments : ~w.segments[k].acked /\ w.segments[k].id \in Oversized
  BY DEF Waits
<1>2. w \in View /\ w.segments \in Seq(Segment)
  BY Parts
<1>3. Cancels(w, i).segments = w.segments /\ Misled(w).segments = w.segments
  BY <1>2 DEF View, Cancels, Misled
<1>4. ASSUME i \in Ids PROVE Waits(Adds(w, i))
  <2> DEFINE new == [id |-> i, acked |-> FALSE]
             t   == Append(w.segments, new)
  <2>1. new \in Segment
    BY <1>4 DEF Segment
  <2>2. Adds(w, i).segments = t
    BY <1>2 DEF View, Adds
  <2>3. /\ t \in Seq(Segment) /\ Len(t) = Len(w.segments) + 1
        /\ \A n \in 1 .. Len(w.segments) : t[n] = w.segments[n]
    BY <1>2, <2>1, AppendProperties
  <2>4. k \in 1 .. Len(w.segments) /\ k \in 1 .. Len(t) /\ DOMAIN t = 1 .. Len(t)
    BY <1>2, <2>3, LenProperties
  <2> HIDE DEF t
  <2> QED
    BY <1>1, <2>2, <2>3, <2>4 DEF Waits
<1> QED
  BY <1>1, <1>3, <1>4 DEF Waits

(* The next event names no segment, or is an answer that can be read.       *)
LEMMA SpoiltRead ==
    ASSUME Spoilt
    PROVE  /\ outbox # << >>
           /\ \/ Head(outbox) = Uncorrelated /\ Sane(view) /\ Waits(view)
              \/ /\ Head(outbox) # Uncorrelated /\ ~Reads(view, Head(outbox)).misled
                 /\ view' = Reads(view, Head(outbox)) /\ outbox' = Tail(outbox) => Spoilt'
<1>1. outbox \in Seq(Event)
  BY DEF Spoilt
<1>2. PICK p, w :
         /\ p \in Seq(Answer) /\ Len(p) < Len(outbox)
         /\ \A n \in 1 .. Len(p) : outbox[n] = p[n]
         /\ outbox[Len(p) + 1] = Uncorrelated
         /\ Leads(view, p, w) /\ Waits(w)
  BY DEF Spoilt
<1>3. Len(p) \in Nat /\ Len(outbox) \in Nat \ {0} /\ outbox # << >>
  <2>1. Len(p) \in Nat /\ Len(outbox) \in Nat
    BY <1>1, LenProperties
  <2> QED
    BY <1>2, <2>1
<1>4. /\ Head(outbox) = outbox[1] /\ Tail(outbox) \in Seq(Event)
      /\ Len(Tail(outbox)) = Len(outbox) - 1
      /\ \A n \in 1 .. Len(outbox) - 1 : Tail(outbox)[n] = outbox[n + 1]
  BY <1>1, <1>3, HeadTailProperties
<1>5. CASE p = << >>
  <2>1. Len(p) = 0
    BY <1>5
  <2>2. view = w
    BY <1>2, <2>1 DEF Leads
  <2>3. Sane(view)
    BY <1>2, LeadsSanely
  <2> QED
    BY <1>2, <1>3, <1>4, <2>1, <2>2, <2>3
<1>6. CASE p # << >>
  <2>0. p \in Seq(Answer)
    BY <1>2
  <2>1. /\ Len(p) \in Nat \ {0} /\ Head(p) = p[1] /\ p[1] \in Answer /\ Tail(p) \in Seq(Answer)
        /\ Len(Tail(p)) = Len(p) - 1 /\ \A n \in 1 .. Len(p) - 1 : Tail(p)[n] = p[n + 1]
    <3>1. Len(p) \in Nat \ {0} /\ 1 \in 1 .. Len(p)
      BY <1>6, <2>0, EmptySeq
    <3> QED
      BY <1>6, <2>0, <3>1, HeadTailProperties, ElementOfSeq
  <2>2. Head(outbox) = Head(p) /\ Head(outbox) # Uncorrelated
    <3>1. 1 \in 1 .. Len(p)
      BY <2>1
    <3>2. Uncorrelated \notin Answer
      BY IdsAssumption DEF Answer, Uncorrelated
    <3> QED
      BY <1>2, <1>4, <2>1, <3>1, <3>2
  <2>3. Leads(Reads(view, Head(p)), Tail(p), w) /\ ~Reads(view, Head(p)).misled
    BY <1>2, <1>6, LeadsFrom
  <2>4. ASSUME view' = Reads(view, Head(outbox)), outbox' = Tail(outbox) PROVE Spoilt'
    <3>1. Len(Tail(p)) < Len(outbox') /\ Len(Tail(p)) + 1 = Len(p)
      BY <1>2, <1>3, <1>4, <2>1, <2>4
    <3>2. \A n \in 1 .. Len(Tail(p)) : outbox'[n] = Tail(p)[n]
      <4> SUFFICES ASSUME NEW n \in 1 .. Len(Tail(p)) PROVE outbox'[n] = Tail(p)[n]
        OBVIOUS
      <4>1. n \in 1 .. Len(p) - 1 /\ n + 1 \in 1 .. Len(p) /\ n \in 1 .. Len(outbox) - 1
        BY <1>2, <1>3, <2>1
      <4> QED
        BY <1>2, <1>4, <2>1, <2>4, <4>1
    <3>3. outbox'[Len(Tail(p)) + 1] = Uncorrelated
      <4>1. Len(p) \in 1 .. Len(outbox) - 1
        BY <1>2, <1>3, <2>1
      <4> QED
        BY <1>2, <1>4, <2>4, <3>1, <4>1
    <3>4. Leads(view', Tail(p), w) /\ outbox' \in Seq(Event)
      BY <1>4, <2>2, <2>3, <2>4
    <3> QED
      BY <1>2, <2>1, <3>1, <3>2, <3>3, <3>4 DEF Spoilt
  <2> QED
    BY <1>3, <2>2, <2>3, <2>4
<1> QED
  BY <1>5, <1>6

(* A step of the server, whose write travels to the client.                 *)
LEMMA ServesInv == SessionInv /\ Serves => SessionInv'
<1> SUFFICES ASSUME SessionInv, Serves PROVE SessionInv'
  OBVIOUS
<1>1. /\ Inv /\ MessagesOK /\ Idling /\ link # "misled" /\ ServerStep
      /\ UNCHANGED <<view, holding, link>> /\ (link = "uncorrelated" => Waits(view))
  BY DEF SessionInv, Serves
<1>2. Inv'
  BY <1>1, NextInv DEF Next
<1>3. MessagesOK' /\ Idling' /\ link' # "misled" /\ (link' = "uncorrelated" => Waits(view'))
  <2>1. holding' \in Messages \cup {NoMessage}
    BY <1>1 DEF MessagesOK
  <2>2. MessagesOK'
    BY <1>2, <2>1 DEF Inv, TypeOK, MessagesOK
  <2> QED
    BY <1>1, <2>2, IdlingKept
<1>4. ASSUME link' = "up", InStep
      PROVE  connected' /\ (InStep' \/ Spoilt')
  <2>1. /\ link = "up" /\ connected /\ connected' = connected /\ outbox \in Seq(Answer)
    BY <1>1, <1>4, ConnectedKept DEF SessionInv, InStep
  <2>2. PICK w : Leads(view, outbox, w) /\ Agrees(w)
    BY <1>4 DEF InStep
  <2>3. Agreeing(w)
    BY <1>1, <2>1, <2>2, LeadsSanely DEF Agreeing
  <2>4. StillAgreeing(w)
    BY <1>1, <2>3, ServerAgrees
  <2>5. CASE wire' = wire /\ Agrees(w)'
    <3>1. outbox' = outbox
      BY <2>5 DEF Serves
    <3> QED
      BY <1>1, <2>1, <2>2, <2>5, <3>1 DEF InStep
  <2>6. CASE \E e \in Answer : /\ wire' # wire /\ wire'.event = e
                               /\ ~Reads(w, e).misled /\ Agrees(Reads(w, e))'
    <3>1. PICK e \in Answer : /\ wire' # wire /\ wire'.event = e
                              /\ ~Reads(w, e).misled /\ Agrees(Reads(w, e))'
      BY <2>6
    <3>2. outbox' = Append(outbox, e)
      BY <3>1 DEF Serves
    <3>3. Leads(view, Append(outbox, e), Reads(w, e)) /\ Append(outbox, e) \in Seq(Answer)
      BY <2>1, <2>2, <3>1, LeadsOn
    <3> QED
      BY <1>1, <2>1, <3>1, <3>2, <3>3 DEF InStep
  <2>7. CASE wire' # wire /\ wire'.event = Uncorrelated /\ Waits(w)
    <3>1. outbox' = Append(outbox, Uncorrelated)
      BY <2>7 DEF Serves
    <3> QED
      BY <1>1, <2>1, <2>2, <2>7, <3>1, Spoils
  <2> QED
    BY <2>4, <2>5, <2>6, <2>7 DEF StillAgreeing
<1>5. ASSUME link' = "up", Spoilt
      PROVE  connected' /\ Spoilt'
  <2>1. connected /\ connected' = connected
    BY <1>1, <1>5, ConnectedKept DEF SessionInv
  <2>2. outbox' = outbox \/ outbox' = Append(outbox, wire'.event)
    BY DEF Serves
  <2>3. wire'.event \in Event
    BY <1>2 DEF Inv, TypeOK
  <2> QED
    BY <1>1, <1>5, <2>1, <2>2, <2>3, SpoiltOn
<1>6. link' = "up" => InStep \/ Spoilt
  BY <1>1 DEF SessionInv
<1> QED
  BY <1>2, <1>3, <1>4, <1>5, <1>6 DEF SessionInv

(* The sending thread registers a segment.                                  *)
LEMMA SendSegmentInv ==
    ASSUME SessionInv, NEW i \in Ids, NEW ok \in BOOLEAN, SendSegment(i, ok)
    PROVE  SessionInv'
<1>1. /\ Inv /\ MessagesOK /\ Idling /\ link = "up" /\ holding = NoMessage /\ link' = link
      /\ UNCHANGED vars /\ outbox' = outbox /\ view' = Adds(view, i)
      /\ holding' = MessageFor(i, ok) /\ connected /\ (InStep \/ Spoilt)
  BY DEF SessionInv, SendSegment, Adds
<1>2. Inv'
  BY <1>1, NextInv
<1>3. MessagesOK' /\ Idling'
  <2>1. holding' \in Messages
    BY <1>1 DEF MessageFor, Messages
  <2>2. MessagesOK'
    BY <1>2, <2>1 DEF Inv, TypeOK, MessagesOK
  <2> QED
    BY <1>1, <2>2 DEF Idling, vars, recvVars
<1>4. Fresh(view, i)
  BY DEF SendSegment, Fresh
<1>5. ASSUME InStep PROVE InStep'
  <2>1. PICK w : Leads(view, outbox, w) /\ Agrees(w)
    BY <1>5 DEF InStep
  <2>2. outbox \in Seq(Answer)
    BY <1>5 DEF InStep
  <2>3. Agreeing(w)
    BY <1>1, <2>1, <2>2, LeadsSanely DEF Agreeing
  <2>4. Leads(Adds(view, i), outbox, Adds(w, i)) /\ Fresh(w, i)
    BY <1>4, <2>1, <2>2, LeadsAdds
  <2>5. Agrees(Adds(w, i))'
    BY <1>1, <2>3, <2>4, AddAgrees
  <2> QED
    BY <1>1, <2>2, <2>4, <2>5 DEF InStep
<1>6. ASSUME Spoilt PROVE Spoilt'
  <2>1. PICK p, w :
           /\ p \in Seq(Answer) /\ Len(p) < Len(outbox)
           /\ \A n \in 1 .. Len(p) : outbox[n] = p[n]
           /\ outbox[Len(p) + 1] = Uncorrelated
           /\ Leads(view, p, w) /\ Waits(w)
    BY <1>6 DEF Spoilt
  <2>2. Leads(Adds(view, i), p, Adds(w, i))
    BY <1>4, <2>1, LeadsAdds
  <2>3. Waits(Adds(w, i))
    BY <2>1, LeadsSanely, WaitsOn
  <2> QED
    BY <1>1, <1>6, <2>1, <2>2, <2>3 DEF Spoilt
<1>9. connected' = connected
  BY <1>1 DEF vars, peerVars
<1> QED
  BY <1>1, <1>2, <1>3, <1>5, <1>6, <1>9 DEF SessionInv

(* The sending thread asks for the cancellation of what is spoken.          *)
LEMMA CancelSegmentInv ==
    ASSUME SessionInv, CancelSegment
    PROVE  SessionInv'
<1>0. PICK i : i = view.audio
  OBVIOUS
<1>1. /\ Inv /\ MessagesOK /\ Idling /\ link = "up" /\ holding = NoMessage /\ link' = link
      /\ UNCHANGED vars /\ outbox' = outbox /\ view' = Cancels(view, i) /\ view.cancel = None
      /\ holding' = CancelMessage(i) /\ connected /\ (InStep \/ Spoilt) /\ i # None
  BY <1>0 DEF SessionInv, CancelSegment, Cancels
<1>2. Inv'
  BY <1>1, NextInv
<1>3. Sane(view)
  BY <1>1, LeadsSanely DEF InStep, Spoilt
<1>4. i \in Ids /\ i \in view.accepted
  <2>1. i \in Ids /\ view.segments # << >> /\ view.segments[1] = [id |-> i, acked |-> TRUE]
    BY <1>0, <1>1, <1>3, Parts DEF Sane
  <2>2. 1 \in DOMAIN view.segments
    BY <1>3, <2>1, FirstPlace
  <2>3. view.segments[1].acked <=> view.segments[1].id \in view.accepted
    BY <1>3, <2>2 DEF Sane
  <2> QED
    BY <2>1, <2>3
<1>5. MessagesOK' /\ Idling'
  <2>1. holding' \in Messages
    BY <1>1, <1>4 DEF Messages
  <2>2. MessagesOK'
    BY <1>2, <2>1 DEF Inv, TypeOK, MessagesOK
  <2> QED
    BY <1>1, <2>2 DEF Idling, vars, recvVars
<1>6. ASSUME InStep PROVE InStep'
  <2>1. PICK w : Leads(view, outbox, w) /\ Agrees(w)
    BY <1>6 DEF InStep
  <2>2. outbox \in Seq(Answer)
    BY <1>6 DEF InStep
  <2>3. Agreeing(w)
    BY <1>1, <2>1, <2>2, LeadsSanely DEF Agreeing
  <2>4. Leads(Cancels(view, i), outbox, Cancels(w, i)) /\ w.cancel = None
    BY <1>1, <1>4, <2>1, <2>2, LeadsCancels
  <2>5. Agrees(Cancels(w, i))'
    BY <1>1, <1>4, <2>3, <2>4, AskAgrees
  <2> QED
    BY <1>1, <2>2, <2>4, <2>5 DEF InStep
<1>7. ASSUME Spoilt PROVE Spoilt'
  <2>1. PICK p, w :
           /\ p \in Seq(Answer) /\ Len(p) < Len(outbox)
           /\ \A n \in 1 .. Len(p) : outbox[n] = p[n]
           /\ outbox[Len(p) + 1] = Uncorrelated
           /\ Leads(view, p, w) /\ Waits(w)
    BY <1>7 DEF Spoilt
  <2>2. Leads(Cancels(view, i), p, Cancels(w, i))
    BY <1>1, <1>4, <2>1, LeadsCancels
  <2>3. Waits(Cancels(w, i))
    BY <2>1, LeadsSanely, WaitsOn
  <2> QED
    BY <1>1, <1>7, <2>1, <2>2, <2>3 DEF Spoilt
<1>9. connected' = connected
  BY <1>1 DEF vars, peerVars
<1> QED
  BY <1>1, <1>2, <1>5, <1>6, <1>7, <1>9 DEF SessionInv

(* A client and a server in step stay so while nothing either knows changes.*)
LEMMA InStepKept ==
    ASSUME Inv, InStep, UNCHANGED <<view, outbox>>, Unanswered' = Unanswered,
           UNCHANGED <<receiver, acceptedIds, pending, active, started, cancelled, stopping,
                       worker, ending>>
    PROVE  InStep'
<1>1. PICK w : Leads(view, outbox, w) /\ Agrees(w)
  BY DEF InStep
<1>2. Sane(w) /\ (active # None => active \in Ids /\ pending \in Seq(Ids))
  BY <1>1, LeadsSanely, ActiveType DEF InStep
<1>3. Cancelling' => Cancelling
  BY DEF Cancelling
<1>4. Agrees(w)'
  BY <1>1, <1>2, <1>3, AgreesKept
<1> QED
  BY <1>1, <1>4 DEF InStep

(* A registered message is sent.                                            *)
LEMMA SendInv ==
    ASSUME SessionInv, Send
    PROVE  SessionInv'
<1>1. /\ Inv /\ MessagesOK /\ Idling /\ link # "misled" /\ holding # NoMessage
      /\ PeerSends(holding) /\ holding' = NoMessage /\ UNCHANGED <<outbox, view, link>>
      /\ (link = "uncorrelated" => Waits(view))
  BY DEF SessionInv, Send
<1>2. Inv'
  <2>1. holding \in Messages
    BY <1>1 DEF MessagesOK
  <2> QED
    BY <1>1, <2>1, NextInv DEF Next
<1>3. UNCHANGED <<receiver, message, acceptedIds, pending, active, started, cancelled, stopping,
                  worker, ending, connected>> /\ inbox' = Append(inbox, holding)
  BY <1>1 DEF PeerSends, queueVars, flagVars, recvVars, workVars
<1>4. MessagesOK' /\ Idling'
  BY <1>1, <1>2, <1>3 DEF Inv, TypeOK, MessagesOK, Idling
<1>5. ASSUME link' = "up" PROVE connected' /\ (InStep' \/ Spoilt')
  <2>1. connected /\ (InStep \/ Spoilt)
    BY <1>1, <1>5 DEF SessionInv
  <2>2. Unanswered' = Unanswered
    BY <1>1, <1>3, SentOff
  <2> QED
    BY <1>1, <1>3, <2>1, <2>2, InStepKept, SpoiltOn
<1> QED
  BY <1>1, <1>2, <1>4, <1>5 DEF SessionInv

(* A client that leaves, or finds that it must.                             *)
LEMMA FailsInv ==
    ASSUME SessionInv, NEW why, why \notin {"up", "misled"}, Fails(why),
           why = "uncorrelated" => Waits(view')
    PROVE  SessionInv'
<1>1. Inv'
  BY NextInv DEF SessionInv, Fails, Next
<1>2. Idling'
  BY DEF SessionInv, Idling, Fails, PeerLeaves, recvVars
<1>3. MessagesOK'
  BY <1>1 DEF Inv, TypeOK, MessagesOK, Fails
<1>4. link' = why
  BY DEF Fails
<1> QED
  BY <1>1, <1>2, <1>3, <1>4 DEF SessionInv

(* An event that can be read is read.                                       *)
LEMMA AnswerRead ==
    ASSUME SessionInv, ReceiveFrame, ~Reads(view, Head(outbox)).misled,
           view' = Reads(view, Head(outbox)) /\ outbox' = Tail(outbox)
           /\ UNCHANGED <<vars, holding, link>> => InStep' \/ Spoilt'
    PROVE  SessionInv'
<1>1. /\ Inv /\ MessagesOK /\ Idling /\ link = "up" /\ view' = Reads(view, Head(outbox))
      /\ connected
  BY DEF SessionInv, ReceiveFrame
<1>2. CASE Fails("fatal")
  BY <1>2, FailsInv
<1>3. CASE outbox' = Tail(outbox) /\ UNCHANGED <<vars, holding, link>>
  <2>1. Inv'
    BY <1>1, <1>3, NextInv
  <2>2. UNCHANGED <<receiver, message, inbox, connected>>
    BY <1>3 DEF vars, peerVars, recvVars
  <2>3. MessagesOK' /\ Idling'
    BY <1>1, <1>3, <2>2 DEF MessagesOK, Idling
  <2> QED
    BY <1>1, <1>3, <2>1, <2>2, <2>3 DEF SessionInv
<1> QED
  BY <1>1, <1>2, <1>3 DEF ReceiveFrame

(* An event is read: it misleads nobody, but for the one that names no      *)
(* segment.                                                                 *)
LEMMA ReceiveFrameInv ==
    ASSUME SessionInv, ReceiveFrame
    PROVE  SessionInv'
<1>1. /\ Inv /\ link = "up" /\ outbox # << >> /\ view' = Reads(view, Head(outbox))
      /\ (InStep \/ Spoilt)
  BY DEF SessionInv, ReceiveFrame
<1>2. CASE InStep
  <2>1. PICK w : Leads(view, outbox, w) /\ Agrees(w)
    BY <1>2 DEF InStep
  <2>2. outbox \in Seq(Answer)
    BY <1>2 DEF InStep
  <2>3. /\ Leads(Reads(view, Head(outbox)), Tail(outbox), w) /\ ~Reads(view, Head(outbox)).misled
        /\ Tail(outbox) \in Seq(Answer)
    BY <1>1, <2>1, <2>2, LeadsFrom
  <2>4. ASSUME outbox' = Tail(outbox), UNCHANGED <<vars, holding, link>>
        PROVE  InStep'
    <3>1. UNCHANGED <<receiver, message, inbox, acceptedIds, pending, active, started, cancelled,
                      stopping, worker, ending>>
      BY <2>4 DEF vars, peerVars, queueVars, flagVars, recvVars, workVars
    <3>2. Unanswered' = Unanswered
      BY <2>4, <3>1, SameUnanswered
    <3>3. Sane(w) /\ (active # None => active \in Ids /\ pending \in Seq(Ids))
      BY <1>1, <2>1, <2>2, LeadsSanely, ActiveType
    <3>4. Cancelling' => Cancelling
      BY <3>1 DEF Cancelling
    <3>5. Agrees(w)'
      BY <2>1, <3>1, <3>2, <3>3, <3>4, AgreesKept
    <3> QED
      BY <1>1, <2>3, <2>4, <3>5 DEF InStep
  <2> QED
    BY <2>3, <2>4, AnswerRead
<1>3. CASE Spoilt /\ Head(outbox) # Uncorrelated
  <2>1. ~Reads(view, Head(outbox)).misled
    BY <1>3, SpoiltRead
  <2>2. view' = Reads(view, Head(outbox)) /\ outbox' = Tail(outbox) => Spoilt'
    BY <1>3, SpoiltRead
  <2> QED
    BY <2>1, <2>2, AnswerRead
<1>4. CASE Spoilt /\ Head(outbox) = Uncorrelated
  <2>1. Sane(view) /\ Waits(view)
    BY <1>4, SpoiltRead
  <2>2. view' = Misled(view)
    BY <1>1, <1>4 DEF Reads, Refused, Uncorrelated
  <2>3. view \in View
    BY <2>1, Parts
  <2>4. view'.misled
    BY <2>2, <2>3 DEF View, Misled
  <2>5. Fails("uncorrelated")
    BY <1>4, <2>4 DEF ReceiveFrame
  <2>6. Waits(view')
    BY <2>1, <2>2, WaitsOn
  <2> QED
    BY <2>5, <2>6, FailsInv
<1> QED
  BY <1>1, <1>2, <1>3, <1>4

(* close() is called.                                                       *)
LEMMA CloseClientInv ==
    ASSUME SessionInv, CloseClient
    PROVE  SessionInv'
<1>1. Inv'
  BY CloseInv DEF SessionInv
<1>2. Idling'
  BY DEF SessionInv, Idling, CloseClient, recvVars
<1>3. MessagesOK'
  BY <1>1 DEF SessionInv, Inv, TypeOK, MessagesOK, CloseClient
<1>4. link' = "left"
  BY DEF CloseClient
<1> QED
  BY <1>1, <1>2, <1>3, <1>4 DEF SessionInv

(* Every step keeps the invariant.                                          *)
LEMMA SessionNextInv == SessionInv /\ [SessionNext]_sessionVars => SessionInv'
<1>1. ASSUME SessionInv, UNCHANGED sessionVars PROVE SessionInv'
  <2>1. Inv'
    BY <1>1, NextInv DEF SessionInv, sessionVars
  <2>2. UNCHANGED <<receiver, message, inbox, acceptedIds, pending, active, started, cancelled,
                    stopping, worker, ending, connected>>
        /\ UNCHANGED <<outbox, view, holding, link>>
    BY <1>1 DEF sessionVars, clientVars, vars, peerVars, queueVars, flagVars, recvVars, workVars
  <2>3. MessagesOK' /\ Idling'
    BY <1>1, <2>2 DEF SessionInv, MessagesOK, Idling
  <2>4. Unanswered' = Unanswered
    BY <2>2, SameUnanswered
  <2>5. InStep => InStep'
    BY <1>1, <2>2, <2>4, InStepKept DEF SessionInv
  <2>6. Spoilt => Spoilt'
    BY <2>2, SpoiltOn
  <2> QED
    BY <1>1, <2>1, <2>2, <2>3, <2>5, <2>6 DEF SessionInv
<1>2. ASSUME SessionInv, SeesClose \/ TimesOut PROVE SessionInv'
  BY <1>2, FailsInv DEF SeesClose, TimesOut
<1> QED
  BY <1>1, <1>2, ServesInv, SendSegmentInv, CancelSegmentInv, SendInv, CloseClientInv,
     ReceiveFrameInv
  DEF SessionNext

(* No event of the server is out of place for the client, also when its     *)
(* cancellation crosses the end of the segment, or a refusal its next       *)
(* message: its order checks raise on none but the refusal of a segment     *)
(* whose message is too large, which is then among those it reports as      *)
(* unfinished.                                                              *)
THEOREM MisledByOversizedOnly == SessionSpec => []OnlyOversizedMisleads
<1>1. SessionInv => OnlyOversizedMisleads
  BY DEF SessionInv, OnlyOversizedMisleads, Waits
<1> QED
  BY <1>1, SessionInitInv, SessionNextInv, PTL DEF SessionSpec

(* Unless one of them is about a segment too large for its message, the     *)
(* answers on their way bring the client's view up to the server's: whom it *)
(* hears, which IDs are spent, which accepted segments are still to be      *)
(* spoken and in which order.                                               *)
THEOREM ViewsMatch == SessionSpec => []ViewsAgree
<1>1. ASSUME SessionInv PROVE ViewsAgree
  <2> SUFFICES ASSUME link = "up", ~stopping, \A n \in DOMAIN outbox : outbox[n] # Uncorrelated
               PROVE  LET v == FoldLeft(Reads, view, outbox)
                      IN  /\ v.audio = IF started THEN active ELSE None
                          /\ v.accepted = acceptedIds
                          /\ ~cancelled =>
                                /\ \A n \in DOMAIN v.segments :
                                      v.segments[n].acked <=> n <= Len(Unspoken)
                                /\ \A n \in DOMAIN Unspoken :
                                      /\ n \in DOMAIN v.segments
                                      /\ v.segments[n].id = Unspoken[n]
    BY DEF ViewsAgree
  <2>1. outbox \in Seq(Answer) /\ \E w : Leads(view, outbox, w) /\ Agrees(w)
    <3>1. ~Spoilt
      <4> SUFFICES ASSUME Spoilt PROVE FALSE
        OBVIOUS
      <4>1. outbox \in Seq(Event)
        BY DEF Spoilt
      <4>2. PICK n \in Nat : n < Len(outbox) /\ outbox[n + 1] = Uncorrelated
        BY LenProperties DEF Spoilt
      <4>3. n + 1 \in DOMAIN outbox
        BY <4>1, <4>2, LenProperties
      <4> QED
        BY <4>2, <4>3
    <3> QED
      BY <1>1, <3>1 DEF SessionInv, InStep
  <2>2. PICK w : Leads(view, outbox, w) /\ Agrees(w)
    BY <2>1
  <2>3. FoldLeft(Reads, view, outbox) = w
    BY <2>1, <2>2, FoldedLeads
  <2>4. Sane(w)
    BY <2>1, <2>2, LeadsSanely
  <2>5. PICK acks \in Nat : Prefix(w, acks) /\ Backlog(w, acks) /\ Queue(w, acks)
    BY <2>2 DEF Agrees
  <2>6. w.accepted = acceptedIds
    <3>1. receiver # "done"
      BY <1>1 DEF SessionInv, Inv, Ending
    <3> QED
      BY <2>5, <3>1 DEF Backlog
  <2>7. w.audio = IF started THEN active ELSE None
    BY <2>2 DEF Agrees, Voice
  <2>8. /\ Unspoken = Ahead /\ Unspoken \in Seq(Ids)
    <3>1. pending \in Seq(Ids) /\ active \in Ids \cup {None} /\ (active = None => pending = << >>)
      BY <1>1 DEF SessionInv, Inv, TypeOK, Waiting
    <3> QED
      BY <3>1 DEF Unspoken, Ahead
  <2>9. ASSUME ~cancelled
        PROVE  /\ \A n \in DOMAIN w.segments : w.segments[n].acked <=> n <= Len(Unspoken)
               /\ \A n \in DOMAIN Unspoken :
                     n \in DOMAIN w.segments /\ w.segments[n].id = Unspoken[n]
    <3>1. acks = Len(Unspoken) /\ \A k \in 1 .. acks : w.segments[k].id = Unspoken[k]
      BY <2>5, <2>8, <2>9 DEF Queue
    <3>2. w.segments \in Seq(Segment)
      BY <2>4 DEF Sane, View
    <3>3. \A n \in DOMAIN Unspoken : n \in 1 .. acks
      BY <2>8, <3>1
    <3>4. \A n \in 1 .. acks : n \in DOMAIN w.segments
      BY <2>5, <3>2 DEF Prefix
    <3>5. \A n \in DOMAIN w.segments : w.segments[n].acked <=> n <= acks
      BY <2>5 DEF Prefix
    <3> QED
      BY <3>1, <3>3, <3>4, <3>5
  <2> QED
    BY <2>3, <2>6, <2>7, <2>9
<1> QED
  BY <1>1, SessionInitInv, SessionNextInv, PTL DEF SessionSpec

(* The engine slot is safe with this client too, also when it asks for the  *)
(* close as it leaves.                                                      *)
THEOREM SlotSafeInSession == SessionSpec => []SlotOutlivesSynthesis
<1>1. SessionInv => SlotOutlivesSynthesis
  BY DEF SessionInv, Inv, Ending, Working, SlotOutlivesSynthesis
<1> QED
  BY <1>1, SessionInitInv, SessionNextInv, PTL DEF SessionSpec

(* What the client does beyond sending and leaving is its own affair.       *)
LEMMA ClientImplements ==
    /\ Inv
    /\ \/ \E i \in Ids, ok \in BOOLEAN : SendSegment(i, ok)
       \/ CancelSegment \/ Send \/ CloseClient \/ ReceiveFrame \/ SeesClose \/ TimesOut
    => [Fifo!Next]_Fifo!vars
<1> SUFFICES ASSUME Inv,
                    \/ \E i \in Ids, ok \in BOOLEAN : SendSegment(i, ok)
                    \/ CancelSegment \/ Send \/ CloseClient \/ ReceiveFrame \/ SeesClose
                    \/ TimesOut
             PROVE  [Fifo!Next]_Fifo!vars
  OBVIOUS
<1> USE DEF peerVars, queueVars, flagVars
<1>1. CASE UNCHANGED vars
  BY <1>1, Stutters DEF vars
<1>2. CASE Send
  BY <1>2, Stutters DEF Send, PeerSends
<1>3. CASE CloseClient
  <2>1. /\ connected' = FALSE
        /\ UNCHANGED <<wire, acceptedIds, pending, active, started, cancelled, stopping>>
    BY <1>3 DEF CloseClient
  <2>2. CASE connected
    <3>1. Fifo!Disconnect
      BY <2>1, <2>2 DEF Fifo!Disconnect
    <3> QED
      BY <3>1 DEF Fifo!Next
  <2>3. CASE ~connected
    <3>1. TypeOK
      BY DEF Inv
    <3>2. connected \in BOOLEAN
      BY <3>1 DEF TypeOK
    <3>3. connected' = connected
      BY <2>1, <2>3, <3>2
    <3> QED
      BY <2>1, <3>3, Stutters
  <2> QED
    BY <2>2, <2>3
<1>4. CASE \E why \in {"misled", "uncorrelated", "fatal", "closed"} : Fails(why)
  BY <1>4, OtherImplements DEF Fails
<1>5. CASE (\E i \in Ids, ok \in BOOLEAN : SendSegment(i, ok)) \/ CancelSegment
  BY <1>1, <1>5 DEF SendSegment, CancelSegment
<1>6. CASE ReceiveFrame \/ SeesClose \/ TimesOut
  BY <1>1, <1>4, <1>6 DEF ReceiveFrame, SeesClose, TimesOut
<1> QED
  BY <1>2, <1>3, <1>5, <1>6

(* The contract is kept towards this client too: what the session does      *)
(* while the CPU client sends, cancels, reads its events and leaves, also   *)
(* with a close behind its last message, is what contracts/tts-websocket.md *)
(* promises (tts_client.py over server.py and cosyvoice300m_session.py).    *)
THEOREM ContractInSession == SessionSpec => KeepsContract
<1>1. SessionInit => Fifo!Init
  BY DEF SessionInit, Init, Fifo!Init
<1>2. SessionInv /\ [SessionNext]_sessionVars => [Fifo!Next]_Fifo!vars
  <2> SUFFICES ASSUME SessionInv, [SessionNext]_sessionVars PROVE [Fifo!Next]_Fifo!vars
    OBVIOUS
  <2>1. Inv
    BY DEF SessionInv
  <2>2. CASE UNCHANGED sessionVars
    BY <2>2, Stutters DEF sessionVars, vars, peerVars, queueVars, flagVars
  <2>3. CASE Serves
    BY <2>1, <2>3, ReceiverImplements, WorkerImplements, OtherImplements DEF Serves, ServerStep
  <2> QED
    BY <2>1, <2>2, <2>3, ClientImplements DEF SessionNext
<1> QED
  BY <1>1, <1>2, SessionInitInv, SessionNextInv, PTL DEF SessionSpec, KeepsContract, Fifo!Spec

=============================================================================

------------------------ MODULE SnapshotStore_proofs ------------------------
(* Proofs about SnapshotStore, for any set of refresh() calls and any       *)
(* number of scheduled collections.                                         *)
EXTENDS SnapshotStore, TLAPS

(* A collection of the sampler is counted when it ends: while one runs, the *)
(* bound on their number is not yet reached.                                *)
TypeInv ==
    /\ TypeOK
    /\ pc[Sampler] \in {"collect", "publish"} => rounds < MaxRounds

(* Init satisfies the type invariant.                                       *)
LEMMA InitTypeInv == Init => TypeInv
<1> SUFFICES ASSUME Init PROVE TypeInv
  OBVIOUS
<1>1. pc[Sampler] = "lock"
  BY DEF Init, Threads
<1>2. pc \in [Threads -> {"idle", "joined", "read", "returned", "dead"} \cup Owning]
  BY DEF Init, Owning
<1>3. /\ sample \in [Threads -> 0 .. began]
      /\ joined \in [Refreshers -> {None} \cup 0 .. generation]
      /\ asked \in [Refreshers -> 0 .. began]
      /\ answer \in [Refreshers -> 0 .. began]
  BY DEF Init
<1>4. /\ began \in Nat /\ holder \in Threads \cup {None} /\ snapshot \in 0 .. began
      /\ rounds \in 0 .. MaxRounds /\ generation \in Nat
  BY RoundsAssumption DEF Init
<1>5. recent \in BOOLEAN /\ refreshing \in BOOLEAN /\ lastSuccess \in BOOLEAN /\ stopped \in BOOLEAN
  BY DEF Init
<1>6. TypeOK
  BY <1>2, <1>3, <1>4, <1>5 DEF TypeOK
<1> QED
  BY <1>1, <1>6 DEF TypeInv

(* Every step of _scheduled_collect() keeps the type invariant: began only  *)
(* grows, so no sample outruns it.                                          *)
LEMMA CollectTypeInv ==
  ASSUME TypeInv, NEW t \in Threads, Collect(t)
  PROVE  TypeInv'
<1> USE ThreadsAssumption, RoundsAssumption DEF Threads
<1>1. CASE BeginCollect(t)
  <2>1. began' = began + 1 /\ began \in Nat
    BY <1>1 DEF BeginCollect, TypeInv, TypeOK
  <2>2. 0 .. began \subseteq 0 .. began' /\ began' \in 0 .. began'
    BY <2>1
  <2>3. sample' \in [Threads -> 0 .. began']
    BY <1>1, <2>1, <2>2 DEF BeginCollect, TypeInv, TypeOK
  <2> QED
    BY <1>1, <2>1, <2>2, <2>3
    DEF BeginCollect, TypeInv, TypeOK, Owning, storeVars, refreshVars, callVars
<1>2. CASE Collected(t)
  BY <1>2 DEF Collected, TypeInv, TypeOK, Owning, storeVars, refreshVars, callVars
<1>3. CASE CollectFails(t)
  <2>1. rounds' \in 0 .. MaxRounds
    BY <1>3 DEF CollectFails, Return, TypeInv, TypeOK
  <2>2. sample' \in [Threads -> 0 .. began']
    BY <1>3 DEF CollectFails, TypeInv, TypeOK
  <2>3. pc' \in [Threads -> {"idle", "joined", "read", "returned", "dead"} \cup Owning]
    BY <1>3 DEF CollectFails, Return, TypeInv, TypeOK, Owning
  <2>4. pc'[Sampler] \in {"collect", "publish"} => rounds' < MaxRounds
    BY <1>3 DEF CollectFails, Return, TypeInv, TypeOK
  <2> QED
    BY <1>3, <2>1, <2>2, <2>3, <2>4
    DEF CollectFails, TypeInv, TypeOK, storeVars, refreshVars, callVars
<1>4. CASE Publish(t)
  <2>1. rounds' \in 0 .. MaxRounds
    BY <1>4 DEF Publish, Return, TypeInv, TypeOK
  <2>2. snapshot' \in 0 .. began'
    BY <1>4 DEF Publish, TypeInv, TypeOK
  <2>3. pc' \in [Threads -> {"idle", "joined", "read", "returned", "dead"} \cup Owning]
    BY <1>4 DEF Publish, Return, TypeInv, TypeOK, Owning
  <2>4. pc'[Sampler] \in {"collect", "publish"} => rounds' < MaxRounds
    BY <1>4 DEF Publish, Return, TypeInv, TypeOK
  <2> QED
    BY <1>4, <2>1, <2>2, <2>3, <2>4
    DEF Publish, TypeInv, TypeOK, refreshVars, callVars
<1> QED
  BY <1>1, <1>2, <1>3, <1>4 DEF Collect

(* So does every other step: refresh(), the sampler's loop, stop() and the  *)
(* clock.                                                                   *)
LEMMA NextTypeInv == TypeInv /\ [Next]_vars => TypeInv'
<1> SUFFICES ASSUME TypeInv, [Next]_vars PROVE TypeInv'
  OBVIOUS
<1> USE ThreadsAssumption, RoundsAssumption
    DEF Threads, TypeInv, TypeOK, Owning, storeVars, refreshVars, callVars
<1>1. ASSUME NEW r \in Refreshers, Refresh(r) PROVE TypeInv'
  <2>1. joined' \in [Refreshers -> {None} \cup 0 .. generation']
    <3>1. generation \in 0 .. generation /\ generation' = generation
      BY <1>1 DEF Refresh
    <3>2. joined' = joined \/ joined' = [joined EXCEPT ![r] = generation]
      BY <1>1 DEF Refresh
    <3> QED
      BY <3>1, <3>2
  <2>2. asked' \in [Refreshers -> 0 .. began']
    BY <1>1 DEF Refresh
  <2>3. /\ pc' \in [Threads -> {"idle", "joined", "read", "returned", "dead"} \cup Owning]
        /\ pc'[Sampler] = pc[Sampler]
    BY <1>1 DEF Refresh
  <2>4. refreshing' \in BOOLEAN
    BY <1>1 DEF Refresh
  <2> QED
    BY <1>1, <2>1, <2>2, <2>3, <2>4 DEF Refresh
<1>2. ASSUME NEW r \in Refreshers, JoinerWakes(r) PROVE TypeInv'
  BY <1>2 DEF JoinerWakes, Answer, Latest
<1>3. ASSUME NEW r \in Refreshers, JoinerTimesOut(r) PROVE TypeInv'
  BY <1>3 DEF JoinerTimesOut, Answer
<1>4. ASSUME NEW r \in Refreshers, Settle(r) PROVE TypeInv'
  <2>1. refreshing' \in BOOLEAN /\ lastSuccess' \in BOOLEAN
    BY <1>4 DEF Settle
  <2>2. generation' \in Nat /\ joined' \in [Refreshers -> {None} \cup 0 .. generation']
    BY <1>4 DEF Settle
  <2>3. /\ pc' \in [Threads -> {"idle", "joined", "read", "returned", "dead"} \cup Owning]
        /\ pc'[Sampler] = pc[Sampler]
    BY <1>4 DEF Settle
  <2> QED
    BY <1>4, <2>1, <2>2, <2>3 DEF Settle
<1>5. ASSUME NEW r \in Refreshers, ReadLatest(r) PROVE TypeInv'
  BY <1>5 DEF ReadLatest, Answer, Latest
<1>6. CASE SampleDue
  BY <1>6 DEF SampleDue
<1>7. CASE SamplerEnds
  BY <1>7 DEF SamplerEnds
<1>8. CASE StopStore
  BY <1>8 DEF StopStore
<1>9. CASE GoesStale
  BY <1>9 DEF GoesStale
<1>10. CASE UNCHANGED vars
  BY <1>10 DEF vars
<1> QED
  BY <1>1, <1>2, <1>3, <1>4, <1>5, <1>6, <1>7, <1>8, <1>9, <1>10, CollectTypeInv
  DEF Next, RefreshStep, SamplerStep

(* Type correctness of the store in every reachable state.                  *)
THEOREM TypeAlways == Spec => []TypeInv
  BY InitTypeInv, NextTypeInv, PTL DEF Spec

(* The type invariant the runs check.                                       *)
THEOREM TypeCorrect == Spec => []TypeOK
<1>1. TypeInv => TypeOK
  BY DEF TypeInv
<1> QED
  BY <1>1, TypeAlways, PTL

(* One thread's step leaves everybody else where they are; the condition's  *)
(* lock makes taking and giving up refreshing a single step each.           *)
LEMMA NextOwned == TypeInv /\ RefreshingIsOwned /\ [Next]_vars => RefreshingIsOwned'
<1> SUFFICES ASSUME TypeInv, RefreshingIsOwned, [Next]_vars PROVE RefreshingIsOwned'
  OBVIOUS
<1> USE ThreadsAssumption
    DEF Threads, TypeInv, TypeOK, Owning, RefreshingIsOwned, storeVars, refreshVars, callVars
<1>1. ASSUME NEW t \in Threads, Collect(t) PROVE RefreshingIsOwned'
  <2>1. /\ refreshing' = refreshing
        /\ \A r \in Refreshers : pc'[r] \in Owning <=> pc[r] \in Owning
    BY <1>1 DEF Collect, BeginCollect, Collected, CollectFails, Publish, Return
  <2> QED
    BY <2>1
<1>2. ASSUME NEW r \in Refreshers, Refresh(r) PROVE RefreshingIsOwned'
  <2>1. CASE refreshing
    BY <1>2, <2>1 DEF Refresh
  <2>2. CASE ~refreshing
    BY <1>2, <2>2 DEF Refresh
  <2> QED
    BY <2>1, <2>2
<1>3. ASSUME NEW r \in Refreshers,
             JoinerWakes(r) \/ JoinerTimesOut(r) \/ ReadLatest(r)
      PROVE RefreshingIsOwned'
  BY <1>3 DEF JoinerWakes, JoinerTimesOut, ReadLatest, Answer
<1>4. ASSUME NEW r \in Refreshers, Settle(r) PROVE RefreshingIsOwned'
  BY <1>4 DEF Settle
<1>5. CASE SampleDue \/ SamplerEnds
  BY <1>5 DEF SampleDue, SamplerEnds
<1>6. CASE StopStore \/ GoesStale \/ UNCHANGED vars
  BY <1>6 DEF StopStore, GoesStale, vars
<1> QED
  BY <1>1, <1>2, <1>3, <1>4, <1>5, <1>6 DEF Next, RefreshStep, SamplerStep

(* However many clients refresh at once, refreshing has exactly one owner   *)
(* while it is set, and somebody to clear it.                               *)
THEOREM OneOwner == Spec => []RefreshingIsOwned
<1>1. Init => RefreshingIsOwned
  BY ThreadsAssumption, ZenonT(30) DEF Init, RefreshingIsOwned, Threads, Owning
<1> QED
  BY <1>1, TypeAlways, NextOwned, PTL DEF Spec
=============================================================================

--------------------------- MODULE SnapshotStore ---------------------------
(***************************************************************************)
(* The snapshot store of the monitor, monitor_service/scripts/server.py.   *)
(*                                                                         *)
(* A sampler thread collects on a schedule; every HTTP thread serving      *)
(* ?refresh=true calls refresh(), which collects at once or joins the      *)
(* refresh already in progress.  Collections exclude each other through    *)
(* collect_lock; what is published is guarded by the condition's lock,     *)
(* taken only after collect_lock was left.                                 *)
(*                                                                         *)
(* A sample is the number of the collect() call that took it, in the order *)
(* the calls began; 0 is no sample.                                        *)
(***************************************************************************)
EXTENDS Naturals, FiniteSets

CONSTANTS
    Refreshers,  \* the calls of refresh()
    Sampler,     \* the sampler thread
    None,        \* nobody
    MaxRounds    \* bound: scheduled collections

Threads == Refreshers \cup {Sampler}

ASSUME ThreadsAssumption == Sampler \notin Refreshers /\ None \notin Threads
ASSUME RoundsAssumption == MaxRounds \in Nat

VARIABLES
    began,        \* how many collect() calls have begun
    holder,       \* the thread in collect_lock
    snapshot,     \* snapshot
    recent,       \* published_at is at most stale_after ago
    refreshing,   \* refreshing
    generation,   \* refresh_generation
    lastSuccess,  \* last_refresh_success
    stopped,      \* stopped
    rounds,       \* scheduled collections so far
    pc,           \* where each thread is
    sample,       \* the sample each thread collected
    joined,       \* the generation a joining refresh() waits on
    asked,        \* history: began, when refresh() was called
    answer        \* what refresh() returned

storeVars   == <<snapshot, recent>>
refreshVars == <<refreshing, generation, lastSuccess>>
callVars    == <<joined, asked, answer>>
vars == <<began, holder, storeVars, refreshVars, stopped, rounds, pc, sample, callVars>>

Owning == {"lock", "collect", "publish", "settle"}

TypeOK ==
    /\ began \in Nat
    /\ holder \in Threads \cup {None}
    /\ snapshot \in 0 .. began
    /\ recent \in BOOLEAN
    /\ refreshing \in BOOLEAN /\ generation \in Nat /\ lastSuccess \in BOOLEAN
    /\ stopped \in BOOLEAN
    /\ rounds \in 0 .. MaxRounds
    /\ pc \in [Threads -> {"idle", "joined", "read", "returned", "dead"} \cup Owning]
    /\ sample \in [Threads -> 0 .. began]
    /\ joined \in [Refreshers -> {None} \cup 0 .. generation]
    /\ asked \in [Refreshers -> 0 .. began]
    /\ answer \in [Refreshers -> 0 .. began]

(* start() begins with a collection of its own, before anyone is served.    *)
Init ==
    /\ began = 0 /\ holder = None
    /\ snapshot = 0 /\ recent = FALSE
    /\ refreshing = FALSE /\ generation = 0 /\ lastSuccess = FALSE
    /\ stopped = FALSE /\ rounds = 0
    /\ pc = [t \in Threads |-> IF t = Sampler THEN "lock" ELSE "idle"]
    /\ sample = [t \in Threads |-> 0]
    /\ joined = [r \in Refreshers |-> None]
    /\ asked = [r \in Refreshers |-> 0]
    /\ answer = [r \in Refreshers |-> 0]

-----------------------------------------------------------------------------
(* _scheduled_collect(), called by the sampler and by refresh().           *)

(* Where a thread goes when _scheduled_collect() returns.                   *)
Return(t) ==
    /\ pc' = [pc EXCEPT ![t] = IF t = Sampler THEN "idle" ELSE "settle"]
    /\ rounds' = IF t = Sampler THEN rounds + 1 ELSE rounds

BeginCollect(t) ==
    /\ pc[t] = "lock"
    /\ holder = None
    /\ t = Sampler => rounds < MaxRounds
    /\ holder' = t
    /\ began' = began + 1
    /\ sample' = [sample EXCEPT ![t] = began + 1]
    /\ pc' = [pc EXCEPT ![t] = "collect"]
    /\ UNCHANGED <<storeVars, refreshVars, stopped, rounds, callVars>>

Collected(t) ==
    /\ pc[t] = "collect"
    /\ holder' = None
    /\ pc' = [pc EXCEPT ![t] = "publish"]
    /\ UNCHANGED <<began, storeVars, refreshVars, stopped, rounds, sample, callVars>>

(* A slip: collect_lock is not left when collect() raises.                  *)
CollectFailsLocked(t) ==
    /\ pc[t] = "collect"
    /\ sample' = [sample EXCEPT ![t] = 0]
    /\ Return(t)
    /\ UNCHANGED <<began, holder, storeVars, refreshVars, stopped, callVars>>

(* collect() raises: nothing is published.                                  *)
CollectFails(t) ==
    /\ pc[t] = "collect"
    /\ holder' = None
    /\ sample' = [sample EXCEPT ![t] = 0]
    /\ Return(t)
    /\ UNCHANGED <<began, storeVars, refreshVars, stopped, callVars>>

Publish(t) ==
    /\ pc[t] = "publish"
    /\ snapshot' = sample[t]
    /\ recent' = TRUE
    /\ Return(t)
    /\ UNCHANGED <<began, holder, refreshVars, stopped, sample, callVars>>

-----------------------------------------------------------------------------
(* The sampler's loop, and stop().                                         *)

SampleDue ==
    /\ pc[Sampler] = "idle"
    /\ ~stopped
    /\ rounds < MaxRounds
    /\ pc' = [pc EXCEPT ![Sampler] = "lock"]
    /\ UNCHANGED <<began, holder, storeVars, refreshVars, stopped, rounds, sample, callVars>>

SamplerEnds ==
    /\ pc[Sampler] = "idle"
    /\ stopped
    /\ pc' = [pc EXCEPT ![Sampler] = "dead"]
    /\ UNCHANGED <<began, holder, storeVars, refreshVars, stopped, rounds, sample, callVars>>

StopStore ==
    /\ rounds > 0
    /\ ~stopped
    /\ stopped' = TRUE
    /\ UNCHANGED <<began, holder, storeVars, refreshVars, rounds, pc, sample, callVars>>

(* stale_after_seconds pass without a publication.                          *)
GoesStale ==
    /\ recent
    /\ recent' = FALSE
    /\ UNCHANGED <<began, holder, snapshot, refreshVars, stopped, rounds, pc, sample, callVars>>

-----------------------------------------------------------------------------
(* refresh(), and latest() as it ends.                                     *)

Latest == IF recent THEN snapshot ELSE 0

Answer(r, s) ==
    /\ answer' = [answer EXCEPT ![r] = s]
    /\ pc' = [pc EXCEPT ![r] = "returned"]

(* A slip: refresh() tests refreshing and sets it in two critical sections. *)
RefreshUntested(r) ==
    /\ pc[r] = "idle"
    /\ rounds > 0
    /\ asked' = [asked EXCEPT ![r] = began]
    /\ refreshing' = TRUE
    /\ pc' = [pc EXCEPT ![r] = "lock"]
    /\ UNCHANGED <<began, holder, storeVars, generation, lastSuccess, stopped, rounds,
                   sample, joined, answer>>

(* A slip: a joiner waits for the generation after the one in progress.     *)
RefreshJoinsNext(r) ==
    /\ pc[r] = "idle"
    /\ rounds > 0
    /\ asked' = [asked EXCEPT ![r] = began]
    /\ IF refreshing
       THEN /\ joined' = [joined EXCEPT ![r] = generation + 1]
            /\ pc' = [pc EXCEPT ![r] = "joined"]
            /\ UNCHANGED refreshing
       ELSE /\ refreshing' = TRUE
            /\ pc' = [pc EXCEPT ![r] = "lock"]
            /\ UNCHANGED joined
    /\ UNCHANGED <<began, holder, storeVars, generation, lastSuccess, stopped, rounds,
                   sample, answer>>

Refresh(r) ==
    /\ pc[r] = "idle"
    /\ rounds > 0
    /\ asked' = [asked EXCEPT ![r] = began]
    /\ IF refreshing
       THEN /\ joined' = [joined EXCEPT ![r] = generation]
            /\ pc' = [pc EXCEPT ![r] = "joined"]
            /\ UNCHANGED refreshing
       ELSE /\ refreshing' = TRUE
            /\ pc' = [pc EXCEPT ![r] = "lock"]
            /\ UNCHANGED joined
    /\ UNCHANGED <<began, holder, storeVars, generation, lastSuccess, stopped, rounds,
                   sample, answer>>

(* The refresh it joined is over - or a later one is already.               *)
JoinerWakes(r) ==
    /\ pc[r] = "joined"
    /\ generation # joined[r]
    /\ Answer(r, IF lastSuccess THEN Latest ELSE 0)
    /\ UNCHANGED <<began, holder, storeVars, refreshVars, stopped, rounds, sample, joined, asked>>

JoinerTimesOut(r) ==
    /\ pc[r] = "joined"
    /\ refreshing /\ generation = joined[r]
    /\ Answer(r, 0)
    /\ UNCHANGED <<began, holder, storeVars, refreshVars, stopped, rounds, sample, joined, asked>>

(* The finally block of refresh().                                          *)
Settle(r) ==
    /\ pc[r] = "settle"
    /\ refreshing' = FALSE
    /\ generation' = generation + 1
    /\ lastSuccess' = (sample[r] # 0)
    /\ pc' = [pc EXCEPT ![r] = "read"]
    /\ UNCHANGED <<began, holder, storeVars, stopped, rounds, sample, callVars>>

(* latest(), in a critical section of its own.                              *)
ReadLatest(r) ==
    /\ pc[r] = "read"
    /\ Answer(r, IF sample[r] # 0 THEN Latest ELSE 0)
    /\ UNCHANGED <<began, holder, storeVars, refreshVars, stopped, rounds, sample, joined, asked>>

-----------------------------------------------------------------------------
Collect(t) == BeginCollect(t) \/ Collected(t) \/ CollectFails(t) \/ Publish(t)

RefreshStep(r) ==
    \/ Collect(r)
    \/ JoinerWakes(r) \/ JoinerTimesOut(r)
    \/ Settle(r) \/ ReadLatest(r)

SamplerStep == Collect(Sampler) \/ SampleDue \/ SamplerEnds

Next ==
    \/ \E r \in Refreshers : Refresh(r) \/ RefreshStep(r)
    \/ SamplerStep
    \/ StopStore
    \/ GoesStale

Spec == Init /\ [][Next]_vars

(* Threads are scheduled, collect() returns (every upstream request has a   *)
(* timeout), a joiner's wait is bounded, and a thread that waits for        *)
(* collect_lock gets it in the end: the sampler leaves it free for most of  *)
(* its interval.                                                            *)
Fairness ==
    /\ \A r \in Refreshers : WF_vars(RefreshStep(r)) /\ SF_vars(BeginCollect(r))
    /\ WF_vars(SamplerStep)

FairSpec == Spec /\ Fairness

-----------------------------------------------------------------------------
(* Properties.                                                             *)

(* refreshing is set exactly while one refresh() owns it, on success and on *)
(* failure alike: it can neither stay set with nobody left to clear it, nor *)
(* be cleared under a second owner.                                         *)
RefreshingIsOwned ==
    /\ refreshing = (\E r \in Refreshers : pc[r] \in Owning)
    /\ \A r, s \in Refreshers : pc[r] \in Owning /\ pc[s] \in Owning => r = s

(* Every refresh() returns, whatever fails and whoever else refreshes.      *)
EveryRefreshReturns ==
    \A r \in Refreshers : pc[r] # "idle" ~> pc[r] = "returned"

(* contracts/openapi.yaml: a refresh that collects for itself answers with  *)
(* a sampling of now, so with a sample begun after the request.             *)
RefreshSeesNewSample ==
    \A r \in Refreshers :
        answer[r] # 0 /\ joined[r] = None => answer[r] > asked[r]
=============================================================================

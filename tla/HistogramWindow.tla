-------------------------- MODULE HistogramWindow --------------------------
(***************************************************************************)
(* monitor_service/scripts/telemetry.py: the rolling latency window. A     *)
(* service counts what it observes in a cumulative histogram that starts   *)
(* anew with the process; the collector samples it now and then, keeps the *)
(* differences of the last window_seconds, and estimates from them.        *)
(***************************************************************************)
EXTENDS Integers, Sequences, FiniteSets

CONSTANTS
    Window,      \* window_seconds
    MaxGap,      \* max_sample_gap_seconds
    MaxDelay,    \* how long collect() may wait for the slowest answer
    Durations,   \* the latencies observed
    Bounds,      \* the finite bucket bounds
    Infinity,    \* the bound of the last bucket, +Inf: above all of them
    MaxRestarts, \* bound: restarts of the service
    MaxTime,     \* bound: time units
    MaxObserved  \* bound: observations

ASSUME WindowAssumption ==
    /\ {Window, MaxGap, MaxDelay, MaxRestarts, MaxTime, MaxObserved} \subseteq Nat
    /\ Infinity \in Nat \ {0} /\ Durations \cup Bounds \subseteq 1 .. Infinity - 1

VARIABLES
    hNow,        \* time.monotonic()
    hLog,        \* everything observed, in order: [at, life, ms] (history)
    hLife,       \* the life of the service's process
    hExposed,    \* does it publish process_start_time_seconds
    hFetched,    \* the answer to /metrics, while collect() waits for the others
    hPrevious,   \* HistogramWindow.previous; seen: how much was logged by then
    hIntervals,  \* HistogramWindow.intervals; from, to: the part of the log each is about
    hReset       \* when the window was last cleared or begun (history)

histogramVars == <<hNow, hLog, hLife, hExposed, hFetched, hPrevious, hIntervals, hReset>>

Buckets == Bounds \cup {Infinity}
NoSample == [none |-> TRUE]

HistogramInit ==
    /\ hNow = 0 /\ hLog = << >> /\ hLife = 0 /\ hExposed \in BOOLEAN
    /\ hFetched = NoSample /\ hPrevious = NoSample /\ hIntervals = << >> /\ hReset = 0

HistogramTypeOK ==
    /\ hNow \in 0 .. MaxTime /\ hLife \in Nat /\ hReset \in 0 .. MaxTime
    /\ \A n \in DOMAIN hLog : hLog[n].at \in 0 .. hNow /\ hLog[n].ms \in Durations
    /\ \A n \in DOMAIN hIntervals :
          /\ hIntervals[n].count > 0 /\ hIntervals[n].at \in 0 .. hNow
          /\ hIntervals[n].buckets[Infinity] = hIntervals[n].count

(* sum().                                                                   *)
SumOf(seq) ==
    LET sum[n \in 0 .. Len(seq)] == IF n = 0 THEN 0 ELSE sum[n - 1] + seq[n]
    IN  sum[Len(seq)]

-----------------------------------------------------------------------------
(* The service.                                                             *)

Observe ==
    /\ Len(hLog) < MaxObserved
    /\ \E d \in Durations : hLog' = Append(hLog, [at |-> hNow, life |-> hLife, ms |-> d])
    /\ UNCHANGED <<hNow, hLife, hExposed, hFetched, hPrevious, hIntervals, hReset>>

Restart ==
    /\ hLife < MaxRestarts /\ hLife' = hLife + 1
    /\ UNCHANGED <<hNow, hLog, hExposed, hFetched, hPrevious, hIntervals, hReset>>

Passes ==
    /\ hNow < MaxTime /\ hNow' = hNow + 1
    /\ hFetched # NoSample => hNow < hFetched.at + MaxDelay
    /\ UNCHANGED <<hLog, hLife, hExposed, hFetched, hPrevious, hIntervals, hReset>>

(* What /metrics shows once so much is logged: the counters of this life,    *)
(* every label set summed.                                                   *)
Counters(seen, life) ==
    LET Sums(weight(_)) ==
            SumOf([n \in 1 .. seen |-> IF hLog[n].life = life THEN weight(hLog[n].ms) ELSE 0])
    IN  [count |-> Sums(LAMBDA ms : 1), total |-> Sums(LAMBDA ms : ms),
         buckets |-> [b \in Buckets |-> Sums(LAMBDA ms : IF ms <= b THEN 1 ELSE 0)]]

ParseHistogram == Counters(Len(hLog), hLife)

(* Collector.collect() asks all services at once and takes the time when the *)
(* last of them has answered.                                                *)
CollectMetric ==
    /\ hFetched = NoSample
    /\ hFetched' = [at |-> hNow, counters |-> ParseHistogram, life |-> hLife, seen |-> Len(hLog)]
    /\ UNCHANGED <<hNow, hLog, hLife, hExposed, hPrevious, hIntervals, hReset>>

-----------------------------------------------------------------------------
(* HistogramWindow.                                                         *)

(* The intervals that ended after the cutoff.                               *)
Newer(intervals, cutoff) ==
    LET kept[n \in 0 .. Len(intervals)] ==
            IF n = 0 THEN << >>
            ELSE IF intervals[n].at > cutoff THEN Append(kept[n - 1], intervals[n])
            ELSE kept[n - 1]
    IN  kept[Len(intervals)]

(* A slip: intervals leave the window a sample too late.                    *)
PruneLate(intervals) == Newer(intervals, hNow - Window - MaxGap - 1)

Prune(intervals) == Newer(intervals, hNow - Window)

(* The two samples do not bound one interval: too far apart, from two lives  *)
(* of the service as far as it tells, or a counter fell.                     *)
IsReset(old, new) ==
    \/ hNow - hPrevious.at > MaxGap
    \/ hExposed /\ hPrevious.life # hFetched.life
    \/ new.count < old.count \/ new.total < old.total
    \/ \E b \in Buckets : new.buckets[b] < old.buckets[b]

Difference(old, new) ==
    [at |-> hNow, count |-> new.count - old.count, total |-> new.total - old.total,
     buckets |-> [b \in Buckets |-> new.buckets[b] - old.buckets[b]],
     from |-> hPrevious.seen, to |-> hFetched.seen]

Update ==
    /\ hFetched # NoSample /\ hFetched' = NoSample
    /\ hPrevious' = [hFetched EXCEPT !.at = hNow]
    /\ IF hPrevious = NoSample \/ IsReset(hPrevious.counters, hFetched.counters)
       THEN hIntervals' = << >> /\ hReset' = hNow
       ELSE LET next == Difference(hPrevious.counters, hFetched.counters) IN
            /\ hIntervals' = Prune(IF next.count > 0 THEN Append(hIntervals, next)
                                   ELSE hIntervals)
            /\ UNCHANGED hReset
    /\ UNCHANGED <<hNow, hLog, hLife, hExposed>>

HistogramNext == Observe \/ Restart \/ Passes \/ CollectMetric \/ Update

HistogramSpec == HistogramInit /\ [][HistogramNext]_histogramVars

-----------------------------------------------------------------------------
(* statistics_ms() and histogram_quantile(), over the window as it stands.  *)

WindowCount == SumOf([n \in DOMAIN hIntervals |-> hIntervals[n].count])
WindowTotal == SumOf([n \in DOMAIN hIntervals |-> hIntervals[n].total])
WindowBucket(b) == SumOf([n \in DOMAIN hIntervals |-> hIntervals[n].buckets[b]])

(* The bucket the 95th percentile falls in: the first that reaches the rank. *)
QuantileBound ==
    CHOOSE b \in Buckets : /\ 100 * WindowBucket(b) >= 95 * WindowCount
                           /\ \A c \in Buckets : c < b => 100 * WindowBucket(c) < 95 * WindowCount

(* The estimate, as a fraction; nothing above the last finite bound.        *)
HistogramQuantile ==
    LET below == {c \in Buckets : c < QuantileBound}
        floor == IF below = {} THEN 0 ELSE CHOOSE c \in below : \A d \in below : d <= c
        before == IF below = {} THEN 0 ELSE WindowBucket(floor)
        population == WindowBucket(QuantileBound) - before
    IN  [over |-> QuantileBound = Infinity, floor |-> floor,
         num |-> 100 * population * floor
                 + (QuantileBound - floor) * (95 * WindowCount - 100 * before),
         den |-> 100 * population]

-----------------------------------------------------------------------------
(* Properties.                                                              *)

SeenAfter(t) == Cardinality({n \in 1 .. hPrevious.seen : hLog[n].at > t})
Seen == {hLog[n].ms : n \in 1 .. hPrevious.seen}

(* The window is what happened of late: whatever restarts and gaps there     *)
(* were, it counts no observation older than the window, the longest gap     *)
(* between two samples and the wait for the slowest service. Of a service    *)
(* that publishes its start time it also misses none of the window since     *)
(* the last reset, its average lies among the latencies observed, and the    *)
(* estimated 95th percentile lies in the bucket that holds it (telemetry.py  *)
(* HistogramWindow, histogram_quantile, Collector.collect).                  *)
WindowTellsTruth ==
    hPrevious # NoSample /\ hPrevious.at = hNow =>
        /\ WindowCount <= SeenAfter(hNow - Window - MaxGap - MaxDelay)
        /\ hExposed =>
             /\ \A t \in {hReset, hNow - Window} :
                  (\A u \in {hReset, hNow - Window} : u <= t) => WindowCount >= SeenAfter(t)
             /\ WindowCount > 0 =>
                  /\ \E d \in Seen : WindowTotal <= WindowCount * d
                  /\ \E d \in Seen : WindowTotal >= WindowCount * d
                  /\ LET q == HistogramQuantile IN
                     q.over \/ (q.num > q.den * q.floor /\ q.num <= q.den * QuantileBound)
=============================================================================

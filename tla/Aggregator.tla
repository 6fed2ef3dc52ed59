------------------------------ MODULE Aggregator -----------------------------
(***************************************************************************)
(* The server's metrics aggregator (src/internal/server/metrics/           *)
(* aggregator.go): ingestion goroutines call ObserveConnection and         *)
(* ObserveHTTPRequest, which update a per-service accumulator under a.mu;  *)
(* the flushLoop goroutine, on each tick or when Stop closes stopCh, runs  *)
(* flush: it swaps the whole map for an empty one under the lock, releases *)
(* the lock, and turns the swapped-out snapshot into points (percentiles,  *)
(* call count, error rate, traffic) handed to WriteMetrics.                *)
(*                                                                         *)
(* An accumulator keeps the call and error counts and the latency          *)
(* histogram.  Bytes, namespace, lastObserved and latencySum are left out: *)
(* flush copies them into points unchanged and no property reads them.    *)
(* The accumulator also carries a history field, samples, with the        *)
(* latencies observed, to compare the estimates with the true percentiles. *)
(*                                                                         *)
(* Observers run only until Stop: main.go calls grpcServer.GracefulStop,   *)
(* which waits for every StreamEvents handler to return, before            *)
(* aggregator.Stop (src/cmd/nefi-server/main.go:133-145).                  *)
(***************************************************************************)
EXTENDS Histogram, TLC

CONSTANTS
    Services,   \* service names events can carry
    NoService,  \* the empty service name ""
    Latencies,  \* durations / latencies events can carry, in ms (0 = none)
    MaxObs      \* bound: number of events handed to the observers

ASSUME /\ NoService \notin Services
       /\ Latencies \subseteq Nat
       /\ MaxObs \in Nat

VARIABLES
    services,   \* a.services: service -> accumulator
    snapshot,   \* the map flush swapped out and is turning into points
    pc,         \* flushLoop: "idle" in its select, "write" inside flush, "done"
    final,      \* the flush in progress is the final one, on Stop
    stopped,    \* stopCh has been closed
    observed,   \* history: calls recorded per service
    flushed,    \* history: calls flush turned into points per service
    handled     \* events handed to the observers so far

vars == <<services, snapshot, pc, final, stopped, observed, flushed, handled>>

Quantiles == {50, 95, 99}
Named == Services \cup {NoService}
NoEntries == [s \in {} |-> 0]

\* A new serviceMetrics, as getOrCreate makes it.
NewAcc == [calls |-> 0, errors |-> 0, counts |-> EmptyCounts, samples |-> <<>>]

-----------------------------------------------------------------------------
(* Plausible faults in the operators below.                                *)

ResetKeeps(m) == m
AddLatencyAlways(acc, x) ==
    [acc EXCEPT !.counts = ObserveLatency(@, x), !.samples = Append(@, x)]
StopWithoutFlush ==
    /\ pc = "idle"
    /\ stopped
    /\ pc' = "done"
    /\ UNCHANGED <<services, snapshot, final, stopped, observed, flushed,
                   handled>>

-----------------------------------------------------------------------------

\* getOrCreate: the service's accumulator, or a new one.
GetOrCreate(svc) == IF svc \in DOMAIN services THEN services[svc] ELSE NewAcc

\* observeLatency, called only for a positive duration or latency.
AddLatency(acc, x) ==
    IF x > 0
    THEN [acc EXCEPT !.counts = ObserveLatency(@, x), !.samples = Append(@, x)]
    ELSE acc

\* The swap in flush: the observers get a new, empty map.
Reset(m) == NoEntries

\* flushLoop returns after the flush on stopCh and loops after a tick.
AfterFlush(isFinal) == IF isFinal THEN "done" ELSE "idle"

CallsIn(m, s) == IF s \in DOMAIN m THEN m[s].calls ELSE 0

Init ==
    /\ services = NoEntries
    /\ snapshot = NoEntries
    /\ pc = "idle"
    /\ final = FALSE
    /\ stopped = FALSE
    /\ observed = [s \in Services |-> 0]
    /\ flushed = [s \in Services |-> 0]
    /\ handled = 0

\* Record one observation for svc, or none when both names are empty.
Record(svc, isError, lat) ==
    /\ ~stopped
    /\ handled < MaxObs
    /\ handled' = handled + 1
    /\ IF svc = NoService
       THEN UNCHANGED <<services, observed>>
       ELSE LET acc == GetOrCreate(svc)
                upd == [acc EXCEPT !.calls = @ + 1,
                                   !.errors = @ + (IF isError THEN 1 ELSE 0)]
            IN  /\ services' = svc :> AddLatency(upd, lat) @@ services
                /\ observed' = [observed EXCEPT ![svc] = @ + 1]
    /\ UNCHANGED <<snapshot, pc, final, stopped, flushed>>

\* ObserveConnection: bound to the source service, else the destination;
\* the connection duration is the latency sample.
ObserveConnection(src, dst, dur) ==
    Record(IF src # NoService THEN src ELSE dst, FALSE, dur)

\* ObserveHTTPRequest: bound to the destination service, else the source;
\* a status of 500 or more is an error.
ObserveHTTPRequest(src, dst, isError, lat) ==
    Record(IF dst # NoService THEN dst ELSE src, isError, lat)

\* flush, under the lock: swap the map; an empty snapshot returns at once.
FlushSwap(isFinal) ==
    /\ snapshot' = services
    /\ services' = Reset(services)
    /\ final' = isFinal
    /\ pc' = IF DOMAIN services = {} THEN AfterFlush(isFinal) ELSE "write"
    /\ UNCHANGED <<stopped, observed, flushed, handled>>

\* flushLoop's ticker arm.
Tick == pc = "idle" /\ FlushSwap(FALSE)

\* flushLoop's stopCh arm: the final flush, then return (closing doneCh).
StopArm == pc = "idle" /\ stopped /\ FlushSwap(TRUE)

\* flush, after the lock: compute every service's points from the
\* snapshot and hand them to WriteMetrics (whose errors are only logged).
FlushWrite ==
    /\ pc = "write"
    /\ flushed' = [s \in Services |-> flushed[s] + CallsIn(snapshot, s)]
    /\ snapshot' = NoEntries
    /\ pc' = AfterFlush(final)
    /\ UNCHANGED <<services, final, stopped, observed, handled>>

\* Stop: close(stopCh); the caller then waits on doneCh.
Stop ==
    /\ ~stopped
    /\ stopped' = TRUE
    /\ UNCHANGED <<services, snapshot, pc, final, observed, flushed, handled>>

\* flushLoop has returned.
Terminated == pc = "done" /\ UNCHANGED vars

Next ==
    \/ \E src, dst \in Named, d \in Latencies : ObserveConnection(src, dst, d)
    \/ \E src, dst \in Named, e \in BOOLEAN, l \in Latencies :
          ObserveHTTPRequest(src, dst, e, l)
    \/ Tick
    \/ StopArm
    \/ FlushWrite
    \/ Stop
    \/ Terminated

(* flushLoop keeps running: the ticker fires and flush returns (weak      *)
(* fairness); Go's select picks at random among ready arms, so a closed    *)
(* stopCh is not passed over forever (strong fairness).  Observers and     *)
(* Stop are the environment.                                               *)
Fairness ==
    /\ WF_vars(Tick)
    /\ WF_vars(FlushWrite)
    /\ SF_vars(StopArm)

Spec == Init /\ [][Next]_vars /\ Fairness

-----------------------------------------------------------------------------

Acc == [calls : 0..MaxObs, errors : 0..MaxObs,
        counts : [Bucket -> 0..MaxObs],
        samples : BoundedSeq(Latencies \ {0}, MaxObs)]

TypeOK ==
    /\ \E d \in SUBSET Services : services \in [d -> Acc]
    /\ \E d \in SUBSET Services : snapshot \in [d -> Acc]
    /\ pc \in {"idle", "write", "done"}
    /\ final \in BOOLEAN /\ stopped \in BOOLEAN
    /\ observed \in [Services -> 0..MaxObs]
    /\ flushed \in [Services -> 0..MaxObs]
    /\ handled \in 0..MaxObs

\* Every call an observer recorded is counted in exactly one window: it is
\* in the live map, in the snapshot being flushed, or already flushed,
\* however observations interleave with the swap.
CountedOnce ==
    \A s \in Services :
        observed[s] = flushed[s] + CallsIn(snapshot, s) + CallsIn(services, s)

\* The latency points flush computes: the estimate for quantile q of
\* service s in the snapshot.
Estimate(s, q) ==
    HistogramPercentile(snapshot[s].counts, TotalCount(snapshot[s].counts), q)

HasLatency(s) == TotalCount(snapshot[s].counts) > 0

\* histogramPercentile is monotone in the quantile: P50 <= P95 <= P99 in
\* every flushed window (spec section 8, invariant 1).
PercentileMonotone ==
    \A s \in DOMAIN snapshot :
        HasLatency(s) =>
            /\ FracLe(Estimate(s, 50), Estimate(s, 95))
            /\ FracLe(Estimate(s, 95), Estimate(s, 99))

\* The interpolated estimate lies between the two boundaries that enclose
\* the true nearest-rank percentile of the window's samples: bucket
\* insertion and the cumulative walk pick the bucket holding that sample.
PercentileInRankBucket ==
    \A s \in DOMAIN snapshot, q \in Quantiles :
        HasLatency(s) =>
            LET v == NearestRank(snapshot[s].samples, q)
            IN  /\ FracLe(Whole(EnclosingLow(v)), Estimate(s, q))
                /\ FracLe(Estimate(s, q), Whole(EnclosingHigh(v)))

\* After Stop, flushLoop makes its final flush and returns, and by then
\* every recorded call has been flushed.
StopFlushesAll ==
    stopped ~> (pc = "done" /\ \A s \in Services : flushed[s] = observed[s])

=============================================================================

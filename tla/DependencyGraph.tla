--------------------------- MODULE DependencyGraph ---------------------------
(***************************************************************************)
(* The server's dependency computer (src/unnamed/part_004,                 *)
(* DependencyComputer).  run computes once, then on every tick until       *)
(* stopCh is closed.  compute resets the accumulator map, reads the recent *)
(* connection events and then the recent request events from storage      *)
(* (either read may fail and is then skipped), folds every event with two  *)
(* distinct non-empty services into the accumulator of its "src->dst"     *)
(* edge, builds one link per edge with its P99, and writes the links       *)
(* unless there are none; a write error is only logged.                    *)
(*                                                                         *)
(* Storage is the sequence of stored events, oldest first; the ingestion   *)
(* path appends to it while compute runs.  Each read returns the Limit     *)
(* newest events of its kind (Search with size = limit, timestamp:desc,   *)
(* part_006 FindConnections / FindRequests).  The time window is left out: *)
(* with a bounded store every event is recent.  An event is a record;     *)
(* services are model values, latencies small naturals (0 = none).        *)
(***************************************************************************)
EXTENDS Naturals, Sequences, SequencesExt, FiniteSets, TLC

CONSTANTS
    Services,      \* service names
    NoService,     \* the empty service name ""
    Events,        \* events the ingestion path may store
    InitialStore,  \* events already stored when the server starts
    Limit,         \* query.Limit, per read
    MaxStores      \* bound: events stored while the computer runs

ASSUME /\ NoService \notin Services
       /\ Limit \in Nat \ {0}
       /\ MaxStores \in Nat

Named == Services \cup {NoService}
Event == [kind : {"c", "r"}, src : Named, dst : Named, lat : Nat,
          err : BOOLEAN]
ASSUME Events \subseteq Event /\ InitialStore \in Seq(Event)

Edge == Services \X Services

VARIABLES
    stored,   \* the events in storage, oldest first
    stores,   \* events stored so far (bounded by MaxStores)
    dpc,      \* run/compute: "reset", "conns", "reqs", "build", "idle", "done"
    stopped,  \* stopCh has been closed
    deps,     \* dc.deps: edge -> linkAccumulator
    readC,    \* history: the connection events this cycle read
    readR,    \* history: the request events this cycle read
    links,    \* the links buildLinks returned this cycle
    written   \* the links of the last successful WriteDependencies

vars == <<stored, stores, dpc, stopped, deps, readC, readR, links, written>>

NoDeps == [e \in {} |-> 0]
NewAcc == [calls |-> 0, errors |-> 0, lats |-> <<>>]

-----------------------------------------------------------------------------
(* Plausible faults in the operators below.                                *)

ResetKeeps(d) == d
CountedAnyPair(e) == e.src # NoService /\ e.dst # NoService
StopArmBreak ==
    /\ dpc = "idle"
    /\ stopped
    /\ UNCHANGED vars

-----------------------------------------------------------------------------

\* The reset at the start of compute: a new, empty map.
ResetDeps(d) == NoDeps

\* The early return of addConnectionEvent / addHTTPRequestEvent: both
\* services known and distinct.
Counted(e) == e.src # NoService /\ e.dst # NoService /\ e.src # e.dst

\* A plausible fault: every latency appended, zero included.
AccumulateZeroLats(d, evs) ==
    LET on(k)  == SelectSeq(evs, LAMBDA e : Counted(e) /\ <<e.src, e.dst>> = k)
        keys   == DOMAIN d \cup {<<e.src, e.dst>> : e \in {x \in ToSet(evs) : Counted(x)}}
        old(k) == IF k \in DOMAIN d THEN d[k] ELSE NewAcc
    IN  [k \in keys |->
            [calls  |-> old(k).calls + Len(on(k)),
             errors |-> old(k).errors + Len(SelectSeq(on(k), LAMBDA e : e.err)),
             lats   |-> old(k).lats \o [i \in DOMAIN on(k) |-> on(k)[i].lat]]]

\* The loop of compute over the events of one read: each event adds to its
\* edge's accumulator (getOrCreate, callCount++, errorCount++ for a status
\* >= 500, its latency appended when positive), in the order read.
Accumulate(d, evs) ==
    LET on(k)  == SelectSeq(evs, LAMBDA e : Counted(e) /\ <<e.src, e.dst>> = k)
        keys   == DOMAIN d \cup {<<e.src, e.dst>> : e \in {x \in ToSet(evs) : Counted(x)}}
        old(k) == IF k \in DOMAIN d THEN d[k] ELSE NewAcc
        lat(k) == LET f == SelectSeq(on(k), LAMBDA e : e.lat > 0)
                  IN  [i \in DOMAIN f |-> f[i].lat]
    IN  [k \in keys |->
            [calls  |-> old(k).calls + Len(on(k)),
             errors |-> old(k).errors + Len(SelectSeq(on(k), LAMBDA e : e.err)),
             lats   |-> old(k).lats \o lat(k)]]

\* addConnectionEvent over the connections read: no status, only a duration.
AddConnectionEvents(d, evs) ==
    Accumulate(d, [i \in DOMAIN evs |-> [evs[i] EXCEPT !.err = FALSE]])

\* addHTTPRequestEvent over the requests read.
AddHTTPRequestEvents(d, evs) == Accumulate(d, evs)

\* The Limit newest stored events of a kind, newest first.
Recent(k) ==
    LET s == SelectSeq(stored, LAMBDA e : e.kind = k)
        n == IF Len(s) < Limit THEN Len(s) ELSE Limit
    IN  [i \in 1..n |-> s[Len(s) + 1 - i]]

\* computeP99: sort, take index int(0.99 n + 0.5) - 1 clamped to
\* [0, n-1] (exactly (99n + 50) div 100 - 1 in float64 for n <= 50000).
ComputeP99(lats) ==
    LET n   == Len(lats)
        idx == (99 * n + 50) \div 100 - 1
        cl  == IF idx < 0 THEN 0 ELSE IF idx >= n THEN n - 1 ELSE idx
    IN  IF n = 0 THEN 0 ELSE SortSeq(lats, <)[cl + 1]

\* buildLinks: one link per accumulator.
BuildLinks(d) ==
    {[parent |-> k[1], child |-> k[2], calls |-> d[k].calls,
      errors |-> d[k].errors, p99 |-> ComputeP99(d[k].lats)] : k \in DOMAIN d}

Init ==
    /\ stored = InitialStore
    /\ stores = 0
    /\ dpc = "reset"          \* run: compute once immediately
    /\ stopped = FALSE
    /\ deps = NoDeps
    /\ readC = <<>>
    /\ readR = <<>>
    /\ links = {}
    /\ written = {}

\* The ingestion path stores an event.
Store(e) ==
    /\ stores < MaxStores
    /\ stored' = Append(stored, e)
    /\ stores' = stores + 1
    /\ UNCHANGED <<dpc, stopped, deps, readC, readR, links, written>>

\* compute: reset the accumulators.
ComputeReset ==
    /\ dpc = "reset"
    /\ deps' = ResetDeps(deps)
    /\ dpc' = "conns"
    /\ UNCHANGED <<stored, stores, stopped, readC, readR, links, written>>

\* FindConnections, then the events added one by one; on an error the
\* read is logged and skipped.
ReadConns(ok) ==
    /\ dpc = "conns"
    /\ readC' = IF ok THEN Recent("c") ELSE <<>>
    /\ deps' = AddConnectionEvents(deps, readC')
    /\ dpc' = "reqs"
    /\ UNCHANGED <<stored, stores, stopped, readR, links, written>>

\* FindRequests, likewise.
ReadReqs(ok) ==
    /\ dpc = "reqs"
    /\ readR' = IF ok THEN Recent("r") ELSE <<>>
    /\ deps' = AddHTTPRequestEvents(deps, readR')
    /\ dpc' = "build"
    /\ UNCHANGED <<stored, stores, stopped, readC, links, written>>

\* buildLinks; no links: return; else WriteDependencies, whose error is
\* only logged.  compute returns to run's select.
Finish(ok) ==
    /\ dpc = "build"
    /\ links' = BuildLinks(deps)
    /\ written' = IF links' # {} /\ ok THEN links' ELSE written
    /\ dpc' = "idle"
    /\ UNCHANGED <<stored, stores, stopped, deps, readC, readR>>

\* run's ticker arm: compute again.
Tick ==
    /\ dpc = "idle"
    /\ dpc' = "reset"
    /\ UNCHANGED <<stored, stores, stopped, deps, readC, readR, links, written>>

\* run's stopCh arm: return (closing doneCh, which Stop waits on).
StopArm ==
    /\ dpc = "idle"
    /\ stopped
    /\ dpc' = "done"
    /\ UNCHANGED <<stored, stores, stopped, deps, readC, readR, links, written>>

\* Stop: close(stopCh).
Stop ==
    /\ ~stopped
    /\ stopped' = TRUE
    /\ UNCHANGED <<stored, stores, dpc, deps, readC, readR, links, written>>

\* run has returned.
Terminated == dpc = "done" /\ UNCHANGED vars

Next ==
    \/ \E e \in Events : Store(e)
    \/ ComputeReset
    \/ \E ok \in BOOLEAN : ReadConns(ok) \/ ReadReqs(ok) \/ Finish(ok)
    \/ Tick
    \/ StopArm
    \/ Stop
    \/ Terminated

(* run's goroutine keeps going: compute's steps and the ticker get weak    *)
(* fairness; Go's select picks at random among ready arms, so a closed     *)
(* stopCh is not passed over forever (strong fairness).  Storage, read and *)
(* write outcomes and Stop are the environment.                            *)
Fairness ==
    /\ WF_vars(ComputeReset)
    /\ WF_vars(\E ok \in BOOLEAN : ReadConns(ok) \/ ReadReqs(ok) \/ Finish(ok))
    /\ WF_vars(Tick)
    /\ SF_vars(StopArm)

Spec == Init /\ [][Next]_vars /\ Fairness

-----------------------------------------------------------------------------

Acc == [calls : Nat, errors : Nat, lats : Seq(Nat \ {0})]
Link == [parent : Services, child : Services, calls : Nat, errors : Nat,
         p99 : Nat]

TypeOK ==
    /\ stored \in Seq(Event)
    /\ stores \in 0..MaxStores
    /\ dpc \in {"reset", "conns", "reqs", "build", "idle", "done"}
    /\ stopped \in BOOLEAN
    /\ \E d \in SUBSET Edge : deps \in [d -> Acc]
    /\ readC \in Seq(Event) /\ readR \in Seq(Event)
    /\ links \subseteq Link /\ written \subseteq Link

\* The events this cycle read, of both kinds, between two given services.
ReadOn(k) == SelectSeq(readC \o readR, LAMBDA e : <<e.src, e.dst>> = k)

\* Spec section 4.6 steps 2-3 and section 8 invariant 4: once a cycle has
\* built its links, there is exactly one link per pair of distinct named
\* services that the cycle's two reads returned events for, counting each
\* of those events once and the requests with a status >= 500 as errors;
\* no link joins a service to itself.  Observations from an earlier cycle,
\* or from events stored after the reads, never leak into it.
LinksMatchReads ==
    dpc = "idle" =>
        /\ {<<l.parent, l.child>> : l \in links} =
               {k \in Edge : k[1] # k[2] /\ Len(ReadOn(k)) > 0}
        /\ \A l \in links :
               LET evs == ReadOn(<<l.parent, l.child>>)
               IN  /\ l.calls = Len(evs)
                   /\ l.errors = Len(SelectSeq(evs, LAMBDA e :
                                                   e.kind = "r" /\ e.err))

\* Stop returns: once stopCh is closed, run leaves its loop, after at most
\* the compute in progress, so main's depComputer.Stop() does not hang.
StopReturns == stopped ~> (dpc = "done")

====

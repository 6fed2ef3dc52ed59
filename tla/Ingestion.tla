------------------------------ MODULE Ingestion ------------------------------
(***************************************************************************)
(* The server's ingestion path (src/unnamed/part_005, IngestionServer)     *)
(* composed with the Elasticsearch bulk buffer (ESClient) and the server's *)
(* shutdown sequence (src/cmd/nefi-server/main.go).                        *)
(*                                                                         *)
(* Each agent stream has its own handler goroutine running StreamEvents:   *)
(* Recv a batch, processBatch it, add the returned count to the stream's  *)
(* totalAccepted, and on EOF answer with that total.  processBatch writes  *)
(* the batch's connections with WriteConnectionEvents, hands them to the   *)
(* aggregator, then does the same for the HTTP requests; a write error     *)
(* returns the count so far, skipping s.accepted.Add.  The handlers are   *)
(* writers of ESClient.                                                    *)
(*                                                                         *)
(* The aggregator's flushLoop is the other writer, AggWriter.  Its map is *)
(* reduced to the number of events observed since the last swap (the      *)
(* Aggregator module checks the accumulators); flush swaps it out and     *)
(* calls WriteMetrics once per metric kind, latency (when a window has    *)
(* latency samples), call_rate, error_rate, traffic, only logging errors. *)
(*                                                                         *)
(* Shutdown: on a signal, main calls grpcServer.GracefulStop, which waits  *)
(* for every handler to return, then aggregator.Stop, which waits for the *)
(* final flush, and last esClient.Close.                                  *)
(***************************************************************************)
EXTENDS ESClient

CONSTANTS
    AggWriter,    \* the aggregator's flushLoop goroutine, a writer
    LatencyCases, \* whether a window can have, or lack, latency samples
    MaxBatches,   \* bound: batches one agent sends on its stream
    MaxKind       \* bound: events of one kind in a batch

Streams == Writers \ {AggWriter}

MetricKinds == <<"latency", "call_rate", "error_rate", "traffic">>

\* Every write can be made: the document bound never cuts one short.  A
\* window holds at least one event and costs at most four WriteMetrics
\* calls of one point.
ASSUME /\ AggWriter \in Writers /\ LatencyCases \subseteq BOOLEAN
       /\ MaxBatches \in Nat /\ MaxKind \in 1..MaxCallDocs
       /\ MaxDocs >= (1 + Len(MetricKinds)) * Cardinality(Streams)
                        * MaxBatches * 2 * MaxKind

VARIABLES
    spc,         \* per stream: where its handler is
    batch,       \* per stream: [c, r], events of each kind in the batch
    bacc,        \* per stream: processBatch's local accepted
    total,       \* per stream: StreamEvents' totalAccepted
    received,    \* per stream: batches received so far
    docsOf,      \* per stream: documents its writes carried (history)
    accepted,    \* s.accepted, the server-wide counter
    aggregated,  \* events handed to the aggregator
    signalled,   \* the server received SIGTERM / SIGINT
    window,      \* a.services: events observed since the last swap
    snap,        \* flush's snapshot: events of the window being written
    akinds,      \* flush: the metric kinds it has still to write
    apc,         \* flushLoop: "idle" in its select, "write" in flush, "done"
    afinal,      \* the flush in progress is the final one, on stopCh
    astop,       \* aggregator.Stop has closed stopCh
    reported     \* history: events counted in call_rate points written

aggVars == <<window, snap, akinds, apc, afinal, astop, reported>>
ingVars == <<spc, batch, bacc, total, received, docsOf, accepted, aggregated,
             signalled, aggVars>>
vars == <<esVars, ingVars>>

-----------------------------------------------------------------------------
(* Plausible faults in the operators below.                                *)

ReturnedCountsFailed(acc, n, ok) == acc + n
NextKindsStopOnError(ks, ok) == IF ok THEN Tail(ks) ELSE <<>>
AggStopNoWait == TRUE

-----------------------------------------------------------------------------

\* The Write* call has returned (nil or an error).
WriteDone(p) == p \in {"ok", "err"}

\* processBatch's accepted after a kind's write: the kind's events count
\* only when the write returned nil.
Returned(acc, n, ok) == IF ok THEN acc + n ELSE acc

\* flush goes on with the next metric kind whether WriteMetrics returned
\* nil or an error (the error is only logged).
NextKinds(ks, ok) == Tail(ks)

\* aggregator.Stop's <-a.doneCh: flushLoop has returned.
AggStopDone == apc = "done"

IngInit ==
    /\ spc = [s \in Streams |-> "recv"]
    /\ batch = [s \in Streams |-> [c |-> 0, r |-> 0]]
    /\ bacc = [s \in Streams |-> 0]
    /\ total = [s \in Streams |-> 0]
    /\ received = [s \in Streams |-> 0]
    /\ docsOf = [s \in Streams |-> {}]
    /\ accepted = 0
    /\ aggregated = 0
    /\ signalled = FALSE
    /\ window = 0 /\ snap = 0 /\ akinds = <<>>
    /\ apc = "idle" /\ afinal = FALSE /\ astop = FALSE
    /\ reported = 0

FullInit == Init /\ IngInit

\* stream.Recv returns a batch with nc connections and nr requests.
RecvBatch(s, nc, nr) ==
    /\ spc[s] = "recv"
    /\ received[s] < MaxBatches
    /\ received' = [received EXCEPT ![s] = @ + 1]
    /\ batch' = [batch EXCEPT ![s] = [c |-> nc, r |-> nr]]
    /\ bacc' = [bacc EXCEPT ![s] = 0]
    /\ spc' = [spc EXCEPT ![s] = "c"]
    /\ UNCHANGED <<total, docsOf, accepted, aggregated, signalled, aggVars,
                   esVars>>

\* stream.Recv returns io.EOF: SendAndClose with totalAccepted, return.
RecvEOF(s) ==
    /\ spc[s] = "recv"
    /\ spc' = [spc EXCEPT ![s] = "done"]
    /\ UNCHANGED <<batch, bacc, total, received, docsOf, accepted, aggregated,
                   signalled, aggVars, esVars>>

\* stream.Recv fails (the agent or the transport broke the stream).
RecvError(s) ==
    /\ spc[s] = "recv"
    /\ spc' = [spc EXCEPT ![s] = "done"]
    /\ UNCHANGED <<batch, bacc, total, received, docsOf, accepted, aggregated,
                   signalled, aggVars, esVars>>

\* processBatch, for the kind k ("c" or "r"): with events of that kind,
\* call the Write* method; with none, go straight on.
StartKind(s, k, writing, next) ==
    /\ spc[s] = k
    /\ IF batch[s][k] > 0
       THEN /\ BeginWrite(s, batch[s][k])
            /\ docsOf' = [docsOf EXCEPT ![s] = @ \cup wcall'[s]]
            /\ spc' = [spc EXCEPT ![s] = writing]
            /\ UNCHANGED <<total, accepted>>
       ELSE /\ spc' = [spc EXCEPT ![s] = next]
            /\ UNCHANGED <<docsOf, total, accepted, esVars>>
    /\ UNCHANGED <<batch, bacc, received, aggregated, signalled, aggVars>>

StartConns(s) == StartKind(s, "c", "cw", "r")

\* No requests: processBatch ends normally, s.accepted.Add(accepted).
StartReqs(s) ==
    \/ /\ spc[s] = "r"
       /\ batch[s].r > 0
       /\ StartKind(s, "r", "rw", "r")
    \/ /\ spc[s] = "r"
       /\ batch[s].r = 0
       /\ accepted' = accepted + bacc[s]
       /\ total' = [total EXCEPT ![s] = @ + bacc[s]]
       /\ spc' = [spc EXCEPT ![s] = "recv"]
       /\ UNCHANGED <<batch, bacc, received, docsOf, aggregated, signalled,
                      aggVars, esVars>>

\* WriteConnectionEvents returned: on nil, observe the connections and go
\* on with the requests; on an error, return the count so far.
FinishConns(s) ==
    /\ spc[s] = "cw"
    /\ WriteDone(pc[s])
    /\ EndWrite(s)
    /\ LET ok == pc[s] = "ok"
           n  == Returned(bacc[s], batch[s].c, ok)
       IN  IF ok
           THEN /\ aggregated' = aggregated + batch[s].c
                /\ window' = window + batch[s].c
                /\ bacc' = [bacc EXCEPT ![s] = n]
                /\ spc' = [spc EXCEPT ![s] = "r"]
                /\ UNCHANGED total
           ELSE /\ total' = [total EXCEPT ![s] = @ + n]
                /\ spc' = [spc EXCEPT ![s] = "recv"]
                /\ UNCHANGED <<aggregated, window, bacc>>
    /\ UNCHANGED <<batch, received, docsOf, accepted, signalled, snap, akinds,
                   apc, afinal, astop, reported>>

\* WriteHTTPRequestEvents returned: on nil, observe the requests and end
\* processBatch normally (s.accepted.Add); on an error, return the count
\* so far without touching s.accepted.
FinishReqs(s) ==
    /\ spc[s] = "rw"
    /\ WriteDone(pc[s])
    /\ EndWrite(s)
    /\ LET ok == pc[s] = "ok"
           n  == Returned(bacc[s], batch[s].r, ok)
       IN  /\ total' = [total EXCEPT ![s] = @ + n]
           /\ IF ok
              THEN /\ aggregated' = aggregated + batch[s].r
                   /\ window' = window + batch[s].r
                   /\ accepted' = accepted + n
              ELSE UNCHANGED <<aggregated, window, accepted>>
    /\ spc' = [spc EXCEPT ![s] = "recv"]
    /\ UNCHANGED <<batch, bacc, received, docsOf, signalled, snap, akinds,
                   apc, afinal, astop, reported>>

\* The shutdown signal reaches main.
Signal ==
    /\ ~signalled
    /\ signalled' = TRUE
    /\ UNCHANGED <<spc, batch, bacc, total, received, docsOf, accepted,
                   aggregated, aggVars, esVars>>

\* GracefulStop has returned (every handler is done); main shuts the HTTP
\* server, stops the broadcast and the dependency computer, and calls
\* aggregator.Stop: close(stopCh).
StopServer ==
    /\ signalled
    /\ \A s \in Streams : spc[s] = "done"
    /\ ~astop
    /\ astop' = TRUE
    /\ UNCHANGED <<spc, batch, bacc, total, received, docsOf, accepted,
                   aggregated, signalled, window, snap, akinds, apc, afinal,
                   reported, esVars>>

\* aggregator.Stop's wait on doneCh is over; main calls esClient.Close.
CloseStorage ==
    /\ astop
    /\ AggStopDone
    /\ CloseBegin
    /\ UNCHANGED ingVars

-----------------------------------------------------------------------------
(* The aggregator's flushLoop.                                             *)

\* flush, under a.mu: swap the map.  An empty snapshot returns at once;
\* otherwise the kinds with points are written in order, latency only
\* when some observation carried a latency.
AggSwap(isFinal) ==
    /\ apc = "idle"
    /\ snap' = window
    /\ window' = 0
    /\ afinal' = isFinal
    /\ IF window = 0
       THEN /\ apc' = IF isFinal THEN "done" ELSE "idle"
            /\ akinds' = <<>>
       ELSE /\ apc' = "write"
            /\ \E hasLatency \in LatencyCases :
                  akinds' = IF hasLatency THEN MetricKinds ELSE Tail(MetricKinds)
    /\ UNCHANGED <<astop, reported>>

\* flushLoop's ticker arm.
AggTick ==
    /\ AggSwap(FALSE)
    /\ UNCHANGED <<spc, batch, bacc, total, received, docsOf, accepted,
                   aggregated, signalled, esVars>>

\* flushLoop's stopCh arm: the final flush, then return (closing doneCh).
AggStopArm ==
    /\ astop
    /\ AggSwap(TRUE)
    /\ UNCHANGED <<spc, batch, bacc, total, received, docsOf, accepted,
                   aggregated, signalled, esVars>>

\* flush calls WriteMetrics for its next kind: one point per kind of the
\* window (the services' points of a kind go in one call).
AggWriteBegin ==
    /\ apc = "write"
    /\ pc[AggWriter] = "idle"
    /\ BeginWrite(AggWriter, 1)
    /\ reported' = IF Head(akinds) = "call_rate" THEN reported + snap
                   ELSE reported
    /\ UNCHANGED <<spc, batch, bacc, total, received, docsOf, accepted,
                   aggregated, signalled, window, snap, akinds, apc, afinal,
                   astop>>

\* WriteMetrics returned nil or an error: log it and go on; after the last
\* kind flush returns, and on the final flush flushLoop returns too.
AggWriteEnd ==
    /\ apc = "write"
    /\ WriteDone(pc[AggWriter])
    /\ EndWrite(AggWriter)
    /\ LET rest == NextKinds(akinds, pc[AggWriter] = "ok")
       IN  /\ akinds' = rest
           /\ apc' = IF rest # <<>> THEN "write"
                     ELSE IF afinal THEN "done" ELSE "idle"
           /\ snap' = IF rest # <<>> THEN snap ELSE 0
    /\ UNCHANGED <<spc, batch, bacc, total, received, docsOf, accepted,
                   aggregated, signalled, window, afinal, astop, reported>>

AggStep == AggTick \/ AggStopArm \/ AggWriteBegin \/ AggWriteEnd

Handler(s) ==
    \/ StartConns(s) \/ FinishConns(s) \/ StartReqs(s) \/ FinishReqs(s)

IngNext ==
    \/ \E s \in Streams, nc, nr \in 0..MaxKind :
          nc + nr > 0 /\ RecvBatch(s, nc, nr)
    \/ \E s \in Streams : RecvEOF(s) \/ RecvError(s) \/ Handler(s)
    \/ ClientStep /\ UNCHANGED ingVars
    \/ Signal
    \/ StopServer
    \/ AggStep
    \/ CloseStorage
    \/ Closed /\ UNCHANGED ingVars

(* The handlers, the client's goroutines, the aggregator's flush and main  *)
(* run on (weak fairness, and ESClient's fairness for the flushers); a     *)
(* closed stopCh is not passed over forever by flushLoop's random select   *)
(* (strong fairness).  What the agents send, and whether they ever close   *)
(* their streams, is up to them: Recv outcomes and the signal get no       *)
(* fairness.                                                               *)
IngFairness ==
    /\ ClientFairness
    /\ \A s \in Streams : WF_vars(Handler(s))
    /\ WF_vars(AggWriteBegin) /\ WF_vars(AggWriteEnd) /\ SF_vars(AggStopArm)
    /\ WF_vars(StopServer) /\ WF_vars(CloseStorage)

IngSpec == FullInit /\ [][IngNext]_vars /\ IngFairness

-----------------------------------------------------------------------------

\* Between batches, the count a stream's handler will acknowledge is the
\* number of its events whose Write* call returned nil, whatever failed in
\* between.  A nil return means buffered, not stored: a later Bulk failure
\* can still lose those documents (see AckedDocsSurvive in ESClient).
AckMatchesStored ==
    \A s \in Streams :
        spc[s] \in {"recv", "done"} =>
            total[s] = Cardinality(docsOf[s] \cap acked)

\* Spec section 5 and main's shutdown order: aggregator.Stop waits for the
\* final flush before esClient.Close, and a WriteMetrics error does not
\* stop flush from writing the other kinds.  So once Close has begun, the
\* flushLoop has returned and every event handed to the aggregator is
\* counted in a call_rate point handed to storage.
MetricsBeforeClose ==
    pc[Closer] # "open" => apc = "done" /\ reported = aggregated

\* Spec section 5: on shutdown every task stops and the storage adapter
\* flushes its pending writes: after the signal, Close eventually returns.
ServerShutsDown == signalled ~> (pc[Closer] = "closed")

=============================================================================

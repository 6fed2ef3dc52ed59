------------------------------ MODULE Exporter ------------------------------
(***************************************************************************)
(* The agent's export client (src/internal/agent/exporter/grpc.go) with   *)
(* the goroutine that feeds it (processEvents, src/unnamed/part_003).     *)
(*                                                                         *)
(* Two threads share the queue under e.mu:                                 *)
(*   - the producer calls Enqueue, which drops the oldest event when the  *)
(*     queue is at its limit;                                              *)
(*   - the exporter runs Start: dial, on failure sleep with exponential   *)
(*     backoff, on success run flushLoop, whose ticks call flush.  flush  *)
(*     takes a batch under the lock, releases it, sends, and on a send    *)
(*     error splices the batch back in front of the queue (truncating     *)
(*     the oldest events past the limit) under the lock again.            *)
(* Events are numbered in enqueue order; their kind and payload do not    *)
(* influence any of this and are left out.                                 *)
(*                                                                         *)
(* connect() stores stream = nil (grpc.go:221): the generated client is   *)
(* not wired in, and flush then discards every batch (grpc.go:293-298).   *)
(* OpensStream = FALSE is that code; OpensStream = TRUE is the same code  *)
(* with the StreamEvents call the comment at grpc.go:217-220 announces,   *)
(* which is the only way the send and requeue path (grpc.go:300-313) is  *)
(* ever executed.                                                          *)
(***************************************************************************)
EXTENDS Naturals, Sequences, SequencesExt, FiniteSets

CONSTANTS
    QueueLimit,      \* queueLimit (defaultQueueLimit)
    BatchSize,       \* batchSize (defaultBatchSize)
    InitialBackoff,  \* initialReconnectBackoff, in abstract time units
    MaxBackoff,      \* maxReconnectBackoff, in the same units
    OpensStream,     \* whether connect() leaves a usable stream behind
    MaxEvents,       \* bound: number of events the producer enqueues
    MaxFailures      \* bound: number of dial or send failures injected

ASSUME /\ QueueLimit \in Nat \ {0}
       /\ BatchSize \in Nat \ {0}
       /\ InitialBackoff \in Nat \ {0}
       /\ MaxBackoff \in Nat /\ InitialBackoff <= MaxBackoff
       /\ OpensStream \in BOOLEAN
       /\ MaxEvents \in Nat /\ MaxFailures \in Nat

VARIABLES
    queue,      \* e.queue: event ids, oldest first
    nextId,     \* id of the next event the producer enqueues
    inflight,   \* the batch flush took and is sending (<<>> when none)
    delivered,  \* ids the collector received, in arrival order (history)
    dropped,    \* ids discarded because the queue was full (history)
    conn,       \* e.conn # nil
    stream,     \* e.stream # nil
    backoff,    \* Start's local backoff
    pc,         \* where the exporter goroutine is
    final,      \* the batch in flight is the final flush on cancellation
    cancelled,  \* the root context is cancelled
    failures    \* dial and send failures injected so far

vars == <<queue, nextId, inflight, delivered, dropped, conn, stream,
          backoff, pc, final, cancelled, failures>>

Ids == 1..MaxEvents

Mn(a, b) == IF a < b THEN a ELSE b

-----------------------------------------------------------------------------
(* Plausible faults in the helpers below, used to check that the          *)
(* properties notice them.                                                  *)

EvictOldestWhenOver(q) == IF Len(q) > QueueLimit THEN Tail(q) ELSE q
TakeCountFullOnly(q) == IF Len(q) < BatchSize THEN 0 ELSE BatchSize
DequeueOneTooMany(q, n) == SubSeq(q, n + 2, Len(q))
RequeueAtTail(batch, q) ==
    LET remaining == q \o batch
    IN  IF Len(remaining) > QueueLimit
        THEN SubSeq(remaining, Len(remaining) - QueueLimit + 1, Len(remaining))
        ELSE remaining
RequeueKeepHead(batch, q) ==
    LET remaining == batch \o q
    IN  IF Len(remaining) > QueueLimit
        THEN SubSeq(remaining, 1, QueueLimit)
        ELSE remaining
NextBackoffUncapped(b) == 2 * b
FinalFlushNoCtxCase == FALSE

-----------------------------------------------------------------------------
(* Helpers, one per piece of the code.                                      *)

\* Enqueue: at the limit, drop the oldest event to make room.
EvictOldest(q) == IF Len(q) >= QueueLimit THEN Tail(q) ELSE q

\* flush: take up to batchSize events.
TakeCount(q) == IF BatchSize > Len(q) THEN Len(q) ELSE BatchSize

\* flush: e.queue = e.queue[n:]
Dequeue(q, n) == SubSeq(q, n + 1, Len(q))

\* flush, on a send error: the batch goes back in front of the events
\* enqueued meanwhile; past the limit the oldest are cut off.
Requeue(batch, q) ==
    LET remaining == batch \o q
    IN  IF Len(remaining) > QueueLimit
        THEN SubSeq(remaining, Len(remaining) - QueueLimit + 1, Len(remaining))
        ELSE remaining

\* flushLoop: after the final flush on cancellation it returns (an error,
\* ctx.Err()), after a tick it keeps looping.
AfterFlush(isFinal) == IF isFinal THEN "top" ELSE "loop"

\* Start: backoff = min(backoff*2, maxReconnectBackoff)
NextBackoff(b) == Mn(2 * b, MaxBackoff)

-----------------------------------------------------------------------------

Init ==
    /\ queue = <<>>
    /\ nextId = 1
    /\ inflight = <<>>
    /\ delivered = <<>>
    /\ dropped = {}
    /\ conn = FALSE
    /\ stream = FALSE
    /\ backoff = InitialBackoff
    /\ pc = "top"
    /\ final = FALSE
    /\ cancelled = FALSE
    /\ failures = 0

\* processEvents hands an enriched event to Enqueue.
Enqueue ==
    /\ nextId \in Ids
    /\ queue' = Append(EvictOldest(queue), nextId)
    /\ dropped' = dropped \cup (ToSet(queue) \ ToSet(EvictOldest(queue)))
    /\ nextId' = nextId + 1
    /\ UNCHANGED <<inflight, delivered, conn, stream, backoff, pc, final,
                   cancelled, failures>>

\* The signal handler in main cancels the root context.
Cancel ==
    /\ ~cancelled
    /\ cancelled' = TRUE
    /\ UNCHANGED <<queue, nextId, inflight, delivered, dropped, conn, stream,
                   backoff, pc, final, failures>>

\* Top of Start's loop with the context done: closeConn and return.
Shutdown ==
    /\ pc = "top"
    /\ cancelled
    /\ conn' = FALSE
    /\ stream' = FALSE
    /\ pc' = "done"
    /\ UNCHANGED <<queue, nextId, inflight, delivered, dropped, backoff, final,
                   cancelled, failures>>

\* connect succeeds: keep the connection, reset the backoff, run flushLoop.
DialOk ==
    /\ pc = "top"
    /\ ~cancelled
    /\ conn' = TRUE
    /\ stream' = OpensStream
    /\ backoff' = InitialBackoff
    /\ pc' = "loop"
    /\ UNCHANGED <<queue, nextId, inflight, delivered, dropped, final,
                   cancelled, failures>>

\* connect fails (dial error or timeout): go to sleep for backoff.
DialFail ==
    /\ pc = "top"
    /\ ~cancelled
    /\ failures < MaxFailures
    /\ failures' = failures + 1
    /\ pc' = "sleep"
    /\ UNCHANGED <<queue, nextId, inflight, delivered, dropped, conn, stream,
                   backoff, final, cancelled>>

\* time.After(backoff) fires first: double the backoff and redial.
SleepElapsed ==
    /\ pc = "sleep"
    /\ backoff' = NextBackoff(backoff)
    /\ pc' = "top"
    /\ UNCHANGED <<queue, nextId, inflight, delivered, dropped, conn, stream,
                   final, cancelled, failures>>

\* ctx.Done() is chosen while sleeping: return at once.
SleepCancelled ==
    /\ pc = "sleep"
    /\ cancelled
    /\ pc' = "done"
    /\ UNCHANGED <<queue, nextId, inflight, delivered, dropped, conn, stream,
                   backoff, final, cancelled, failures>>

\* flush(), called on a tick (isFinal = FALSE) or as the final flush when
\* ctx is done (isFinal = TRUE).  The part under the lock takes the batch;
\* with no stream the batch is discarded, otherwise it goes out.
Flush(isFinal) ==
    /\ pc = "loop"
    /\ IF queue = <<>>
       THEN /\ pc' = AfterFlush(isFinal)
            /\ IF isFinal THEN conn' = FALSE /\ stream' = FALSE
                          ELSE UNCHANGED <<conn, stream>>
            /\ UNCHANGED <<queue, inflight, final>>
       ELSE LET n     == TakeCount(queue)
                batch == SubSeq(queue, 1, n)
            IN  /\ queue' = Dequeue(queue, n)
                /\ IF stream
                   THEN /\ inflight' = batch
                        /\ final' = isFinal
                        /\ pc' = "send"
                        /\ UNCHANGED <<conn, stream>>
                   ELSE /\ pc' = AfterFlush(isFinal)
                        /\ IF isFinal THEN conn' = FALSE /\ stream' = FALSE
                                      ELSE UNCHANGED <<conn, stream>>
                        /\ UNCHANGED <<inflight, final>>
    /\ UNCHANGED <<nextId, delivered, dropped, backoff, cancelled, failures>>

Tick == Flush(FALSE)

FinalFlush == cancelled /\ Flush(TRUE)

\* stream.Send succeeds: the collector has the batch.
SendOk ==
    /\ pc = "send"
    /\ delivered' = delivered \o inflight
    /\ inflight' = <<>>
    /\ pc' = AfterFlush(final)
    /\ IF final THEN conn' = FALSE /\ stream' = FALSE
                ELSE UNCHANGED <<conn, stream>>
    /\ UNCHANGED <<queue, nextId, dropped, backoff, final, cancelled, failures>>

\* stream.Send fails: requeue under the lock, return the error; Start
\* closes the connection and goes straight back to the top of its loop.
SendFail ==
    /\ pc = "send"
    /\ failures < MaxFailures
    /\ failures' = failures + 1
    /\ queue' = Requeue(inflight, queue)
    /\ dropped' = dropped \cup
                    ((ToSet(inflight) \cup ToSet(queue)) \ ToSet(queue'))
    /\ inflight' = <<>>
    /\ conn' = FALSE
    /\ stream' = FALSE
    /\ pc' = "top"
    /\ UNCHANGED <<nextId, delivered, backoff, final, cancelled>>

\* Start has returned and the producer is out of events.
Terminated ==
    /\ pc = "done"
    /\ nextId \notin Ids
    /\ UNCHANGED vars

Next ==
    \/ Enqueue
    \/ Cancel
    \/ Shutdown
    \/ DialOk
    \/ DialFail
    \/ SleepElapsed
    \/ SleepCancelled
    \/ Tick
    \/ FinalFlush
    \/ SendOk
    \/ SendFail
    \/ Terminated

(* The exporter goroutine keeps running: the ticker keeps firing, a dial  *)
(* or a send eventually returns.  Go's select picks uniformly among ready *)
(* cases, so a ready ctx.Done() case is not passed over forever: strong   *)
(* fairness for the two cancellation branches.  The producer and the      *)
(* signal are the environment and get no fairness.                         *)
Fairness ==
    /\ WF_vars(Shutdown)
    /\ WF_vars(DialOk \/ DialFail)
    /\ WF_vars(SleepElapsed)
    /\ SF_vars(SleepCancelled)
    /\ WF_vars(Tick)
    /\ SF_vars(FinalFlush)
    /\ WF_vars(SendOk \/ SendFail)

Spec == Init /\ [][Next]_vars /\ Fairness

-----------------------------------------------------------------------------

TypeOK ==
    /\ queue \in Seq(Ids)
    /\ nextId \in 1..MaxEvents + 1
    /\ inflight \in Seq(Ids)
    /\ delivered \in Seq(Ids)
    /\ dropped \subseteq Ids
    /\ conn \in BOOLEAN /\ stream \in BOOLEAN
    /\ backoff \in InitialBackoff..MaxBackoff
    /\ pc \in {"top", "sleep", "loop", "send", "done"}
    /\ final \in BOOLEAN /\ cancelled \in BOOLEAN
    /\ failures \in 0..MaxFailures

\* The queue never holds more than queueLimit events, whatever the
\* producer enqueues while a failed batch is being spliced back in.
QueueBounded == Len(queue) <= QueueLimit

\* Every event the producer handed over is in the queue, in flight,
\* delivered or dropped by the full-queue policy: flush never loses a batch.
NoEventVanishes ==
    ToSet(queue) \cup ToSet(inflight) \cup ToSet(delivered) \cup dropped
        = 1..(nextId - 1)

\* Only the oldest events are ever dropped: every dropped event is older
\* than every event still queued (the queue keeps the most recent ones).
DropsAreOldest == \A d \in dropped, q \in ToSet(queue) : d < q

\* After cancellation the exporter returns: the final flush is not
\* passed over forever and the backoff sleep is interrupted.
ExporterStops == cancelled ~> (pc = "done")

\* Unless the agent is shutting down, every enqueued event eventually
\* reaches the collector or is dropped by the full-queue policy.
EventuallyShipped ==
    \A i \in Ids :
        (nextId > i) ~> (Contains(delivered, i) \/ i \in dropped \/ cancelled)

\* The export path implements the lossy FIFO of ExportQueue: events reach
\* the collector in enqueue order, never twice, and leave the pending
\* sequence only from its head when shipped.
EQ == INSTANCE ExportQueue WITH pending <- inflight \o queue,
                                shipped <- delivered

ImplementsExportQueue == EQ!Spec

=============================================================================

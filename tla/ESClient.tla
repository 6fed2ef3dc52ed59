------------------------------- MODULE ESClient -------------------------------
(***************************************************************************)
(* The Elasticsearch client's bulk buffer (src/unnamed/part_006, package   *)
(* elasticsearch).  Every write method (WriteConnectionEvents,             *)
(* WriteHTTPRequestEvents, WriteDependencies, WriteMetrics) loops over its *)
(* documents calling addBulkAction, which appends under c.mu and, once     *)
(* pending reaches batchSize, calls flush after unlocking.  flush takes    *)
(* the whole buffer under the lock, resets it, and sends it with one Bulk  *)
(* request outside the lock.  A background flushLoop flushes on a ticker   *)
(* until Close closes stopCh; Close then waits for it and flushes once     *)
(* more.                                                                   *)
(*                                                                         *)
(* Three kinds of goroutine flush the same buffer: writers (inline, from  *)
(* addBulkAction), the ticker loop, and Close.  Documents are numbered in  *)
(* the order the writers hand them over; their JSON, index names and the   *)
(* bytes of the buffer are left out (buf is the sequence of documents      *)
(* whose actions it holds, so pending = Len(buf)).                         *)
(***************************************************************************)
EXTENDS Naturals, Sequences, SequencesExt, FiniteSets

CONSTANTS
    Writers,          \* goroutines calling a Write* method
    Loop,             \* the flushLoop goroutine
    Closer,           \* the goroutine calling Close
    BatchSize,        \* c.batchSize
    MaxDocs,          \* bound: documents written in total
    MaxCallDocs,      \* bound: documents in one Write* call
    MaxBulkFailures,  \* bound: failed or partly rejected Bulk requests
    ItemErrors        \* whether Elasticsearch may reject single items

ASSUME /\ Loop \notin Writers /\ Closer \notin Writers /\ Loop # Closer
       /\ BatchSize \in Nat \ {0}
       /\ MaxDocs \in Nat /\ MaxCallDocs \in Nat \ {0}
       /\ MaxBulkFailures \in Nat
       /\ ItemErrors \in BOOLEAN

Flushers == Writers \cup {Loop, Closer}
Docs == 1..MaxDocs

VARIABLES
    buf,       \* c.buf / c.pending: documents waiting for a Bulk request
    body,      \* per flusher: the documents of its Bulk request in flight
    pc,        \* per goroutine: where it is
    wdocs,     \* per writer: documents of its current call not yet appended
    wcall,     \* per writer: all documents of its current call
    nextDoc,   \* number of the next document handed to a writer
    stopping,  \* stopCh has been closed
    indexed,   \* history: documents Elasticsearch accepted
    lost,      \* history: documents dropped with a failed or rejected Bulk
    acked,     \* history: documents of Write* calls that returned nil
    failures   \* Bulk failures injected so far

esVars == <<buf, body, pc, wdocs, wcall, nextDoc, stopping, indexed, lost,
            acked, failures>>

InFlight == UNION {body[f] : f \in Flushers}

-----------------------------------------------------------------------------
(* Plausible faults in the operators below.                                *)

ShouldFlushAfterLimit(pending) == pending > BatchSize
DrainKeeps(b) == b
CloseResultSkipsFlush == "closed"

-----------------------------------------------------------------------------

\* addBulkAction: shouldFlush := c.pending >= c.batchSize
ShouldFlush(pending) == pending >= BatchSize

\* flush: c.buf.Reset(); c.pending = 0
Drain(b) == <<>>

\* Close, once its wait on doneCh is over: the final flush.
CloseAfterWait == "take"

\* Where a flusher goes when flush returns (err: it returned an error).
\* A writer resumes its loop, or returns err from the Write* call; the
\* ticker loop logs the error and waits for the next tick; Close returns.
AfterFlush(f, err) ==
    CASE f \in Writers -> IF err THEN "err"
                          ELSE IF wdocs[f] = <<>> THEN "ok" ELSE "add"
      [] f = Loop      -> "idle"
      [] f = Closer    -> "closed"

Init ==
    /\ buf = <<>>
    /\ body = [f \in Flushers |-> {}]
    /\ pc = [f \in Flushers |->
               CASE f \in Writers -> "idle"
                 [] f = Loop      -> "idle"
                 [] f = Closer    -> "open"]
    /\ wdocs = [w \in Writers |-> <<>>]
    /\ wcall = [w \in Writers |-> {}]
    /\ nextDoc = 1
    /\ stopping = FALSE
    /\ indexed = {}
    /\ lost = {}
    /\ acked = {}
    /\ failures = 0

\* A Write* method is called with n documents.  Every writer has returned
\* before main calls Close (GracefulStop, depComputer.Stop and
\* aggregator.Stop come first, src/cmd/nefi-server/main.go:133-145).
BeginWrite(w, n) ==
    /\ pc[w] = "idle"
    /\ pc[Closer] = "open"
    /\ nextDoc + n - 1 <= MaxDocs
    /\ wdocs' = [wdocs EXCEPT ![w] = [i \in 1..n |-> nextDoc + i - 1]]
    /\ wcall' = [wcall EXCEPT ![w] = nextDoc..(nextDoc + n - 1)]
    /\ nextDoc' = nextDoc + n
    /\ pc' = [pc EXCEPT ![w] = "add"]
    /\ UNCHANGED <<buf, body, stopping, indexed, lost, acked, failures>>

\* addBulkAction for the writer's next document: append under the lock and
\* decide whether to flush; the flush itself runs after the unlock.
AddDoc(w) ==
    /\ pc[w] = "add"
    /\ buf' = Append(buf, Head(wdocs[w]))
    /\ wdocs' = [wdocs EXCEPT ![w] = Tail(@)]
    /\ pc' = [pc EXCEPT ![w] =
                IF ShouldFlush(Len(buf) + 1) THEN "take"
                ELSE IF Tail(wdocs[w]) = <<>> THEN "ok" ELSE "add"]
    /\ UNCHANGED <<body, wcall, nextDoc, stopping, indexed, lost, acked,
                   failures>>

\* flush under the lock: nothing pending returns nil at once; otherwise
\* the whole buffer becomes this flusher's Bulk body and is reset.
Take(f) ==
    /\ pc[f] = "take"
    /\ IF buf = <<>>
       THEN /\ pc' = [pc EXCEPT ![f] = AfterFlush(f, FALSE)]
            /\ UNCHANGED <<buf, body>>
       ELSE /\ body' = [body EXCEPT ![f] = ToSet(buf)]
            /\ buf' = Drain(buf)
            /\ pc' = [pc EXCEPT ![f] = "bulk"]
    /\ UNCHANGED <<wdocs, wcall, nextDoc, stopping, indexed, lost, acked,
                   failures>>

\* es.Bulk succeeds and every item is indexed.
BulkOk(f) ==
    /\ pc[f] = "bulk"
    /\ indexed' = indexed \cup body[f]
    /\ body' = [body EXCEPT ![f] = {}]
    /\ pc' = [pc EXCEPT ![f] = AfterFlush(f, FALSE)]
    /\ UNCHANGED <<buf, wdocs, wcall, nextDoc, stopping, lost, acked, failures>>

\* es.Bulk fails, or answers with an error status: flush returns an error
\* and the documents, already removed from the buffer, are gone.
BulkFail(f) ==
    /\ pc[f] = "bulk"
    /\ failures < MaxBulkFailures
    /\ failures' = failures + 1
    /\ lost' = lost \cup body[f]
    /\ body' = [body EXCEPT ![f] = {}]
    /\ pc' = [pc EXCEPT ![f] = AfterFlush(f, TRUE)]
    /\ UNCHANGED <<buf, wdocs, wcall, nextDoc, stopping, indexed, acked>>

\* es.Bulk answers 200 but rejects some items: flush only checks
\* res.IsError(), so it returns nil and the rejected documents are gone.
BulkItemsRejected(f) ==
    /\ ItemErrors
    /\ pc[f] = "bulk"
    /\ failures < MaxBulkFailures
    /\ \E rejected \in SUBSET body[f] \ {{}} :
          /\ lost' = lost \cup rejected
          /\ indexed' = indexed \cup (body[f] \ rejected)
    /\ failures' = failures + 1
    /\ body' = [body EXCEPT ![f] = {}]
    /\ pc' = [pc EXCEPT ![f] = AfterFlush(f, FALSE)]
    /\ UNCHANGED <<buf, wdocs, wcall, nextDoc, stopping, acked>>

\* The Write* call returns to its caller: nil when every addBulkAction did;
\* after an error the documents it had not appended yet are never written.
EndWrite(w) ==
    /\ pc[w] \in {"ok", "err"}
    /\ acked' = IF pc[w] = "ok" THEN acked \cup wcall[w] ELSE acked
    /\ lost' = lost \cup ToSet(wdocs[w])
    /\ wdocs' = [wdocs EXCEPT ![w] = <<>>]
    /\ wcall' = [wcall EXCEPT ![w] = {}]
    /\ pc' = [pc EXCEPT ![w] = "idle"]
    /\ UNCHANGED <<buf, body, nextDoc, stopping, indexed, failures>>

\* flushLoop's ticker arm.
Tick ==
    /\ pc[Loop] = "idle"
    /\ pc' = [pc EXCEPT ![Loop] = "take"]
    /\ UNCHANGED <<buf, body, wdocs, wcall, nextDoc, stopping, indexed, lost,
                   acked, failures>>

\* flushLoop's stopCh arm: return, closing doneCh; no flush here.
LoopExit ==
    /\ pc[Loop] = "idle"
    /\ stopping
    /\ pc' = [pc EXCEPT ![Loop] = "exited"]
    /\ UNCHANGED <<buf, body, wdocs, wcall, nextDoc, stopping, indexed, lost,
                   acked, failures>>

\* Close: close(c.stopCh), then block on doneCh.
CloseBegin ==
    /\ pc[Closer] = "open"
    /\ \A w \in Writers : pc[w] = "idle"
    /\ stopping' = TRUE
    /\ pc' = [pc EXCEPT ![Closer] = "wait"]
    /\ UNCHANGED <<buf, body, wdocs, wcall, nextDoc, indexed, lost, acked,
                   failures>>

\* Close: doneCh is closed; the final flush follows.
CloseWait ==
    /\ pc[Closer] = "wait"
    /\ pc[Loop] = "exited"
    /\ pc' = [pc EXCEPT ![Closer] = CloseAfterWait]
    /\ UNCHANGED <<buf, body, wdocs, wcall, nextDoc, stopping, indexed, lost,
                   acked, failures>>

\* Close has returned: the process exits.
Closed == pc[Closer] = "closed" /\ UNCHANGED esVars

\* Steps internal to the client: the flushes and the background loop.
FlushStep ==
    \E f \in Flushers :
        Take(f) \/ BulkOk(f) \/ BulkFail(f) \/ BulkItemsRejected(f)

ClientStep ==
    \/ \E w \in Writers : AddDoc(w)
    \/ FlushStep
    \/ Tick
    \/ LoopExit
    \/ CloseWait

Next ==
    \/ \E w \in Writers, n \in 1..MaxCallDocs : BeginWrite(w, n)
    \/ \E w \in Writers : EndWrite(w)
    \/ ClientStep
    \/ CloseBegin
    \/ Closed

(* Every goroutine runs on: appends, takes and Bulk requests complete     *)
(* (weak fairness on each flusher's steps); the ticker keeps firing; a     *)
(* closed stopCh is chosen eventually by flushLoop's random select        *)
(* (strong fairness).  Calls and Close are the callers' business.          *)
ClientFairness ==
    /\ \A w \in Writers : WF_esVars(AddDoc(w))
    /\ \A f \in Flushers :
          /\ WF_esVars(Take(f))
          /\ WF_esVars(BulkOk(f) \/ BulkFail(f) \/ BulkItemsRejected(f))
    /\ WF_esVars(Tick)
    /\ SF_esVars(LoopExit)
    /\ WF_esVars(CloseWait)

\* A call, once its last addBulkAction has returned, returns too.
Fairness == ClientFairness /\ \A w \in Writers : WF_esVars(EndWrite(w))

Spec == Init /\ [][Next]_esVars /\ Fairness

-----------------------------------------------------------------------------

TypeOK ==
    /\ buf \in Seq(Docs)
    /\ body \in [Flushers -> SUBSET Docs]
    /\ \A w \in Writers : pc[w] \in {"idle", "add", "take", "bulk", "ok", "err"}
    /\ pc[Loop] \in {"idle", "take", "bulk", "exited"}
    /\ pc[Closer] \in {"open", "wait", "take", "bulk", "closed"}
    /\ wdocs \in [Writers -> Seq(Docs)]
    /\ wcall \in [Writers -> SUBSET Docs]
    /\ nextDoc \in 1..MaxDocs + 1
    /\ stopping \in BOOLEAN
    /\ indexed \subseteq Docs /\ lost \subseteq Docs /\ acked \subseteq Docs
    /\ failures \in 0..MaxBulkFailures

\* Every document handed to a writer is in exactly one place: still in its
\* call, in the buffer, in one Bulk request in flight, indexed or lost.
\* Concurrent flushers never send a document twice or drop one unseen.
DocsAccounted ==
    LET places == <<UNION {ToSet(wdocs[w]) : w \in Writers}, ToSet(buf),
                    InFlight, indexed, lost>>
    IN  /\ UNION {places[i] : i \in 1..5} = 1..(nextDoc - 1)
        /\ \A i, j \in 1..5 : i # j => places[i] \cap places[j] = {}
        /\ IsInjective(buf)
        /\ \A f, g \in Flushers : f # g => body[f] \cap body[g] = {}

\* The buffer is not bounded by batchSize: each writer appends before it
\* flushes outside the lock, so every other writer can append once more.
\* It never holds more than batchSize - 1 + |Writers| documents.
BufferBounded == Len(buf) <= BatchSize - 1 + Cardinality(Writers)

\* Close flushes everything: once it returns, nothing is left in the buffer
\* or in flight, and every document was indexed or lost.
CloseDrains ==
    (pc[Closer] # "open") ~>
        (pc[Closer] = "closed" /\ buf = <<>> /\ InFlight = {}
         /\ indexed \cup lost = 1..(nextDoc - 1))

\* Spec section 7: one failing storage write must not drop other events.
\* A document whose Write* call returned nil is never lost afterwards.
AckedDocsSurvive == acked \cap lost = {}

=============================================================================

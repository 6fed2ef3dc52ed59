-------------------------------- MODULE Loader --------------------------------
(***************************************************************************)
(* The agent's eBPF loader (src/internal/agent/ebpf/loader.go) with its   *)
(* consumer processEvents and the parts of main that start and stop them   *)
(* (src/unnamed/part_003).                                                 *)
(*                                                                         *)
(* Loader.Start loads the object specs, then for each object creates its  *)
(* collection, attaches its programs and opens the perf readers not yet   *)
(* open; any of these may fail and is skipped.  With no perf reader open  *)
(* it returns an error; otherwise it starts one reader goroutine per open  *)
(* reader, then blocks on ctx.Done and calls Close,                        *)
(* which closes the links, the perf readers and the collections, and then *)
(* the events channel, without waiting for the reader goroutines.  A      *)
(* reader loops: return if ctx is done, Read a record (a closed reader     *)
(* returns an error: return), skip a lost or short sample, else convert    *)
(* it and select between sending on events and ctx.Done.                   *)
(*                                                                         *)
(* processEvents selects between ctx.Done and a receive from events, and  *)
(* returns when either fires (a receive on the closed, empty channel).     *)
(* main cancels the root context on a signal, then waits for its          *)
(* WaitGroup.  The k8s cache and the exporter are in the WaitGroup too;    *)
(* their own modules check that they return.                               *)
(*                                                                         *)
(* Records are numbered per reader; conversion to model events is left    *)
(* out, the channel carries <<reader, number>>.                            *)
(***************************************************************************)
EXTENDS Naturals, Sequences, FiniteSets

CONSTANTS
    Readers,     \* the perf readers: conn_events and http_events
    ChanCap,     \* capacity of l.events (4096 in NewLoader)
    MaxRecords,  \* bound: records the kernel writes to each perf buffer
    Objects,     \* the *.o files under objPath
    ObjReaders,  \* per object: the perf maps (conn_events, http_events) it has
    ObjProgs     \* per object: its programs that have an attachMap entry

ASSUME /\ ChanCap \in Nat \ {0} /\ MaxRecords \in Nat
       /\ ObjReaders \in [Objects -> SUBSET Readers]
       /\ \A o \in Objects : IsFiniteSet(ObjProgs[o])

VARIABLES
    lpc,         \* the loader goroutine: "load", "loop", "wait", "chan", "done"
    rpc,         \* per reader: "off", "check", "read", "send", "done", "panic"
    perfClosed,  \* Close has closed the perf readers
    evClosed,    \* Close has closed l.events
    events,      \* the buffered contents of l.events
    produced,    \* per reader: records the kernel wrote so far
    holding,     \* per reader: the record it is trying to send
    ppc,         \* processEvents: "loop" or "done"
    enqueued,    \* history: records processEvents handed to the exporter
    ctxDone,     \* the root context is cancelled
    mpc,         \* main: "wait" on ctx.Done, "wg" in wg.Wait, "exit"
    specs,       \* the objects loadSpecs returned
    visited,     \* the objects Start's loop has handled
    colls,       \* l.collections: objects whose collection was created
    links,       \* l.links: <<object, program>> attached
    perfOpen,    \* the perf readers opened (l.connPerf, l.httpPerf non-nil)
    converted,   \* history: records a reader converted to a model event
    dropped      \* history: converted records a reader returned without sending

hist == <<converted, dropped>>
res == <<specs, visited, colls, links, perfOpen>>
vars == <<lpc, rpc, perfClosed, evClosed, events, produced, holding, ppc,
          enqueued, ctxDone, mpc, hist, res>>

NoRecord == <<>>

Init ==
    /\ lpc = "load"
    /\ rpc = [r \in Readers |-> "off"]
    /\ perfClosed = FALSE
    /\ evClosed = FALSE
    /\ events = <<>>
    /\ produced = [r \in Readers |-> 0]
    /\ holding = [r \in Readers |-> NoRecord]
    /\ ppc = "loop"
    /\ enqueued = <<>>
    /\ ctxDone = FALSE
    /\ mpc = "wait"
    /\ converted = {}
    /\ dropped = {}
    /\ specs = {} /\ visited = {} /\ colls = {} /\ links = {}
    /\ perfOpen = {}

Records == Readers \X (1..MaxRecords)

TypeOK ==
    /\ lpc \in {"load", "loop", "wait", "chan", "done"}
    /\ rpc \in [Readers -> {"off", "check", "read", "send", "done", "panic"}]
    /\ events \in Seq(Records) /\ Len(events) <= ChanCap
    /\ produced \in [Readers -> 0..MaxRecords]
    /\ holding \in [Readers -> Records \cup {NoRecord}]
    /\ ppc \in {"loop", "done"} /\ mpc \in {"wait", "wg", "exit"}
    /\ enqueued \in Seq(Records)
    /\ converted \subseteq Records /\ dropped \subseteq converted
    /\ visited \subseteq specs /\ specs \subseteq Objects
    /\ colls \subseteq visited /\ perfOpen \subseteq Readers
    /\ \A l \in links : l[1] \in colls /\ l[2] \in ObjProgs[l[1]]

-----------------------------------------------------------------------------
(* Plausible faults in the operators below.                                *)

\* No lost-sample or size check: a bad sample is sent on as an event,
\* decoded from whatever the raw bytes hold.
ReaderRecordUnchecked(r, good) ==
    /\ rpc[r] = "read"
    /\ ~perfClosed
    /\ produced[r] < MaxRecords
    /\ produced' = [produced EXCEPT ![r] = @ + 1]
    /\ holding' = [holding EXCEPT ![r] = IF good THEN <<r, produced[r] + 1>>
                                                ELSE NoRecord]
    /\ converted' = IF good THEN converted \cup {<<r, produced[r] + 1>>}
                            ELSE converted
    /\ rpc' = [rpc EXCEPT ![r] = "send"]
    /\ UNCHANGED <<lpc, perfClosed, evClosed, events, ppc, enqueued, ctxDone,
                   mpc, dropped, res>>

\* A send with a default arm: with the channel full, go on without it.
ReaderSendDefault(r) ==
    /\ rpc[r] = "send"
    /\ \/ /\ ~evClosed
          /\ Len(events) < ChanCap
          /\ events' = Append(events, holding[r])
          /\ rpc' = [rpc EXCEPT ![r] = "check"]
       \/ /\ ~evClosed
          /\ Len(events) = ChanCap
          /\ rpc' = [rpc EXCEPT ![r] = "check"]
          /\ UNCHANGED events
    /\ holding' = [holding EXCEPT ![r] = NoRecord]
    /\ UNCHANGED <<lpc, perfClosed, evClosed, produced, ppc, enqueued, ctxDone,
                   mpc, hist, res>>

\* processEvents with break for return in its select: break leaves the
\* select, not the for loop.
ConsumerExitBreak ==
    /\ ppc = "loop"
    /\ ctxDone \/ (evClosed /\ events = <<>>)
    /\ UNCHANGED vars

-----------------------------------------------------------------------------
(* Loader.Start and Close                                                  *)

\* loadSpecs, and Start's checks on its result: the objects whose spec
\* loaded (a file that fails LoadCollectionSpec is skipped).  An os.Stat,
\* Glob or single-file error, or no object at all, makes Start return its
\* error at once; main only logs it.
LoadSpecs ==
    /\ lpc = "load"
    /\ \E s \in SUBSET Objects :
          /\ specs' = s
          /\ lpc' = IF s = {} THEN "done" ELSE "loop"
    /\ UNCHANGED <<rpc, perfClosed, evClosed, events, produced, holding, ppc,
                   enqueued, ctxDone, mpc, hist, visited, colls, links,
                   perfOpen>>

\* attachPrograms: every program of the collection with an attachMap entry
\* is attached; one whose attach fails is logged and skipped.
AttachPrograms(o, attached) == links \cup ({o} \X attached)

\* One iteration of Start's loop over the specs, in map order: a failed
\* NewCollection is logged and skipped; otherwise the collection is kept,
\* its programs attached, and a perf reader opened for each of its perf
\* maps whose reader is still nil (NewReader may fail: logged, left nil).
LoadObject(o) ==
    /\ lpc = "loop"
    /\ o \in specs \ visited
    /\ visited' = visited \cup {o}
    /\ \/ UNCHANGED <<colls, links, perfOpen>>
       \/ /\ colls' = colls \cup {o}
          /\ \E attached \in SUBSET ObjProgs[o] :
                links' = AttachPrograms(o, attached)
          /\ \E opened \in SUBSET (ObjReaders[o] \ perfOpen) :
                perfOpen' = perfOpen \cup opened
    /\ UNCHANGED <<lpc, rpc, perfClosed, evClosed, events, produced, holding,
                   ppc, enqueued, ctxDone, mpc, hist, specs>>

\* After the loop no perf reader is open: Start returns an error, without
\* Close, leaving the collections and links it created.
LoadFail ==
    /\ lpc = "loop"
    /\ visited = specs
    /\ perfOpen = {}
    /\ lpc' = "done"
    /\ UNCHANGED <<rpc, perfClosed, evClosed, events, produced, holding, ppc,
                   enqueued, ctxDone, mpc, hist, res>>

\* Start starts a reader goroutine for each open perf reader and blocks on
\* ctx.Done.
LoadOk ==
    /\ lpc = "loop"
    /\ visited = specs
    /\ perfOpen # {}
    /\ lpc' = "wait"
    /\ rpc' = [r \in Readers |-> IF r \in perfOpen THEN "check" ELSE "off"]
    /\ UNCHANGED <<perfClosed, evClosed, events, produced, holding, ppc,
                   enqueued, ctxDone, mpc, hist, res>>

\* <-ctx.Done(), then Close: the links, perf readers and collections
\* Start created (perfClosed stands for all three).
CloseReaders ==
    /\ lpc = "wait"
    /\ ctxDone
    /\ perfClosed' = TRUE
    /\ lpc' = "chan"
    /\ UNCHANGED <<rpc, evClosed, events, produced, holding, ppc, enqueued,
                   ctxDone, mpc, hist, res>>

\* The end of Close: close(l.events); Start returns ctx.Err().
CloseEvents ==
    /\ lpc = "chan"
    /\ evClosed' = TRUE
    /\ lpc' = "done"
    /\ UNCHANGED <<rpc, perfClosed, events, produced, holding, ppc, enqueued,
                   ctxDone, mpc, hist, res>>

-----------------------------------------------------------------------------
(* readConnEvents / readHTTPEvents, for reader r                           *)

\* The non-blocking ctx check at the top of the loop.
ReaderCheck(r) ==
    /\ rpc[r] = "check"
    /\ rpc' = [rpc EXCEPT ![r] = IF ctxDone THEN "done" ELSE "read"]
    /\ UNCHANGED <<lpc, perfClosed, evClosed, events, produced, holding, ppc,
                   enqueued, ctxDone, mpc, hist, res>>

\* Read returns a record the kernel wrote.  A lost or short sample, or an
\* unknown event, is skipped (back to the check); a good one is converted.
ReaderRecord(r, good) ==
    /\ rpc[r] = "read"
    /\ ~perfClosed
    /\ produced[r] < MaxRecords
    /\ produced' = [produced EXCEPT ![r] = @ + 1]
    /\ IF good
       THEN /\ holding' = [holding EXCEPT ![r] = <<r, produced[r] + 1>>]
            /\ converted' = converted \cup {<<r, produced[r] + 1>>}
            /\ rpc' = [rpc EXCEPT ![r] = "send"]
       ELSE /\ rpc' = [rpc EXCEPT ![r] = "check"]
            /\ UNCHANGED <<holding, converted>>
    /\ UNCHANGED <<lpc, perfClosed, evClosed, events, ppc, enqueued, ctxDone,
                   mpc, dropped, res>>

\* Read on a closed perf reader returns an error: log and return.
ReaderClosed(r) ==
    /\ rpc[r] = "read"
    /\ perfClosed
    /\ rpc' = [rpc EXCEPT ![r] = "done"]
    /\ UNCHANGED <<lpc, perfClosed, evClosed, events, produced, holding, ppc,
                   enqueued, ctxDone, mpc, hist, res>>

\* The select's send arm: a send on the open channel with room succeeds;
\* on the closed channel it panics, crashing the agent.
ReaderSend(r) ==
    /\ rpc[r] = "send"
    /\ \/ /\ ~evClosed
          /\ Len(events) < ChanCap
          /\ events' = Append(events, holding[r])
          /\ rpc' = [rpc EXCEPT ![r] = "check"]
          /\ UNCHANGED dropped
       \/ /\ evClosed
          /\ rpc' = [rpc EXCEPT ![r] = "panic"]
          /\ dropped' = dropped \cup {holding[r]}
          /\ UNCHANGED events
    /\ holding' = [holding EXCEPT ![r] = NoRecord]
    /\ UNCHANGED <<lpc, perfClosed, evClosed, produced, ppc, enqueued, ctxDone,
                   mpc, converted, res>>

\* The select's ctx.Done arm: return, dropping the converted record.
ReaderCancelled(r) ==
    /\ rpc[r] = "send"
    /\ ctxDone
    /\ rpc' = [rpc EXCEPT ![r] = "done"]
    /\ dropped' = dropped \cup {holding[r]}
    /\ holding' = [holding EXCEPT ![r] = NoRecord]
    /\ UNCHANGED <<lpc, perfClosed, evClosed, events, produced, ppc, enqueued,
                   ctxDone, mpc, converted, res>>

Reader(r) ==
    \/ ReaderCheck(r)
    \/ \E good \in BOOLEAN : ReaderRecord(r, good)
    \/ ReaderClosed(r)
    \/ ReaderSend(r)
    \/ ReaderCancelled(r)

-----------------------------------------------------------------------------
(* processEvents and main                                                  *)

\* A receive of a buffered record: enrich it and Enqueue it.
Consume ==
    /\ ppc = "loop"
    /\ events # <<>>
    /\ enqueued' = Append(enqueued, Head(events))
    /\ events' = Tail(events)
    /\ UNCHANGED <<lpc, rpc, perfClosed, evClosed, produced, holding, ppc,
                   ctxDone, mpc, hist, res>>

\* The ctx.Done arm, or the receive on the closed, drained channel.
ConsumerExit ==
    /\ ppc = "loop"
    /\ ctxDone \/ (evClosed /\ events = <<>>)
    /\ ppc' = "done"
    /\ UNCHANGED <<lpc, rpc, perfClosed, evClosed, events, produced, holding,
                   enqueued, ctxDone, mpc, hist, res>>

\* The signal goroutine calls cancel().
Cancel ==
    /\ ~ctxDone
    /\ ctxDone' = TRUE
    /\ UNCHANGED <<lpc, rpc, perfClosed, evClosed, events, produced, holding,
                   ppc, enqueued, mpc, hist, res>>

\* main: <-ctx.Done(), then wg.Wait() for the loader and processEvents
\* goroutines.
MainWait ==
    /\ mpc = "wait"
    /\ ctxDone
    /\ mpc' = "wg"
    /\ UNCHANGED <<lpc, rpc, perfClosed, evClosed, events, produced, holding,
                   ppc, enqueued, ctxDone, hist, res>>

MainExit ==
    /\ mpc = "wg"
    /\ lpc = "done"
    /\ ppc = "done"
    /\ mpc' = "exit"
    /\ UNCHANGED <<lpc, rpc, perfClosed, evClosed, events, produced, holding,
                   ppc, enqueued, ctxDone, hist, res>>

\* The process has exited, or a reader's panic crashed it.
Crashed == \E r \in Readers : rpc[r] = "panic"

Stopped ==
    /\ mpc = "exit" \/ Crashed
    /\ UNCHANGED vars

Next ==
    \/ /\ ~Crashed
       /\ \/ LoadSpecs \/ \E o \in Objects : LoadObject(o)
          \/ LoadFail \/ LoadOk
          \/ CloseReaders \/ CloseEvents
          \/ \E r \in Readers : Reader(r)
          \/ Consume \/ ConsumerExit
          \/ Cancel \/ MainWait \/ MainExit
    \/ Stopped

Spec == Init /\ [][Next]_vars

\* A step of a goroutine of the running process.
Running(A) == ~Crashed /\ A

(* Every goroutine that can go on eventually does (weak fairness): Start  *)
(* finishes loading, Close runs to its end, the readers check ctx, fail   *)
(* on a closed reader, send or give up, processEvents receives or         *)
(* returns, main waits and exits.  Read returning a record depends on the *)
(* kernel, and the signal on the operator: neither is fair.               *)
Fairness ==
    /\ WF_vars(Running(LoadSpecs)) /\ WF_vars(Running(\E o \in Objects : LoadObject(o)))
    /\ WF_vars(Running(LoadFail \/ LoadOk))
    /\ WF_vars(Running(CloseReaders)) /\ WF_vars(Running(CloseEvents))
    /\ \A r \in Readers :
          /\ WF_vars(Running(ReaderCheck(r))) /\ WF_vars(Running(ReaderClosed(r)))
          /\ WF_vars(Running(ReaderSend(r))) /\ WF_vars(Running(ReaderCancelled(r)))
    /\ WF_vars(Running(Consume)) /\ WF_vars(Running(ConsumerExit))
    /\ WF_vars(Running(MainWait)) /\ WF_vars(Running(MainExit))

FairSpec == Spec /\ Fairness

-----------------------------------------------------------------------------

\* Spec section 4.1 (Cancellation) and section 5: the decode loops end,
\* and the event channel is closed last, so that downstream sees EOF: no
\* reader goroutine ever sends on the closed l.events (which panics).
NoSendOnClosed == \A r \in Readers : rpc[r] # "panic"

InSeq(x, s) == \E i \in 1..Len(s) : s[i] = x

\* Spec section 4.1 (a bounded channel; events are forwarded, not lost in
\* the agent): every record a reader converted is still held by it, in
\* l.events, or enqueued for export, unless the reader gave it up after
\* the context was cancelled, even while the channel is full and the
\* reader blocks in its select.
ConvertedAccounted ==
    \A rec \in converted :
        \/ \E r \in Readers : holding[r] = rec
        \/ InSeq(rec, events) \/ InSeq(rec, enqueued)
        \/ rec \in dropped /\ ctxDone

\* Spec section 5 (graceful shutdown): once the context is cancelled, the
\* agent's main returns from wg.Wait and exits (or a reader's panic has
\* already ended the process), whether or not Start managed to load.
AgentStops == ctxDone ~> (mpc = "exit" \/ Crashed)

====

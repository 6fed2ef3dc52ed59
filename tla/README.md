# TLA+ models of nefi

nefi is a Kubernetes network observability system with two halves:

- **The agent** runs on every node.
  1. An eBPF loader (`src/internal/agent/ebpf/loader.go`) attaches the kernel
     programs in `src/bpf/`. It reads their perf buffers and publishes
     connection and HTTP events on a Go channel.
  2. `processEvents` (`src/unnamed/part_003`) enriches each endpoint through
     the Kubernetes identity cache (`src/internal/agent/k8s/cache.go`).
  3. It then hands the event to the gRPC exporter
     (`src/internal/agent/exporter/grpc.go`). The exporter keeps a bounded
     in-memory queue and ships batches to the server, redialling with
     exponential backoff.
- **The server** (`src/cmd/nefi-server/main.go`):
  - receives batches on the ingestion stream (`src/unnamed/part_005`);
  - writes them to Elasticsearch through a shared bulk buffer
    (`src/unnamed/part_006`, from line 555);
  - feeds them to the metrics aggregator
    (`src/internal/server/metrics/aggregator.go`), which keeps latency
    histograms per service and window and flushes percentiles;
  - periodically recomputes the service dependency graph
    (`src/unnamed/part_004`);
  - serves a REST and WebSocket API (`src/unnamed/part_006`, lines 1-554) to
    the React UI.

The modules check the parts where concurrency, failure and bounded
resources meet. These are the places where the code's behaviour is hard to
test.

## Inventory

| Component | State | Operations | What is hard |
|---|---|---|---|
| gRPC exporter (`grpc.go`) | `queue`, `conn`, `stream`, Start's `backoff` | Enqueue, Start (dial / sleep / reconnect), connect, closeConn, flushLoop (tick, ctx.Done), flush (take, discard, send, requeue) | The producer interleaves with flush's unlocked send. A failed send requeues into a queue that filled meanwhile. The backoff races cancellation. |
| Agent main (`part_003`) | root ctx, WaitGroup | signal → cancel, processEvents, enrichEndpoint | The loader error does not cancel, while the cache and exporter errors do. processEvents selects between ctx and the channel. |
| eBPF loader (`loader.go`) | perf readers, links, `events` channel | Start, Close, readConnEvents, readHTTPEvents, the struct decoding and conversions | Close closes `events` while the reader goroutines may still be sending on it. Lost samples are skipped without a count. The size check and fixed offsets must match the C structs as the perf buffer delivers them. |
| Identity cache (`cache.go`) | `ipToIdentity`, `podToServices` | Lookup, onPodAdd/Update/Delete, onEndpointSliceUpdate/Delete, resolveWorkload, stripReplicaSetHash | onPodAdd reads the services under one lock and writes the identity under another. A slice deletion clears the services. A pod deletion by IP can remove a reused IP. |
| Kernel programs (`src/bpf`) | `connections`, `retransmit_count`, `http_req_start`, `active_recv` maps | inet_sock_set_state, tcp_retransmit_skb, sendmsg/recvmsg probes | Map entries outlive their socket, and a full map drops inserts. A response is joined to its request through a tuple computed on each side. |
| Ingestion (`part_005`) | `accepted` counter | StreamEvents, processBatch, conversions | A write error in the middle of a batch leaves it half written and half aggregated, and the counter skipped. |
| ES client (`part_006` 555+) | `bulkBuf`, `pending` | addBulkAction, flush, Close, Write* | The buffer is shared by all writers. Flush empties it before Bulk, so one failure loses other writers' documents. |
| Metrics aggregator (`aggregator.go`) | `buckets` map per service and window | ObserveConnection, ObserveHTTPRequest, flush (swap), histogramPercentile | Flush swaps the map out under the lock while observers keep adding. Interpolated percentiles. |
| Dependency computer (`part_004`) | `deps` map | run, compute, addConnection/HTTPEvent, buildLinks, computeP99 | The P99 index, the suppression of self-edges, and the reset on every compute. |
| Server main (`main.go`) | components | shutdown sequence | The order of stops: a component stopped before its producers. |
| API and WebSocket (`part_006` 1-554) | client set | handlers, broadcast loop | Mostly stateless queries. |
| UI, `event.go` | none | rendering; data types | Nothing to check. |
| `cmd/ebpf-test` | one perf reader | the read loop | Its size check and offsets must match the packed `conn_event`. |

### Properties per component

What the runs check, per component (the Runs table gives the cfgs):

- **Exporter:** the queue is bounded; only the oldest events are dropped;
  no batch vanishes; the exporter stops after cancellation; every event is
  eventually shipped or dropped; the exporter refines a lossy FIFO
  (`ExportQueue`).
- **Aggregator:** every observation is counted in exactly one flushed
  window, across flush swaps; percentiles are monotone in the quantile and
  lie in the bucket of the true nearest-rank sample; Stop's final flush
  covers every call.
- **ES client and ingestion:** no document is sent twice or lost unseen;
  the bulk buffer stays bounded; Close drains it; each agent is
  acknowledged exactly the events whose writes returned nil; the aggregator's final flush hands every observed
  event to storage before Close, even when a WriteMetrics call fails; after
  the signal the server shuts down.
- **Identity cache:** a delivered pod deletion is never undone; after any
  interleaving of pod and slice events, label changes and name reuse, the
  cache converges to the pod holding every IP and, for a pod some service
  selects, to one of those services. A pod no service selects keeps a stale
  service name (an observation below).
- **Dependency computer:** each cycle's links count exactly the events its
  own reads returned, with no self-edge; Stop returns.
- **Loader:** every converted record is held, buffered or enqueued, and
  given up only after cancellation; after the signal the agent exits; no
  reader goroutine sends on the closed events channel (a finding).
- **HTTP probes:** every exchange completed by a client on this node yields
  a response event that times that request.

## Modules

### ExportQueue (abstract)

This is what the export path promises, without batches, locks or streams:

- `pending` is a sequence of event ids.
  - `Put` appends a fresh id. It may evict others.
  - `Ship(k)` moves the first k ids onto `shipped`.
  - `Drop` removes some pending ids and keeps the order of the rest.
- Nothing is shipped twice or out of order.

### Exporter, MCExporter

Exporter models `grpc.go` with the goroutine that feeds it and the signal
that cancels it. Each variable is the code's field or local:

- `queue` is `e.queue`;
- `conn` and `stream` mean "the field is not nil";
- `backoff` is Start's local;
- `pc` is the exporter goroutine's position: top of Start's loop, backoff
  sleep, flushLoop, or the stream Send in progress.

History variables record `delivered` and `dropped` ids.

The actions and the code they model:

| Action | Code |
|---|---|
| `Enqueue` | `Enqueue` (drop the oldest at the limit) |
| `Cancel` | the signal goroutine |
| `Shutdown` | the ctx check at the top of Start |
| `DialOk` / `DialFail` | `connect` and Start's branches on it |
| `SleepElapsed` / `SleepCancelled` | the backoff select, with the capped doubling |
| `Tick` / `FinalFlush` | the two arms of flushLoop's select, both calling `flush` |
| `SendOk` / `SendFail` | the stream Send outcome. The failure requeues under the lock, returns the error, and Start closes the connection and loops. |

The lock is released between taking the batch and the send, and Enqueue may
run in between. That is why taking the batch (`Flush`) and the outcome
(`SendOk`/`SendFail`) are separate steps.

`OpensStream` is a constant:

- `FALSE` is the code as written. `connect` sets `e.stream = nil`, and
  flush discards every batch.
- `TRUE` is the same code with the stream opened, as the comment at
  grpc.go:217-220 announces. It is the only way the send and requeue code
  runs.

**Fairness.** The exporter goroutine gets weak fairness: ticks keep coming,
and dial and Send return. The two `ctx.Done()` arms (the backoff sleep and
flushLoop) get strong fairness. Go's `select` picks uniformly at random
among ready cases, so a case that stays ready is chosen with probability 1.
The producer and the signal are the environment and get no fairness.

**Bounds.**

| Constant | Value | Why |
|---|---|---|
| `QueueLimit` | 3 | |
| `BatchSize` | 2 | A batch is a proper part of a full queue, and queue + batch overflows the limit. |
| `MaxBackoff` | 4 × `InitialBackoff` | The cap is reached after two doublings. |
| `MaxEvents` | 5 | Enough to fill the queue while a batch is in flight. |
| `MaxFailures` | 3 | Combines dial and send failures. |

Ids are ordered, so no symmetry is used.

### Histogram

Pure operators for the latency histogram of `aggregator.go`:

- `BucketOf` / `ObserveLatency` are `observeLatency`: the first boundary
  with latency ≤ boundary, else the +Inf bucket.
- `HistogramPercentile` is `histogramPercentile`: the first bucket whose
  cumulative count reaches `q·total`, interpolated between its lower and
  upper bound; the +Inf bucket's upper bound is twice the last boundary.

Latencies are in milliseconds (the code's nanosecond boundaries divided by
10⁶, all integers). Quantiles are percents, so the target is exact; for
0.50, 0.95 and 0.99 the float64 product never rounds above an integer
target, so the same bucket is chosen. Estimates are exact fractions.
`NearestRank`, `EnclosingLow` and `EnclosingHigh` are reference
definitions, independent of the bucket arithmetic.

### Aggregator, MCAggregator

Aggregator models `aggregator.go`: observers (`ObserveConnection`,
`ObserveHTTPRequest`, both through `Record`) against `flushLoop`, whose
`flush` swaps the map under the lock (`FlushSwap`) and writes the points
after unlocking (`FlushWrite`). An accumulator keeps calls, errors, the
bucket counts and, as history, the samples. Bytes and timestamps are left
out: no property reads them. Fairness: weak on the ticker and on flush;
strong on the `stopCh` arm of the select. Observers and `Stop` are the
environment.

Bounds: two services and the empty name, latencies {0, 1, 3, 10, 30000} ms
(zero, the first two buckets, an exact boundary, and +Inf), three
observations. This is enough for an observation to land between a swap and
its write, and for every bucket case of the estimate.

### ESClient, MCESClient

ESClient models the bulk buffer of the Elasticsearch client
(`part_006`, 596-882). `buf` is the sequence of documents whose actions
the buffer holds, so `pending = Len(buf)`. Three kinds of goroutine flush:

| Action | Code |
|---|---|
| `BeginWrite` / `EndWrite` | a `Write*` method's call and return (nil or the first error) |
| `AddDoc` | `addBulkAction`: append under the lock, decide `shouldFlush` |
| `Take` | `flush` under the lock: nothing pending returns nil; otherwise take and reset the buffer |
| `BulkOk` / `BulkFail` / `BulkItemsRejected` | `es.Bulk`: success; an error or error status; status 200 with rejected items, which `flush` does not look at |
| `Tick` / `LoopExit` | the two arms of `flushLoop`; the stop arm does not flush |
| `CloseBegin` / `CloseWait` | `Close`: close `stopCh`, wait for `doneCh`, then the final flush |

History variables `indexed`, `lost` and `acked` say where each document
ended. Fairness: weak on every flusher's steps and the ticker, strong on
the `stopCh` arm. Callers are the environment. `ClientFairness` leaves out
the writers' return, so that Ingestion can compose it.

ESClient's own properties are checked in the `ingestion` run, with the
stream handlers as the writers; `MCESClient` with generic writers serves
the `es_cross_writer` run: two writers, calls of up to two documents, four
documents, `BatchSize` 2, one injected Bulk failure. Both writers can
append between one's decision to flush and its take, which is what
`BufferBounded` needs.

### Ingestion, MCIngestion

Ingestion extends ESClient. Each agent stream is a writer running
`StreamEvents`. The aggregator's `flushLoop` is one more writer,
`AggWriter`: `Streams` is `Writers` without it.

| Action | Code |
|---|---|
| `RecvBatch` / `RecvEOF` / `RecvError` | the outcomes of `stream.Recv` |
| `StartConns` / `FinishConns` | `processBatch`'s connection write, then the aggregator hand-off, or the early return on error |
| `StartReqs` / `FinishReqs` | the same for requests; a normal end adds to `s.accepted` |
| `Signal` | the signal reaching `main` |
| `StopServer` | `GracefulStop` returned; the HTTP server, broadcast and dependency computer stop; `aggregator.Stop` closes `stopCh` (main.go:129-145) |
| `CloseStorage` | `aggregator.Stop`'s `<-a.doneCh` is over (`AggStopDone`); `esClient.Close` |
| `AggTick` / `AggStopArm` | `flushLoop`'s two select arms, each running `flush` |
| `AggSwap` | `flush` under `a.mu`: the map swapped for an empty one; an empty snapshot returns |
| `AggWriteBegin` / `AggWriteEnd` | one `WriteMetrics` call per kind, latency (when there are samples), call_rate, error_rate, traffic; an error is logged and flush goes on (`NextKinds`) |

`total` is the stream's `totalAccepted`, and `accepted` is `s.accepted`.
`aggregated` counts the events handed to the aggregator. `window` is the
aggregator's live map, reduced to the number of events in it; the
Aggregator module checks the accumulators themselves. Each kind's points
of a window go in one `WriteMetrics` call, modelled as one document.
`reported` is a history variable: the events counted in call_rate points
handed to storage. An event with no service name is not counted by the
real aggregator. The model does not tell such events apart, so it reads
"handed to the aggregator" as "counted".

Fairness: the handlers, the client, the aggregator's flush and `main` are
weakly fair. The `stopCh` arm is strongly fair, as in Aggregator. Recv
outcomes and the signal are up to the agents and get none. Weak fairness on
a flusher's Bulk assumes every Bulk call returns. The code gives no such
guarantee: the client has no transport timeout (part_006:620-622) and Bulk
gets no context (833). So the model checks no property that a handler's
batch is eventually processed: under this fairness it would hold
trivially, and the real way it fails, a hung Bulk, is assumed away.
`CloseDrains` is stated under the same assumption.

Bounds in `Ingestion.cfg`: one stream and the aggregator as writers; one
batch of at most one event of each kind; and `BatchSize` 2, so one
writer's append can flush the other's documents. There is one Bulk failure
or item rejection. Every window has latency samples (`LatencyCases =
{TRUE}`), so a flush makes all four calls and the latency write comes
first. With both cases the run grows to 1.1 million states and its
liveness check to about four minutes; `IngestionShutdown.cfg` keeps both.
`MaxDocs` is assumed large enough that no write is cut short.

`MetricsBeforeClose` says that once Close has begun, the aggregator has
returned and every event handed to it is in a call_rate point given to the
client. It takes the stream's writes and the swap, four WriteMetrics calls
of which one may fail, and main's order of stops. Two plausible bugs break
it:

- flush returning at the first failed write (a latency Bulk failure then
  loses the call counts);
- `Stop` not waiting on `doneCh` (Close then starts before the final
  flush).

### IdentityCache, MCIdentityCache

IdentityCache models `cache.go` together with the cluster it watches and
the two informers between them. The cluster (`phase`, `ip`, `member`,
`created`, `svcUp`, `slice`) is the environment: pods start on an IP no
running pod holds, change labels and so the services that select them
(`PodRelabel`, an update event), terminate (an update event), and are
removed (a delete event);
services are created and deleted, and the endpoints controller re-syncs a
service's slice to its running member pods. Each informer delivers its
events in order from a queue (`podQ`, `sliceQ`) to one handler goroutine,
and on resync re-delivers its whole store in any order.

| Action | Code |
|---|---|
| `PodAddRead` | `onPodAdd` up to `lookupServiceForPod`, under the read lock |
| `PodAddWrite` | `onPodAdd`'s write of the endpoint, under the write lock |
| `OnPodDelete` | `onPodDelete`: delete the endpoint by IP |
| `OnEndpointSliceUpdate` | `onEndpointSliceUpdate`: map the slice's pods to the service, set the service of their endpoints |
| `OnEndpointSliceDelete` | `onEndpointSliceDelete`: unmap the slice's pods, clear their endpoints' service |

The pod handler runs on its own goroutine, the slice handler on another, so
a slice update can fall between `PodAddRead` and `PodAddWrite`.
`resolveWorkload` is left out: it reads only the pod object and no property
looks at the workload fields. Fairness: weak on every handler, on the
resyncs (the 30 s resync period), on the controller's slice sync and on pod
removal (kubelet finishes terminating pods). Pod starts, label changes,
terminations and service changes are bounded by `MaxChanges` and get no
fairness.

Bounds: two pods, one IP, two services, three cluster changes, pod names
reusable. The first pod starts selected by one service and the second by
both; a label change can give a running pod any other set of services.
Three changes reach each case the properties are about: a new pod taking
the IP of a terminating one (start, terminate, start), a name coming back
(start, terminate, start), a pod relabelled out of every service or into
another, and a slice of a two-service pod deleted. The cache keeps one
service per pod, so for a pod behind two services whichever slice was
handled last wins, and deleting either slice clears the service.
`CacheAgreesWhileSelected` therefore accepts any existing service that
selects the pod, and `Converges` shows that the next resync restores it.
For a pod no existing service selects it accepts any service name:
`ConvergesToSpec`, which demands "" there, fails (see the observations).
Four changes give 2.9M states and about four minutes, with no more cases.

### DependencyGraph, MCDependencyGraph

DependencyGraph models `DependencyComputer` (`part_004`). Storage is a
sequence of events, oldest first, that ingestion appends to (`Store`) at
any time, also between compute's two reads.

| Action | Code |
|---|---|
| `ComputeReset` | compute's reset of `dc.deps` (also the first compute in `run`) |
| `ReadConns` / `ReadReqs` | `FindConnections` / `FindRequests` (the `Limit` newest of the kind, or an error that skips them), then the events added to their edges |
| `Finish` | `buildLinks`, the return on no links, `WriteDependencies` and its logged error |
| `Tick` / `StopArm` | the two arms of `run`'s select |
| `Stop` | `Stop`'s `close(stopCh)` |

`Accumulate` is the per-event loop in closed form: per edge, the count of
the read events with two distinct non-empty services, the requests with
status ≥ 500, and the positive latencies in the order read. `ComputeP99`
is `computeP99`: `int(0.99·n + 0.5) - 1` equals `(99n + 50) div 100 - 1`
in float64 for every n ≤ 50000 (the read limit). Fairness: weak on compute's steps
and the ticker, strong on the stop arm (random select). Storage, read and
write outcomes and `Stop` are the environment. `GetCurrentLinks` has no
caller and is not modelled.

Bounds: services a and b and the empty name; six kinds of event (an edge
with an error, a connection, a reverse edge without latency, a self-call,
an unresolved source); three stores; `Limit` 2, so a read can miss the
oldest.

### Loader, MCLoader

Loader models the agent's eBPF loader (`loader.go`) together with
`processEvents` and the parts of the agent's `main` that cancel and wait
(`part_003`).

| Action | Code |
|---|---|
| `LoadSpecs` | `loadSpecs` and Start's checks on it: the objects whose spec loaded; an error or no object returns at once |
| `LoadObject` (`AttachPrograms`) | one iteration of Start's loop: `NewCollection` fails and is skipped, or the collection is kept, `attachPrograms` attaches some of its programs, and the perf readers still nil are opened (each may fail) |
| `LoadFail` / `LoadOk` | after the loop: no perf reader, so Start returns an error without `Close`; or one reader goroutine per open reader |
| `CloseReaders` / `CloseEvents` | `<-ctx.Done()`, then `Close`: links, perf readers and collections, then `close(l.events)` |
| `ReaderCheck` | the non-blocking `ctx.Done` check at the top of a reader loop |
| `ReaderRecord` / `ReaderClosed` | `Read`: a record (skipped when lost, short or unknown, else converted), or the error of a closed reader |
| `ReaderSend` / `ReaderCancelled` | the reader's select: send on `l.events` (a panic when it is closed), or `ctx.Done` |
| `Consume` / `ConsumerExit` | `processEvents`' select: a buffered event is enriched and enqueued; `ctx.Done` or the closed channel returns |
| `Cancel`, `MainWait`, `MainExit` | the signal goroutine's `cancel`, `<-ctx.Done()` and `wg.Wait()` in `main` |

`ReaderRecord` chooses freely between a skipped and a converted record. That
covers every reader the code could have. As built, the size check skips
every conn sample, and it accepts every HTTP sample (see EventLayout). So
the records converted in a real run are HTTP records.

A reader panic crashes the process, so after one only stuttering remains.
Two history variables record what the readers did: `converted` holds the
records they decoded, and `dropped` the ones they gave up without sending.

Fairness (`FairSpec`) is weak on every goroutine step of the running
process (`Running`). Two steps get none: `Read` returning a record, which
depends on the kernel, and the signal, which depends on the operator.

Objects are the `*.o` files; `ObjReaders` and `ObjProgs` give each one's
perf maps and attachMap programs, as in `src/bpf/*.c`. `MCLoader` has
connection_tracker.o, http_parser.o and dns_tracker.o, with one program
each. Which links exist changes nothing the readers do.

`Loader.cfg` has both readers, the two objects that carry them (each may
fail to load, fail `NewCollection`, or fail `NewReader`), a channel of
capacity 1 and two records per perf buffer. dns_tracker.o has no reader, so
it is left out of this run: with it the run is four times larger and
reaches no new reader behaviour. With these bounds one reader fills the channel while the other
blocks in its select. It checks:

- `ConvertedAccounted`: no converted record is lost while the agent runs;
- `AgentStops`: after the signal, main leaves `wg.Wait`. This holds even when
  Start failed and `l.events` is never closed, because `processEvents` then
  returns through its `ctx.Done` arm.

`LoaderSendOnClosed.cfg` has all three objects and one record per buffer: that is enough for a
reader to be inside its select when Close runs.

### EventLayout, MCEventLayout

EventLayout follows one record from a probe to the events channel, byte by
byte. A probe fills a `struct conn_event` or `struct http_event` and outputs
`sizeof(event)` bytes. The header `bpf/headers/common.h` is not in the
tree; its text is quoted in `src/explain.md` (lines 403-493), which the
model follows: `conn_event` is `__attribute__((packed))`, `http_event` is
not. The reader goroutine skips a sample shorter than `unsafe.Sizeof` of
its Go mirror, reads each field at a fixed offset, and converts the struct.

| Definition | Code |
|---|---|
| `ConnMembers`, `HttpMembers` | the Go `ConnEvent` / `HttpEvent`, member for member the C structs |
| `ConnPacked`, `HttpPacked` | the packing of the two C structs in `common.h` |
| `Offsets`, `SizeOf` | C and Go layout rules on x86-64: each member at its alignment, the size rounded to the largest, unless packed |
| `Encode`, `EmitConn`, `EmitHttp` | the probe's `event = {}`, its member assignments and `bpf_perf_event_output(..., sizeof(event))` |
| `RawSample` | the kernel pads raw perf data so that data and its 4-byte size fill whole 8-byte words; `perf.Reader` returns data and padding |
| `ConnExpectedSize`, `ConnDecode`, `ReadConn` | `readConnEvents`: the size check and the `binary.LittleEndian` reads at offsets 0..48 |
| `HttpExpectedSize`, `HttpDecode`, `ReadHttp` | `readHTTPEvents`: the same, status at 21, latency at 23, path from 31 |
| `ConnEventToModel`, `HttpEventToModel`, `IntToIPv4`, `HttpMethods`, `PathOf` | the conversions: the dotted quad from the u32's bytes, "UDP" for protocol 17, the method table, the path up to its first NUL |
| `ReadConnTest`, `TestLine` | `cmd/ebpf-test`'s read loop, run in place of the agent: the check against 49 bytes, and the fields it prints |

The variable `reader` records which program read the last sample: the agent
or the tool. The tool's duration is printed in milliseconds; the model keeps
the value.

Bytes are naturals and buffers sequences of them. `LE` and `ReadLE` encode
and decode one byte per step, so no power above 256 is computed and TLC's
integers do not overflow. `MCEventLayout` writes one record of each kind
the probes produce: a closed TCP connection, the `GET /a` request event of
`trace_tcp_sendmsg`, and the response event of `trace_tcp_recvmsg_exit`.
The response has method 0, a latency, and status 0, because neither probe
parses a status.

`EventLayoutDecode.cfg` checks `DecodedAsWritten`: the event the reader
sends is the record's own fields, converted. It is violated on the first
record TLC tries:

- **Connection records are never sent.** The packed `conn_event` is 52
  bytes. 52 + 4 is already a multiple of 8, so the raw sample is 52 bytes.
  The Go `ConnEvent` is 56 bytes (`BytesSent` is aligned to 24, the end
  rounded to 8). The check `len(raw) < expectedSize` (loader.go:301) skips
  every sample. `cmd/ebpf-test` checks `len(raw) < 49` instead and reads the
  same offsets, which do match the packed struct: under the tool the
  record is printed intact.
- **HTTP records are read at the wrong offsets.** The unpacked
  `http_event` is 168 bytes, and its raw sample 172. That passes the check
  against the Go size of 168. But the reader takes `status_code` from bytes
  21-22, `latency_ns` from 23-30 and the path from 31. The C struct has
  them at 22, 24 and 32. For the two records above:
  - the request arrives as GET with an empty path, because byte 31 is the
    top byte of the latency, which is 0;
  - the response's latency of 1000 ns arrives as 256000.

  Statuses are 0 either way.

Spec §4.1 and §6 say records follow the packed layouts and are rejected
only when shorter than the declared struct.

### HttpProbe, MCHttpProbe

`HttpProbe` models the three HTTP probes of `src/bpf/http_parser.c` on one
node, with the two maps they share: `reqStart` is `http_req_start` and
`activeRecv` is `active_recv`. `emitted` is the history of the records written
to `http_events`.

The environment is HTTP/1 traffic. On each connection the client sends a
request, the server receives it and sends a response, and the client
receives that. Each socket can be on this node or elsewhere (`ClientLocal`,
`ServerLocal`); the probes fire only for local sockets. A reader thread
enters `recvmsg` and blocks until its data arrives, so the entry and return
probes are separate steps with traffic in between.

Data is abstracted:

- An endpoint is the socket itself, and a tuple is `<<source, destination>>`.
- A timestamp is replaced by the request it stamps, `<<connection, exchange>>`.
- A payload is reduced to whether it starts with an HTTP method.

| Operator | Code |
|---|---|
| `OnSendmsg` | `trace_tcp_sendmsg`: return without a method; otherwise store the start under the socket's tuple (`BPF_ANY`) and emit the request event |
| `OnRecvEnter` | `trace_tcp_recvmsg_enter`: remember the swapped tuple for the thread |
| `OnRecvExit` | `trace_tcp_recvmsg_exit`: take the thread's tuple; with a start under it, emit the response event and delete the start |
| `ClientSend`, `RecvEnter`, `ServerRecv`, `ServerSend`, `ClientRecv` | the traffic, each calling the probe its syscall fires |

Bounds: one connection with both sockets on this node, and one exchange.
That is enough: the property fails on the first exchange.

## Runs

| Run | Cfg | Expect | What it shows |
|---|---|---|---|
| `exporter` | `Exporter.cfg` | pass | With a working stream, the exporter satisfies TypeOK, QueueBounded, NoEventVanishes, DropsAreOldest, ExporterStops and EventuallyShipped, and implements ExportQueue. Events reach the server in order, never twice, and only the oldest are dropped, even when a failed batch is spliced back into a queue that filled during the send. |
| `exporter_nil_stream` | `ExporterNilStream.cfg` | violation | **Finding.** In three steps (enqueue, dial, tick) an event leaves the queue and is neither delivered nor counted as dropped. The code discards every batch because `connect` never opens the stream (grpc.go:221, 293-298). |
| `aggregator` | `Aggregator.cfg` | pass | Observers interleaved with the flush swap count every call in exactly one window (`CountedOnce`). Estimates are monotone in the quantile and lie in the bucket of the true nearest-rank sample. Stop's final flush covers every recorded call. |
| `es_cross_writer` | `ESClientCrossWriter.cfg` | violation | **Finding.** w1 appends a document, the ticker takes it, and w1's call returns nil. The ticker's Bulk fails, and the acknowledged document is lost (part_006:829-835). This is against spec §7, "preserve data". Per-item rejections, which `flush` never inspects (part_006:839), are a second way to lose an acknowledged document; the cfg disables them so that the counterexample shows the cross-writer loss alone. |
| `ingestion` | `Ingestion.cfg` | pass | Between batches, the stream's ack equals the number of its events whose writes returned nil, whatever the aggregator's and the loop's flushes do (`AckMatchesStored`). Once Close begins, the aggregator has made its final flush and handed every event it observed to storage in a call_rate point, a failed WriteMetrics notwithstanding (`MetricsBeforeClose`). The bulk buffer under these writers, the ticker loop and Close: no document is sent twice or lost unseen (`DocsAccounted`), the buffer stays within `batchSize - 1 + writers` (`BufferBounded`), and Close leaves nothing pending (`CloseDrains`). |
| `ingestion_shutdown` | `IngestionShutdown.cfg` | violation | **Finding.** After the signal, an agent that never closes its stream keeps `GracefulStop` waiting (main.go:133). `aggregator.Stop` and `esClient.Close` never run, so their final flushes are lost. |
| `identity_cache` | `IdentityCache.cfg` | pass | With label changes and reused pod names, a delivered pod deletion is never undone (`DeletedGone`). The cache also converges (`Converges`): every IP maps to the pod holding it, and a pod some existing service selects maps to one such service. This holds across the stale read inside onPodAdd, an IP reused while its old pod terminates, any interleaving of the two informers, and a pod behind two services, one of which is deleted (its slice deletion clears the service until the other slice's resync). A pod no service selects is left out; it keeps a stale name (observations). |
| `dependency_graph` | `DependencyGraph.cfg` | pass | Every cycle's links count exactly the events its own two reads returned, with errors and no self-edge, though ingestion stores between and during the reads and reads and writes fail (`LinksMatchReads`). Stop makes run return (`StopReturns`). |
| `loader` | `Loader.cfg` | pass | Every converted record is still held by its reader, in `l.events`, or enqueued. The only exception is a record a reader gave up after the cancellation (`ConvertedAccounted`). This holds when a reader blocks on the full channel. After the signal the agent exits, or has already crashed on the panic below (`AgentStops`). |
| `loader_send_on_closed` | `LoaderSendOnClosed.cfg` | violation | **Finding.** A reader reads and converts a record. As the code stands, only the HTTP reader gets that far, because every conn sample fails the size check (`event_layout_decode`). Then the signal cancels the context; Start's Close closes the perf readers and `l.events` (loader.go:269) without waiting for the readers. The reader's select has both arms ready and takes the send (loader.go:323): a send on a closed channel panics. Spec §4.1 says the loops stop and the channel is closed last. |
| `event_layout_decode` | `EventLayoutDecode.cfg` | violation | **Finding.** The packed 52-byte `conn_event` arrives as a 52-byte sample and is skipped by the check against `unsafe.Sizeof(ConnEvent{})` = 56 (loader.go:276, 301). No connection event ever leaves the agent. `http_event` is not packed: its samples pass the check but are read at packed offsets (loader.go:372-374). Every path arrives empty and every latency multiplied by 256. |
| `http_probe_join` | `HttpProbeJoin.cfg` | violation | **Finding.** The request's start is stored under (local, remote) of the sending socket. The receive side looks it up under (remote, local) (http_parser.c:189). The server's receipt of the request consumes the start and emits the only "response" event, which times transit rather than latency. The client's receipt of the response finds nothing. Spec §4.1 promises request/response correlation; §11 leaves the join key open. |

## Plan

Done in this order, each with its own MC module and cfgs: ExportQueue and
Exporter; Histogram and Aggregator; ESClient and Ingestion; IdentityCache;
DependencyGraph; Loader; HttpProbe; the Loader's passing run; Start's
per-object loop; EventLayout, the loader's decoding of the probes' records.
Then the aggregator's flush as a writer in Ingestion, with main's stop order.
Next, in this order:

1. **ConnTracker** (`src/bpf/connection_tracker.c`): the `connections`
   and `retransmit_count` maps across socket state changes, failed connects,
   retransmits and a full map. It should check an entry per live socket, one
   event per closed connection, and retransmits counted only for their own
   connection.
2. **Agent main** (`part_003`): which errors cancel the root context, and
   the order in which the loader, cache and exporter stop.
3. **DependencyGraph:** the spec's bound on the total read (§4.6 step 1),
   and what readers see when a cycle writes nothing.
4. **IdentityCache:** a refinement to an abstract identity map, and a run
   for `ConvergesToSpec` when a slot frees up.

## Observations not checked by a run

- **A service name left behind by a pod that left every service**
  (cache.go:198-210, 232-238). `podToServices` is written only for pods a
  slice lists. p1 is in s1's slice; its labels change so that no service
  selects it. s1's slice update no longer lists p1, so
  `podToServices[p1]` keeps s1, and every later `onPodAdd` of p1,
  resyncs included, labels it with s1 forever. The same happens to a
  StatefulSet pod whose name comes back after its service was deleted
  with a slice that no longer listed it. Spec-level convergence
  (`ConvergesToSpec`) fails. `IdentityCacheNameReuse.cfg` reproduces it
  under `MCIdentityCache`. It is not among the runs, which are all taken;
  the pass run checks the convergence the code does reach.

- **P99 rounding** (part_004:304). `computeP99` takes the index
  `int(0.99·n + 0.5) - 1`. Spec §4.6 step 4 and the code's own comment
  (part_004:303) give `⌈0.99·n⌉ - 1`. For n = 51 the code takes index
  `int(50.49 + 0.5) - 1 = 49`, the 50th sample, where the spec takes
  `⌈50.49⌉ - 1 = 50`, the 51st. The two disagree for n = 51..99, 151..199
  and so on; scenario E (n = 100) does not show it. This is arithmetic
  alone, so no run checks it.
- **Links left attached after a failed Start** (loader.go:153-155). When
  no perf reader opens, Start returns an error, but by then it may have
  created collections and attached links (`LoadObject`, then `LoadFail`).
  Only `Close` releases them, and Start does not call it. main only logs
  the loader's error and keeps running (part_003), so the programs stay
  attached, with nothing reading their perf buffers, until the process
  exits. In the model this is the state `lpc = "done"` with `links # {}`
  and `~perfClosed`, and it is reachable.
- **HTTP events counted twice.** `trace_tcp_recvmsg_exit` emits its
  latency event with method 0 (http_parser.c:221). `httpEventToModel` maps
  that to "UNKNOWN" (loader.go:413-416), so it reaches the server as a
  second `HTTPRequestEvent`. `ObserveHTTPRequest` counts every event as a
  call (aggregator.go:137). An exchange that is joined at all is therefore
  counted twice, once with latency 0 and path, once with latency and no
  path.

- **Requeue after a failed send** (grpc.go:306-308). When `Enqueue` fills
  the queue while a batch is in flight and the send fails, the requeue
  keeps the last `queueLimit` events of batch + queue, so the failed batch
  itself is dropped: with queue [1, 2], batch [1, 2] taken, 3 enqueued and
  the send failing, the queue becomes [2, 3]. That is spec §3 and §8.2
  ("drop oldest"); §4.3 step 4 says the batch goes back and the newest are
  cut. `DropsAreOldest` checks the code's policy.
- **Retransmit probe offset** (connection_tracker.c:117).
  `trace_tcp_retransmit` reads the socket pointer at `ctx + 8`. In the
  `tcp_retransmit_skb` tracepoint that field is `skbaddr`; `skaddr` is at 16.
  This is a record-layout error, outside what a model checks.
- **Stale retransmit counts** (connection_tracker.c:102).
  `retransmit_count` is cleared only by a `TCP_CLOSE` that finds a
  `connections` entry. A connect that retransmits its SYN and then fails
  leaves its count behind, for the next connection on the same tuple.
  ConnTracker is planned to check this.
- **Fields never filled.** `bytes_sent` and `bytes_recv` are always 0
  (connection_tracker.c:59-60). `status_code` is always 0
  (http_parser.c:149, 226), so every HTTP error rate is 0.

## Not modelled

| Part | Why |
|---|---|
| The React UI, `event.go` | Rendering, data types. |
| `ebpf-test` setup and printing | Sequential calls that exit on the first error; formatting. Its read loop is in EventLayout. |
| The API handlers | Stateless queries. |
| Conversions to and from proto | Field-by-field copies that no property distinguishes. |
| Log lines | Layout only. |
| Real time | Only the order of timer events matters to the properties. |
| `resolveWorkload`, `stripReplicaSetHash` | Functions of the pod object alone; no property reads the workload fields. |
| `GetCurrentLinks` | Nothing calls it. |
| HTTP path and status parsing | The path is copied bytes; the status is never parsed (always 0). |
| `dns_tracker.c` | Attached by the loader (loader.go:85-86), but no perf reader is opened for its events. |
| The dependency computer's time window | The store is bounded, so every event is in the window. |
| The agent main's cancel paths (`cmd/nefi-agent/main.go` 98-123) | A k8s-cache or exporter failure calls `cancel`; a loader failure does not. But `Cache.Start` and `Exporter.Start` return only after `ctx` is done, so those branches never run while the agent is up. The agent's composition, loader to cache to exporter, is a chain of queues already modelled per component. |

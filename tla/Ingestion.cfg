\* One agent stream of one batch, one connection and one request at most,
\* and the aggregator's flushLoop as the second writer; a bulk size of two,
\* so one writer's append can flush the other's documents; one Bulk failure
\* or item rejection; the aggregator's final flush, then Close.  Every
\* window here has latency samples, so flush makes all four WriteMetrics
\* calls, latency first.
SPECIFICATION IngSpec
CONSTANTS
    Writers = {a1, agg}
    AggWriter = agg
    LatencyCases = {TRUE}
    Loop = Loop
    Closer = Closer
    BatchSize = 2
    MaxDocs = 10
    MaxCallDocs = 1
    MaxBulkFailures = 1
    ItemErrors = TRUE
    MaxBatches = 1
    MaxKind = 1
INVARIANT AckMatchesStored
INVARIANT DocsAccounted
INVARIANT BufferBounded
INVARIANT MetricsBeforeClose
PROPERTY CloseDrains

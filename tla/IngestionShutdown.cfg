\* Shutdown with agents that keep their streams open: nothing but the
\* agent ends a stream, so GracefulStop waits for it.
SPECIFICATION IngSpec
CONSTANTS
    Writers = {a1, agg}
    AggWriter = agg
    LatencyCases = {TRUE, FALSE}
    Loop = Loop
    Closer = Closer
    BatchSize = 2
    MaxDocs = 10
    MaxCallDocs = 1
    MaxBulkFailures = 1
    ItemErrors = TRUE
    MaxBatches = 1
    MaxKind = 1
PROPERTY ServerShutsDown

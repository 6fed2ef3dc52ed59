\* Export client with a working stream: send failures, requeue, reconnect,
\* backoff and cancellation, all interleaved with the producer.
CONSTANTS
    QueueLimit = 3
    BatchSize = 2
    InitialBackoff = 1
    MaxBackoff = 4
    OpensStream = TRUE
    MaxEvents = 5
    MaxFailures = 3
SPECIFICATION Spec
INVARIANT TypeOK
INVARIANT QueueBounded
INVARIANT NoEventVanishes
INVARIANT DropsAreOldest
PROPERTY ExporterStops
PROPERTY EventuallyShipped
PROPERTY ImplementsExportQueue

\* The export client as written: connect() leaves stream = nil.
CONSTANTS
    QueueLimit = 3
    BatchSize = 2
    InitialBackoff = 1
    MaxBackoff = 4
    OpensStream = FALSE
    MaxEvents = 3
    MaxFailures = 1
SPECIFICATION Spec
INVARIANT NoEventVanishes

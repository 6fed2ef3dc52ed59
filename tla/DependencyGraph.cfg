\* Dependency computer: ingestion storing events during compute cycles,
\* failing reads and writes, a read limit below the number stored, Stop.
CONSTANTS
    a = a
    b = b
    NoService = NoService
    Services = {a, b}
    Events <- MCEvents
    InitialStore <- MCEmptyStore
    Limit = 2
    MaxStores = 3
SPECIFICATION Spec
INVARIANT TypeOK
INVARIANT LinksMatchReads
PROPERTY StopReturns

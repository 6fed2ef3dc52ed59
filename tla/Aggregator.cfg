\* Observers interleaved with the flush loop, two services, up to three
\* events; latencies on a boundary (1, 10), inside a bucket (3) and in the
\* overflow bucket (30000), and 0 (no sample).
SPECIFICATION Spec
CONSTANTS
    Boundaries <- MCBoundaries
    Services = {s1, s2}
    NoService = NoService
    Latencies = {0, 1, 3, 10, 30000}
    MaxObs = 3
INVARIANT TypeOK
INVARIANT CountedOnce
INVARIANT PercentileMonotone
INVARIANT PercentileInRankBucket
PROPERTY StopFlushesAll

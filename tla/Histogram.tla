------------------------------ MODULE Histogram ------------------------------
(***************************************************************************)
(* The latency histogram of the metrics aggregator                        *)
(* (src/internal/server/metrics/aggregator.go) as pure operators:         *)
(* bucket insertion (observeLatency), the bucket total                    *)
(* (totalHistogramCount) and the interpolated percentile estimate         *)
(* (histogramPercentile).                                                  *)
(*                                                                         *)
(* Latencies are in milliseconds (the code's nanosecond boundaries divided *)
(* by 1e6, all integers).  The quantiles the code asks for are 0.50, 0.95  *)
(* and 0.99; they are written as percentages q, so target = q*total/100    *)
(* is exact.  For these three quantiles float64 q*total never rounds above *)
(* an integer target, so comparing cumulative counts with the exact target *)
(* makes the same choice of bucket as the code.  Estimates are exact       *)
(* fractions [num, den].                                                   *)
(***************************************************************************)
EXTENDS Naturals, Sequences, SequencesExt, Functions, FiniteSets

CONSTANT Boundaries   \* defaultBucketBoundaries, ascending, in ms

ASSUME /\ Boundaries \in Seq(Nat \ {0})
       /\ Len(Boundaries) > 0
       /\ IsSorted(Boundaries, <)

NB == Len(Boundaries)            \* len(a.buckets)
Bucket == 0..NB                  \* indices of latencyCounts; NB is +Inf
Boundary(i) == Boundaries[i + 1] \* a.buckets[i], 0-based as in the code
EmptyCounts == [i \in Bucket |-> 0]

Frac(n, d) == [num |-> n, den |-> d]
FracLe(a, b) == a.num * b.den <= b.num * a.den
Whole(n) == Frac(n, 1)

-----------------------------------------------------------------------------
(* Plausible faults in the operators below.                                *)

BucketOfStrict(x) == Min({i \in 0..NB - 1 : x < Boundary(i)} \cup {NB})
UpperBoundNoOverflow(i) == IF i < NB THEN Boundary(i) ELSE 0

-----------------------------------------------------------------------------

\* observeLatency: the first boundary with latency <= boundary, else +Inf.
BucketOf(x) == Min({i \in 0..NB - 1 : x <= Boundary(i)} \cup {NB})

ObserveLatency(counts, x) == [counts EXCEPT ![BucketOf(x)] = @ + 1]

\* totalHistogramCount
TotalCount(counts) == SumFunction(counts)

\* cumulative after adding counts[i] in histogramPercentile's loop
Cumulative(counts, i) == SumFunctionOnSet(counts, 0..i)

\* lower: 0 for bucket 0, else the previous boundary
LowerBound(i) == IF i = 0 THEN 0 ELSE Boundary(i - 1)

\* upper: its own boundary, or 2x the last boundary for +Inf
UpperBound(i) == IF i < NB THEN Boundary(i) ELSE 2 * Boundary(NB - 1)

\* histogramPercentile(buckets, counts, total, q/100): the first bucket
\* whose cumulative count reaches the target, interpolated linearly; the
\* fall-through after the loop returns the last boundary.
HistogramPercentile(counts, total, q) ==
    LET hit == {i \in Bucket : 100 * Cumulative(counts, i) >= q * total}
    IN  IF hit = {}
        THEN Whole(Boundary(NB - 1))
        ELSE LET i     == Min(hit)
                 count == counts[i]
                 prev  == Cumulative(counts, i) - count
             IN  IF count = 0
                 THEN Whole(LowerBound(i))
                 ELSE Frac(100 * count * LowerBound(i)
                             + (q * total - 100 * prev)
                               * (UpperBound(i) - LowerBound(i)),
                           100 * count)

-----------------------------------------------------------------------------
(* Reference definitions, independent of the bucket index arithmetic.      *)

\* The nearest-rank q-th percentile of the samples: the ceil(q*n/100)-th
\* smallest.
NearestRank(s, q) ==
    LET k == (q * Len(s) + 99) \div 100
    IN  CHOOSE v \in ToSet(s) :
            /\ Cardinality({j \in DOMAIN s : s[j] < v}) < k
            /\ k <= Cardinality({j \in DOMAIN s : s[j] <= v})

\* The boundaries enclosing a value: the greatest one below it (or 0) and
\* the least one at or above it (or twice the last one).
EnclosingLow(v) == Max({0} \cup {b \in ToSet(Boundaries) : b < v})
EnclosingHigh(v) ==
    IF v <= Boundaries[NB] THEN Min({b \in ToSet(Boundaries) : b >= v})
                           ELSE 2 * Boundaries[NB]

\* The histogram a sequence of samples produces, observed in order.
CountsOf(s) == FoldLeft(ObserveLatency, EmptyCounts, s)

=============================================================================

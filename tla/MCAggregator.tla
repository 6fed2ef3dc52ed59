---------------------------- MODULE MCAggregator ----------------------------
(* Model-checking instance of Aggregator: the code's twelve boundaries, in *)
(* milliseconds.                                                            *)
EXTENDS Aggregator

\* defaultBucketBoundaries / 1e6
MCBoundaries == <<1, 5, 10, 25, 50, 100, 250, 500, 1000, 2500, 5000, 10000>>

=============================================================================

---------------------------- MODULE MCIngestion ----------------------------
(* Model-checking instance of Ingestion: two agent streams whose handlers  *)
(* share the Elasticsearch bulk buffer with the ticker loop and Close.      *)
EXTENDS Ingestion, TLC

StreamSymmetry == Permutations(Streams)

=============================================================================

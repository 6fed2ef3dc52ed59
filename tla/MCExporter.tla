----------------------------- MODULE MCExporter -----------------------------
(* Model-checking harness for Exporter: the constants are given in the    *)
(* .cfg files; the two views below keep the state space small.             *)
EXTENDS Exporter, TLC

\* Event ids are compared with < and record enqueue order, so they are not
\* symmetric; nothing else is a set of interchangeable values.
=============================================================================

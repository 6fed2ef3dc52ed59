-------------------------- MODULE MCDependencyGraph --------------------------
(* Instances of the dependency computer for TLC: a, b are services.       *)
EXTENDS DependencyGraph

CONSTANTS a, b

Ev(k, s, d, l, e) == [kind |-> k, src |-> s, dst |-> d, lat |-> l, err |-> e]

\* Events the ingestion path stores while the computer runs: an edge with
\* a failed and a fast request and a connection, its reverse edge without
\* latency, a self-call and a connection with an unresolved source.
MCEvents ==
    { Ev("r", a, b, 1, TRUE), Ev("r", a, b, 2, FALSE), Ev("c", a, b, 3, FALSE),
      Ev("r", b, a, 0, FALSE), Ev("r", a, a, 1, FALSE),
      Ev("c", NoService, b, 1, FALSE) }

MCEmptyStore == <<>>

====

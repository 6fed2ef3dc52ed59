----------------------------- MODULE MCESClient -----------------------------
(* Model-checking instance of ESClient: two writers sharing the buffer     *)
(* with the ticker loop and Close.                                          *)
EXTENDS ESClient, TLC

\* Writers are interchangeable; used only by the safety-only run.
WriterSymmetry == Permutations(Writers)

=============================================================================

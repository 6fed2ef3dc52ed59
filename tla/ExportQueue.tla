----------------------------- MODULE ExportQueue -----------------------------
(***************************************************************************)
(* What the agent's export path promises, stated without batches, locks,  *)
(* streams or reconnects: events join a pending sequence at its tail in    *)
(* the order they are enqueued, and leave it either by being shipped to   *)
(* the collector (a prefix of pending, appended to shipped in order) or   *)
(* by being dropped (any of them, order of the rest preserved).  Nothing  *)
(* is shipped twice and nothing is shipped out of order.                   *)
(*                                                                         *)
(* Events are identified by the order they were created in (Ids is a set  *)
(* of naturals), which is how the detailed module numbers them.            *)
(***************************************************************************)
EXTENDS Naturals, Sequences, SequencesExt

CONSTANT Ids

VARIABLES pending, shipped

vars == <<pending, shipped>>

\* Every id seen so far is smaller than e: e is a fresh, later event.
Fresh(e) == \A x \in ToSet(pending) \cup ToSet(shipped) : x < e

\* pending with only the elements in keep left, order preserved.
Keep(s, keep) == SelectSeq(s, LAMBDA x : x \in keep)

Init ==
    /\ pending = <<>>
    /\ shipped = <<>>

\* A new event is appended; some pending events may be evicted with it.
Put(e) ==
    /\ Fresh(e)
    /\ \E keep \in SUBSET ToSet(pending) :
          pending' = Append(Keep(pending, keep), e)
    /\ UNCHANGED shipped

\* The first k pending events reach the collector, in order.
Ship(k) ==
    /\ k \in 1..Len(pending)
    /\ shipped' = shipped \o SubSeq(pending, 1, k)
    /\ pending' = SubSeq(pending, k + 1, Len(pending))

\* Some pending events are lost; the others keep their order.
Drop ==
    /\ \E keep \in SUBSET ToSet(pending) :
          /\ keep # ToSet(pending)
          /\ pending' = Keep(pending, keep)
    /\ UNCHANGED shipped

Next ==
    \/ \E e \in Ids : Put(e)
    \/ \E k \in 1..Len(pending) : Ship(k)
    \/ Drop

Spec == Init /\ [][Next]_vars

\* Shipped events followed by pending ones are in creation order, without
\* repetition.
InOrder == IsSorted(shipped \o pending, <)

=============================================================================

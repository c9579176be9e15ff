------------------------------- MODULE Vectors --------------------------------
(***************************************************************************)
(* std::erase_if on a vector, by positions: what stays keeps its order and *)
(* moves down onto the places that those which go leave.  (SelectSeq says  *)
(* the same by recursion.)                                                 *)
(***************************************************************************)
EXTENDS Naturals, Sequences, FiniteSets

\* The place the k-th entry has among those that stay, and the entry of a place.
Place(stay, k) == Cardinality({j \in stay : j <= k})
AtPlace(stay, i) == CHOOSE k \in stay : Place(stay, k) = i

Stay(s, gone) == DOMAIN s \ gone
Erased(s, gone) ==
  [i \in 1..Cardinality(Stay(s, gone)) |-> s[AtPlace(Stay(s, gone), i)]]
=============================================================================

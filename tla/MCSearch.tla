------------------------------ MODULE MCSearch ------------------------------
(* Search with the symmetry of its ids and of its readers, for TLC, and a  *)
(* bound on the inserts of all ids together.                               *)
EXTENDS Search, TLC, FiniteSetsExt

Symmetry == Permutations(Ids) \cup Permutations(Readers)

InsertsInAll == MapThenSumSet(LAMBDA id : inserted[id], Ids) <= 3
=============================================================================

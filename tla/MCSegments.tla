----------------------------- MODULE MCSegments -----------------------------
(* Segments with the symmetry of its ids and of its thread names, for TLC. *)
EXTENDS Segments, TLC, FiniteSetsExt

Symmetry ==
    Permutations(Ids) \cup Permutations(SealThreads) \cup Permutations(MergeThreads)

InsertsInAll == MapThenSumSet(LAMBDA id : inserted[id], Ids) <= 3
=============================================================================

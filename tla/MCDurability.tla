---------------------------- MODULE MCDurability ----------------------------
(* Durability with the symmetry of its ids, for TLC, and bounds on what    *)
(* all ids together do and on the crashes and faults.                      *)
EXTENDS Durability, TLC, FiniteSetsExt

Symmetry == Permutations(Ids)

AllPolicies == {<<"none", 2>>, <<"group", 2>>, <<"per_op", 1>>}

GroupCommit == {<<"group", 2>>}

FewWrites ==
    /\ MapThenSumSet(LAMBDA id : inserted[id], Ids) <= 3
    /\ Len(Log.recs) <= 4

OneInterruption == FewWrites /\ crashes + faults <= 1

TwoInterruptions == FewWrites /\ crashes + faults <= 2
=============================================================================

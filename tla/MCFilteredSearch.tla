-------------------------- MODULE MCFilteredSearch --------------------------
(* Two versions of each record: a tag alone, then another tag and a price. *)
EXTENDS FilteredSearch, TLC, FiniteSetsExt

Symmetry == Permutations(Ids)

(* Keys 1 (tag) and 2 (price). *)
Tags == {<<1, 1>>, <<1, 2>>}
Prices == {<<2, 5>>}
Versions == [r \in Record |-> IF r[2] = 1 THEN {<<1, 1>>, <<2, 5>>} ELSE {<<1, 2>>}]

Price == [key |-> 2, lo |-> 4, hi |-> 6]
Only(tag) == [eqs |-> {<<1, tag>>}, ranges |-> {}]
Three == { Only(1), [eqs |-> {<<1, 1>>}, ranges |-> {Price}], [eqs |-> {}, ranges |-> {Price}] }

InsertsInAll == MapThenSumSet(LAMBDA id : inserted[id], Ids) <= 3
=============================================================================

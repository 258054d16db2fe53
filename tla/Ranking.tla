------------------------------ MODULE Ranking ------------------------------
(***************************************************************************)
(* How vectors and candidates are compared.  A vector is a point of a line *)
(* and a candidate is a pair <<distance, key>>, the key being an id        *)
(* (SearchResult) or a slot (Cand): both types order by distance and break *)
(* ties by the key, so that every sort and every heap is deterministic.    *)
(***************************************************************************)
EXTENDS Integers, FiniteSets

CONSTANTS
    Ids,        \* record ids, ordered as numbers
    Points      \* vectors

ASSUME RankingAssumption == Ids \subseteq Int /\ Points \subseteq Int

(* The squared Euclidean distance of Metric::L2. *)
Distance(a, b) == (a - b) * (a - b)

Before(x, y) == x[1] < y[1] \/ (x[1] = y[1] /\ x[2] < y[2])

Nearest(cands) == CHOOSE x \in cands : \A y \in cands \ {x} : Before(x, y)
Farthest(cands) == CHOOSE x \in cands : \A y \in cands \ {x} : Before(y, x)

(* sort and truncate(k), as a set: the k candidates before all others. *)
TopK(cands, k) == { x \in cands : Cardinality({ y \in cands : Before(y, x) }) < k }
=============================================================================

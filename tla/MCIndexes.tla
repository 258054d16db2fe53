----------------------------- MODULE MCIndexes -----------------------------
(* Indexes for TLC: which vectors and fields the records have. *)
EXTENDS Indexes

(* Two records that coincide or not, one between and one far from them. *)
FewVectors == [id \in Ids |-> CASE id = 1 -> {0} [] id = 2 -> {1} [] id = 3 -> {3} [] OTHER -> {0, 1}]

(* The numeric fields of the points: -0.0, 0.0 and 1.0. *)
SignedZeros == [v \in Points |-> CASE v = 0 -> -1 [] v = 1 -> 0 [] OTHER -> Unit]

(* End points at, between, below and above those values. *)
EndPoints == {-801, -1, 0, 400, 800, 1600}
=============================================================================

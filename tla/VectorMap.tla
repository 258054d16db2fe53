----------------------------- MODULE VectorMap -----------------------------
(***************************************************************************)
(* What the VectorIndex trait promises of its mutating operations: an      *)
(* index is a map from ids to vectors.  An insert adds an absent id and a  *)
(* delete removes a present one; any other call is refused and changes     *)
(* nothing.                                                                *)
(***************************************************************************)
CONSTANTS Ids, Points

VARIABLE content    \* id -> vector, for the ids of the index

MapPresent == DOMAIN content

MapInit == content = [id \in {} |-> id]

MapInsert(id, v) ==
    /\ id \notin MapPresent
    /\ content' = [x \in MapPresent \cup {id} |-> IF x = id THEN v ELSE content[x]]

MapDelete(id) ==
    /\ id \in MapPresent
    /\ content' = [x \in MapPresent \ {id} |-> content[x]]

MapNext == \E id \in Ids : MapDelete(id) \/ \E v \in Points : MapInsert(id, v)

MapSpec == MapInit /\ [][MapNext]_content
=============================================================================

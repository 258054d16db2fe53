------------------------------- MODULE Store -------------------------------
(***************************************************************************)
(* What the segmented index promises its callers, whatever buffers,        *)
(* sealing queues, segments and background merges it uses inside: a map    *)
(* from ids to vectors that changes only when an insert of an absent id or *)
(* a delete of a present id takes effect.                                  *)
(***************************************************************************)
CONSTANTS
    Ids,        \* record ids
    Vectors     \* what an insert can store under an id

VARIABLE
    content     \* the set of live <<id, vector>> pairs

IdsOf(R) == { r[1] : r \in R }

Init == content = {}

(* insert_with_meta that answers Ok. *)
Insert(id, v) ==
    /\ id \notin IdsOf(content)
    /\ content' = content \cup {<<id, v>>}

(* delete_shared that answers Ok. *)
Delete(id) ==
    \E v \in Vectors :
        /\ <<id, v>> \in content
        /\ content' = content \ {<<id, v>>}

Next ==
    \E id \in Ids :
        \/ \E v \in Vectors : Insert(id, v)
        \/ Delete(id)

Spec == Init /\ [][Next]_content
=============================================================================

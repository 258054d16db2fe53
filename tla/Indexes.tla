------------------------------ MODULE Indexes ------------------------------
(***************************************************************************)
(* The in-memory structures under the segmented index, driven side by side *)
(* by the same inserts and deletes: the linear-scan index is the reference *)
(* the HNSW index is compared with, the frozen quantised copy is taken of  *)
(* the HNSW index at every moment, and the numeric index holds one field   *)
(* of every record.                                                        *)
(***************************************************************************)
EXTENDS BruteForce, NumericIndex, Quantized

CONSTANTS
    MaxSlots,       \* bound: slots the HNSW index may reach between compactions
    VectorsOf,      \* bound: id -> the vectors it is inserted with
    FieldOf         \* point -> key of the record's numeric field

ASSUME IndexesAssumption ==
    MaxSlots \in Nat /\ VectorsOf \in [Ids -> SUBSET Points] /\ FieldOf \in [Points -> Int]

indexVars == <<bfVars, hnsw, numericVars>>

Init == BFInit /\ HnswInit /\ NumericInit

(* An insert, refused by both indexes or by neither. *)
Insert(id, v) ==
    /\ Len(hnsw.ids) < MaxSlots
    /\ BFInsert(id, v)
    /\ HnswInsert(id, v)
    /\ IF id \in DOMAIN slot_of THEN UNCHANGED numericVars ELSE NumericInsert(FieldOf[v], id)

Delete(id) ==
    /\ BFDelete(id)
    /\ HnswDelete(id)
    /\ IF id \in DOMAIN slot_of THEN NumericRemove(FieldOf[Entries[id]], id) ELSE UNCHANGED numericVars

Next == \E id \in Ids : Delete(id) \/ \E v \in VectorsOf[id] : Insert(id, v)
Spec == Init /\ [][Next]_indexVars

-----------------------------------------------------------------------------
Ks == {1, 3}
Efs == {1, 2}
IsAnswer(answer, ranked, k) ==
    /\ Range(answer) \subseteq ranked /\ Len(answer) <= k
    /\ \A i, j \in DOMAIN answer : i < j => answer[i][1] <= answer[j][1] /\ answer[i] # answer[j]

Ranked(q, S) == { <<Distance(q, Entries[id]), id>> : id \in S }
Present == DOMAIN slot_of

(* The graph stays sound through inserts, prunings, tombstones and         *)
(* compactions: every list keeps the limit of its layer, m_max0 on the     *)
(* base layer and m above, names no node twice nor its owner, and only     *)
(* nodes that have the level, so that its level lists are never indexed    *)
(* out of range by a traversal.                                            *)
GraphWellFormed ==
    \A s \in Slots(hnsw) : \A l \in 1..Level(hnsw, s) :
        LET list == hnsw.links[s][l]
        IN  /\ Len(list) <= IF l = 1 THEN MMax0 ELSE M
            /\ Cardinality(Range(list)) = Len(list)
            /\ \A nb \in Range(list) : nb # s /\ l <= Level(hnsw, nb)

(* The entry point is a live node of the highest live level, and is        *)
(* missing only when nothing is alive.                                     *)
EntryTallest ==
    IF hnsw.entry = NoEntry THEN LiveSlots(hnsw) = {}
    ELSE /\ hnsw.entry \in LiveSlots(hnsw)
         /\ \A s \in LiveSlots(hnsw) : Level(hnsw, s) <= Level(hnsw, hnsw.entry)

(* Both indexes hold the same records, whatever slots they are in. *)
HnswAgrees ==
    /\ DOMAIN hnsw.slot_of = Present
    /\ \A id \in Present : hnsw.data[hnsw.slot_of[id]] = Entries[id]
    /\ Range(hnsw.slot_of) = LiveSlots(hnsw)
    /\ hnsw.deleted_count = Len(hnsw.ids) - Cardinality(LiveSlots(hnsw))

(* The descent of a search cannot end on a tombstone: there is none, or    *)
(* there is no layer to descend from the entry point.                      *)
DescentEndsAlive == hnsw.deleted_count = 0 \/ Level(hnsw, hnsw.entry) = 1

(* An unfiltered answer is a selection of the present records in order of  *)
(* distance, through tombstones and compactions.  It may leave records     *)
(* out: those no link leads to after a pruning and, where the descent ends *)
(* in a cluster of tombstones, all of them.  Where it cannot end on a      *)
(* tombstone, the answer is empty only if the index is.                    *)
HnswSearchSound ==
    \A q \in Points, k \in Ks, ef \in Efs :
        LET answer == HnswSearch(hnsw, q, k, ef)
        IN  /\ IsAnswer(answer, Ranked(q, Present), k)
            /\ Present # {} /\ DescentEndsAlive => answer # <<>>


(* A filtered search without a budget finds k matches or all of them,      *)
(* however selective the filter: the fallback makes up for the graph.  A   *)
(* spent budget may cost results but never admits a record that does not   *)
(* match.                                                                  *)
FilteredComplete ==
    \A q \in Points, k \in Ks, allowed \in SUBSET Ids, budget \in {1, NoBudget} :
        LET answer == HnswSearchFiltered(hnsw, q, k, 1, allowed, budget)
            matches == Cardinality(allowed \cap Present)
        IN  /\ IsAnswer(answer, Ranked(q, allowed \cap Present), k)
            /\ budget = NoBudget => Len(answer) = IF matches < k THEN matches ELSE k

(* Whatever state an index is saved in, its file passes the checks of      *)
(* rebuild and restores that state.                                        *)
LoadRestores == Accepted(Body(hnsw)) /\ Rebuilt(Body(hnsw)) = hnsw

(* The frozen twin answers live records in order and, where the codes lose *)
(* nothing and there are no tombstones, exactly what the HNSW index does.  *)
QuantizedTwin ==
    LET z == Frozen(hnsw)
        Scaled(answer) == [i \in DOMAIN answer |-> <<answer[i][1] * CodeMax * CodeMax, answer[i][2]>>]
    IN  \A q \in Points, k \in Ks, ef \in Efs :
            LET answer == FrozenSearch(z, q, k, ef)
            IN  /\ { answer[i][2] : i \in DOMAIN answer } \subseteq Present
                /\ hnsw.deleted_count = 0 => answer = Scaled(HnswSearch(hnsw, q, k, ef))
=============================================================================

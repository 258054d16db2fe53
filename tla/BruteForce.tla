----------------------------- MODULE BruteForce -----------------------------
(***************************************************************************)
(* The linear-scan index: the write buffer of the segmented index, and the *)
(* reference every other index of the repository is compared with.         *)
(* Vectors lie in slots without gaps; a delete moves the last vector into  *)
(* the hole.  Slots count from 1.                                          *)
(***************************************************************************)
EXTENDS Ranking, Sequences

CONSTANTS
    ParallelThreshold,  \* PARALLEL_THRESHOLD
    Threads             \* rayon::current_num_threads()

ASSUME BruteForceAssumption == ParallelThreshold \in Nat /\ Threads \in Nat \ {0}

VARIABLES
    ids,        \* slot -> id
    data,       \* slot -> vector
    slot_of     \* id -> slot

bfVars == <<ids, data, slot_of>>

BFInit ==
    /\ ids = <<>> /\ data = <<>>
    /\ slot_of = [id \in {} |-> 1]

BFInsert(id, v) ==
    IF id \in DOMAIN slot_of
      THEN UNCHANGED bfVars                                \* DuplicateId
      ELSE /\ ids' = Append(ids, id)
           /\ data' = Append(data, v)
           /\ slot_of' = [x \in DOMAIN slot_of \cup {id} |->
                            IF x = id THEN Len(ids) + 1 ELSE slot_of[x]]

(* Mutant: the moved id keeps its old slot number. *)
MovedIdForgotten(id, slot, last) == [x \in DOMAIN slot_of \ {id} |-> slot_of[x]]

(* The id map once `id` is removed and the id of the last slot has moved. *)
MovedSlotOf(id, slot, last) ==
    LET kept == DOMAIN slot_of \ {id}
        moved == IF slot # last THEN {ids[last]} ELSE {}
    IN  [x \in kept \cup moved |-> IF x \in moved THEN slot ELSE slot_of[x]]

(* Mutant: the hole is closed by shifting, not by moving the last vector. *)
Shifted(s, slot, last) == [i \in 1..(last - 1) |-> IF i < slot THEN s[i] ELSE s[i + 1]]

(* Swap-remove: the last element takes the place of the removed one. *)
SwapRemoved(s, slot, last) == [i \in 1..(last - 1) |-> IF i = slot THEN s[last] ELSE s[i]]

BFDelete(id) ==
    IF id \in DOMAIN slot_of
      THEN LET slot == slot_of[id]
               last == Len(ids)
           IN  /\ ids' = SwapRemoved(ids, slot, last)
               /\ data' = SwapRemoved(data, slot, last)
               /\ slot_of' = MovedSlotOf(id, slot, last)
      ELSE UNCHANGED bfVars                                \* NotFound

BFNext == \E id \in Ids : BFDelete(id) \/ \E v \in Points : BFInsert(id, v)
BFSpec == BFInit /\ [][BFNext]_bfVars

-----------------------------------------------------------------------------
(* entries(), as the map the index stands for. *)
Entries == [id \in DOMAIN slot_of |-> data[slot_of[id]]]

Candidate(q, slot) == <<Distance(q, data[slot]), ids[slot]>>

(* One candidate offered to a bounded max-heap. *)
Offer(heap, k, cand) ==
    IF Cardinality(heap) < k THEN heap \cup {cand}
    ELSE IF heap # {} /\ Before(cand, Farthest(heap))
           THEN (heap \ {Farthest(heap)}) \cup {cand}
           ELSE heap

(* scan_range over the slots from..to. *)
ScanRange(q, k, from, to) ==
    LET heapAt[s \in (from - 1)..to] ==
            IF s < from THEN {} ELSE Offer(heapAt[s - 1], k, Candidate(q, s))
    IN  heapAt[to]

(* The two heaps of neighbouring chunks merged, `b` drained nearest first. *)
Merged(a, b, k) ==
    LET mergedFrom[rest \in SUBSET b] ==
            IF rest = {} THEN a
            ELSE Offer(mergedFrom[rest \ {Farthest(rest)}], k, Farthest(rest))
    IN  mergedFrom[b]

(* Mutant: a chunk ends one slot early. *)
ShortChunkEnd(start, chunk, n) == IF start + chunk - 1 < n THEN start + chunk - 2 ELSE n

ChunkEnd(start, chunk, n) == IF start + chunk - 1 < n THEN start + chunk - 1 ELSE n

(* search: one scan, or one scan per chunk and a merge from left to right. *)
BFSearch(q, k) ==
    LET n == Len(ids)
        chunk == (n + Threads - 1) \div Threads
        upTo[start \in 0..n] ==         \* chunks beginning at or before `start`
            IF start = 0 THEN {}
            ELSE IF (start - 1) % chunk = 0
                   THEN Merged(upTo[start - 1], ScanRange(q, k, start, ChunkEnd(start, chunk, n)), k)
                   ELSE upTo[start - 1]
    IN  IF k = 0 \/ n = 0 THEN {}
        ELSE IF n < ParallelThreshold THEN ScanRange(q, k, 1, n) ELSE upTo[n]

(* search_filtered: only the slots whose id is allowed are ranked. *)
BFSearchFiltered(q, k, allowed) ==
    TopK({ Candidate(q, s) : s \in { i \in 1..Len(ids) : ids[i] \in allowed } }, k)

-----------------------------------------------------------------------------
(* The three parallel structures describe one set of records: slots and    *)
(* ids are in bijection, whatever inserts and swap-removes came before.    *)
SlotsInStep ==
    /\ ids \in Seq(Ids) /\ data \in Seq(Points) /\ Len(data) = Len(ids)
    /\ slot_of \in [DOMAIN slot_of -> 1..Len(ids)]
    /\ \A id \in DOMAIN slot_of : ids[slot_of[id]] = id
    /\ \A s \in 1..Len(ids) : ids[s] \in DOMAIN slot_of /\ slot_of[ids[s]] = s

(* Serial or cut into chunks, a search answers the k nearest records of    *)
(* the map, ties broken by id; a filtered search those among the allowed.  *)
SearchExact ==
    \A q \in Points, k \in 0..3 :
        LET Ranked(S) == { <<Distance(q, Entries[id]), id>> : id \in S }
        IN  /\ BFSearch(q, k) = TopK(Ranked(DOMAIN slot_of), k)
            /\ \A allowed \in SUBSET Ids :
                   BFSearchFiltered(q, k, allowed) = TopK(Ranked(DOMAIN slot_of \cap allowed), k)

Map == INSTANCE VectorMap WITH content <- Entries

(* The index implements the map of VectorMap. *)
ImplementsMap == Map!MapSpec
=============================================================================

-------------------------- MODULE BruteForceProofs --------------------------
(***************************************************************************)
(* BruteForce proved for any set of ids and of vectors and any length of   *)
(* history: ids, vectors and the id map stay in step, the index implements *)
(* the map of VectorMap, and its bounded heaps, one per chunk and merged   *)
(* from left to right, answer exactly the k nearest records.               *)
(***************************************************************************)
EXTENDS BruteForce, FiniteSetTheorems, WellFoundedInduction, TLAPS

(* Swap-remove shortens a sequence by its last place. *)
LEMMA SwapRemoveLength ==
    ASSUME NEW S, NEW s \in Seq(S), NEW slot \in 1..Len(s)
    PROVE  /\ SwapRemoved(s, slot, Len(s)) \in Seq(S)
           /\ Len(SwapRemoved(s, slot, Len(s))) = Len(s) - 1
           /\ \A i \in 1..(Len(s) - 1) :
                  SwapRemoved(s, slot, Len(s))[i] = IF i = slot THEN s[Len(s)] ELSE s[i]
  <1> DEFINE n == Len(s) - 1
  <1> DEFINE t == SwapRemoved(s, slot, Len(s))
  <1>1. n \in Nat /\ Len(s) \in Nat
    OBVIOUS
  <1>2. t \in [1..n -> S]
    BY <1>1 DEF SwapRemoved
  <1>3. t \in Seq(S) /\ Len(t) = n
    BY <1>1, <1>2
  <1> QED
    BY <1>3 DEF SwapRemoved

(* The slots stay in step when an absent id is appended. *)
LEMMA InsertInStep ==
    ASSUME SlotsInStep, NEW id \in Ids, NEW v \in Points, BFInsert(id, v)
    PROVE  SlotsInStep'
  <1>1. CASE id \in DOMAIN slot_of
    BY <1>1 DEF BFInsert, bfVars, SlotsInStep
  <1>2. CASE id \notin DOMAIN slot_of
    <2> DEFINE n == Len(ids)
    <2>1. n \in Nat /\ ids \in Seq(Ids) /\ data \in Seq(Points) /\ Len(data) = n
      BY DEF SlotsInStep
    <2>2. /\ ids' = Append(ids, id) /\ data' = Append(data, v)
          /\ slot_of' = [x \in DOMAIN slot_of \cup {id} |-> IF x = id THEN n + 1 ELSE slot_of[x]]
      BY <1>2 DEF BFInsert
    <2>3. /\ ids' \in Seq(Ids) /\ data' \in Seq(Points)
          /\ Len(ids') = n + 1 /\ Len(data') = n + 1
          /\ ids'[n + 1] = id
          /\ \A s \in 1..n : ids'[s] = ids[s]
      BY <2>1, <2>2
    <2>4. DOMAIN slot_of' = DOMAIN slot_of \cup {id} /\ slot_of'[id] = n + 1
      BY <2>2
    <2>5. \A x \in DOMAIN slot_of : slot_of'[x] = slot_of[x] /\ slot_of[x] \in 1..n /\ ids[slot_of[x]] = x
      BY <1>2, <2>2 DEF SlotsInStep
    <2>6. slot_of' \in [DOMAIN slot_of' -> 1..Len(ids')]
      BY <2>1, <2>2, <2>3, <2>4, <2>5
    <2>7. \A x \in DOMAIN slot_of' : ids'[slot_of'[x]] = x
      BY <2>3, <2>4, <2>5
    <2>8. ASSUME NEW s \in 1..(n + 1)
          PROVE  ids'[s] \in DOMAIN slot_of' /\ slot_of'[ids'[s]] = s
      <3>1. CASE s = n + 1
        BY <3>1, <2>3, <2>4
      <3>2. CASE s # n + 1
        <4>1. s \in 1..n
          BY <3>2, <2>1
        <4>2. ids[s] \in DOMAIN slot_of /\ slot_of[ids[s]] = s
          BY <4>1 DEF SlotsInStep
        <4> QED
          BY <4>1, <4>2, <2>3, <2>4, <2>5
      <3> QED
        BY <3>1, <3>2
    <2> QED
      BY <2>3, <2>6, <2>7, <2>8 DEF SlotsInStep
  <1> QED
    BY <1>1, <1>2

(* What the id map is after a delete: the moved id, if any, has the slot   *)
(* of the deleted one and every other id the slot it had.                  *)
LEMMA MovedSlots ==
    ASSUME SlotsInStep, NEW id \in DOMAIN slot_of
    PROVE  LET after == MovedSlotOf(id, slot_of[id], Len(ids))
           IN  /\ slot_of[id] \in 1..Len(ids) /\ ids[slot_of[id]] = id
               /\ after = [x \in DOMAIN slot_of \ {id} |->
                             IF slot_of[x] = Len(ids) THEN slot_of[id] ELSE slot_of[x]]
  <1> DEFINE slot == slot_of[id]
             last == Len(ids)
             kept == DOMAIN slot_of \ {id}
             moved == IF slot # last THEN {ids[last]} ELSE {}
  <1>1. slot \in 1..last /\ last \in Nat \ {0} /\ ids[slot] = id
    BY DEF SlotsInStep
  <1>2. \A x \in DOMAIN slot_of : slot_of[x] \in 1..last /\ ids[slot_of[x]] = x
    BY DEF SlotsInStep
  <1>3. ids[last] \in DOMAIN slot_of /\ slot_of[ids[last]] = last
    BY <1>1 DEF SlotsInStep
  <1>4. kept \cup moved = kept
    BY <1>1, <1>3
  <1>5. \A x \in kept : x \in moved <=> slot_of[x] = last
    <2> SUFFICES ASSUME NEW x \in kept
                 PROVE  x \in moved <=> slot_of[x] = last
      OBVIOUS
    <2>1. ASSUME slot_of[x] = last PROVE x \in moved
      <3>1. x = ids[last]
        BY <2>1, <1>2
      <3>2. slot # last
        BY <3>1, <1>1
      <3> QED
        BY <3>1, <3>2
    <2>2. ASSUME x \in moved PROVE slot_of[x] = last
      BY <2>2, <1>3
    <2> QED
      BY <2>1, <2>2
  <1>6. MovedSlotOf(id, slot, last) = [x \in kept |-> IF slot_of[x] = last THEN slot ELSE slot_of[x]]
    BY <1>4, <1>5 DEF MovedSlotOf
  <1> QED
    BY <1>1, <1>6

(* The slots stay in step through a swap-remove. *)
LEMMA DeleteInStep ==
    ASSUME SlotsInStep, NEW id \in Ids, BFDelete(id)
    PROVE  SlotsInStep'
  <1>1. CASE id \notin DOMAIN slot_of
    BY <1>1 DEF BFDelete, bfVars, SlotsInStep
  <1>2. CASE id \in DOMAIN slot_of
    <2> DEFINE slot == slot_of[id]
               last == Len(ids)
               n == last - 1
    <2>1. slot \in 1..last /\ ids[slot] = id
      BY <1>2, MovedSlots
    <2>2. ids \in Seq(Ids) /\ data \in Seq(Points) /\ Len(data) = last /\ last \in Nat \ {0}
      BY <2>1 DEF SlotsInStep
    <2>3. /\ ids' = SwapRemoved(ids, slot, last) /\ data' = SwapRemoved(data, slot, last)
          /\ slot_of' = MovedSlotOf(id, slot, last)
      BY <1>2 DEF BFDelete
    <2>4. /\ ids' \in Seq(Ids) /\ Len(ids') = n
          /\ \A i \in 1..n : ids'[i] = IF i = slot THEN ids[last] ELSE ids[i]
      BY <2>1, <2>2, <2>3, SwapRemoveLength
    <2>5. data' \in Seq(Points) /\ Len(data') = n
      BY <2>1, <2>2, <2>3, SwapRemoveLength
    <2>6. slot_of' = [x \in DOMAIN slot_of \ {id} |->
                        IF slot_of[x] = last THEN slot ELSE slot_of[x]]
      BY <1>2, <2>3, MovedSlots
    <2>7. \A x \in DOMAIN slot_of : slot_of[x] \in 1..last /\ ids[slot_of[x]] = x
      BY DEF SlotsInStep
    <2>8. \A s \in 1..last : ids[s] \in DOMAIN slot_of /\ slot_of[ids[s]] = s
      BY DEF SlotsInStep
    <2>9. \A x \in DOMAIN slot_of' : slot_of'[x] \in 1..n /\ ids'[slot_of'[x]] = x
      <3> SUFFICES ASSUME NEW x \in DOMAIN slot_of \ {id}
                   PROVE  slot_of'[x] \in 1..n /\ ids'[slot_of'[x]] = x
        BY <2>6
      <3>1. slot_of[x] # slot
        BY <2>1, <2>7
      <3>2. CASE slot_of[x] = last
        <4>1. slot_of'[x] = slot /\ slot \in 1..n
          BY <3>1, <3>2, <2>1, <2>2, <2>6
        <4>2. ids'[slot] = ids[last]
          BY <4>1, <2>4
        <4> QED
          BY <4>1, <4>2, <3>2, <2>7
      <3>3. CASE slot_of[x] # last
        <4>1. slot_of'[x] = slot_of[x] /\ slot_of[x] \in 1..n
          BY <3>3, <2>2, <2>6, <2>7
        <4>2. ids'[slot_of[x]] = ids[slot_of[x]]
          BY <4>1, <3>1, <2>4
        <4> QED
          BY <4>1, <4>2, <2>7
      <3> QED
        BY <3>2, <3>3
    <2>10. \A s \in 1..n : ids'[s] \in DOMAIN slot_of' /\ slot_of'[ids'[s]] = s
      <3> SUFFICES ASSUME NEW s \in 1..n
                   PROVE  ids'[s] \in DOMAIN slot_of' /\ slot_of'[ids'[s]] = s
        OBVIOUS
      <3>1. CASE s = slot
        <4>1. ids'[s] = ids[last] /\ slot_of[ids[last]] = last /\ ids[last] \in DOMAIN slot_of
          BY <3>1, <2>2, <2>4, <2>8
        <4>2. ids[last] # id
          BY <4>1, <3>1, <2>1, <2>2
        <4> QED
          BY <4>1, <4>2, <3>1, <2>6
      <3>2. CASE s # slot
        <4>1. ids'[s] = ids[s] /\ slot_of[ids[s]] = s /\ ids[s] \in DOMAIN slot_of /\ s # last
          BY <3>2, <2>2, <2>4, <2>8
        <4>2. ids[s] # id
          BY <4>1, <3>2
        <4> QED
          BY <4>1, <4>2, <2>6
      <3> QED
        BY <3>1, <3>2
    <2>11. slot_of' \in [DOMAIN slot_of' -> 1..n]
      BY <2>6, <2>9
    <2> QED
      BY <2>4, <2>5, <2>9, <2>10, <2>11 DEF SlotsInStep
  <1> QED
    BY <1>1, <1>2

(* Ids, vectors and the id map are in step in every reachable state. *)
THEOREM InStep == BFSpec => []SlotsInStep
  <1>1. BFInit => SlotsInStep
    BY DEF BFInit, SlotsInStep
  <1>2. SlotsInStep /\ [BFNext]_bfVars => SlotsInStep'
    <2> SUFFICES ASSUME SlotsInStep, [BFNext]_bfVars
                 PROVE  SlotsInStep'
      OBVIOUS
    <2>1. CASE UNCHANGED bfVars
      BY <2>1 DEF bfVars, SlotsInStep
    <2>2. ASSUME NEW id \in Ids, BFDelete(id) PROVE SlotsInStep'
      BY <2>2, DeleteInStep
    <2>3. ASSUME NEW id \in Ids, NEW v \in Points, BFInsert(id, v) PROVE SlotsInStep'
      BY <2>3, InsertInStep
    <2> QED
      BY <2>1, <2>2, <2>3 DEF BFNext
  <1> QED
    BY <1>1, <1>2, PTL DEF BFSpec

-----------------------------------------------------------------------------
(* An insert maps to an insert of the abstract map, or to nothing. *)
LEMMA InsertImplements ==
    ASSUME SlotsInStep, NEW id \in Ids, NEW v \in Points, BFInsert(id, v)
    PROVE  IF id \in DOMAIN slot_of THEN UNCHANGED Entries ELSE Map!MapInsert(id, v)
  <1>1. CASE id \in DOMAIN slot_of
    BY <1>1 DEF BFInsert, bfVars, Entries
  <1>2. CASE id \notin DOMAIN slot_of
    <2> DEFINE n == Len(ids)
    <2>1. n \in Nat /\ data \in Seq(Points) /\ Len(data) = n
      BY DEF SlotsInStep
    <2>2. /\ data' = Append(data, v)
          /\ slot_of' = [x \in DOMAIN slot_of \cup {id} |-> IF x = id THEN n + 1 ELSE slot_of[x]]
      BY <1>2 DEF BFInsert
    <2>3. data'[n + 1] = v /\ \A s \in 1..n : data'[s] = data[s]
      BY <2>1, <2>2
    <2>4. \A x \in DOMAIN slot_of : slot_of[x] \in 1..n
      BY DEF SlotsInStep
    <2>5. \A x \in DOMAIN slot_of' : data'[slot_of'[x]] = IF x = id THEN v ELSE Entries[x]
      BY <1>2, <2>2, <2>3, <2>4 DEF Entries
    <2>6. DOMAIN slot_of' = DOMAIN slot_of \cup {id} /\ DOMAIN Entries = DOMAIN slot_of
      BY <2>2 DEF Entries
    <2>7. Entries' = [x \in DOMAIN Entries \cup {id} |-> IF x = id THEN v ELSE Entries[x]]
      BY <2>5, <2>6 DEF Entries
    <2>8. Map!MapInsert(id, v)
      BY <1>2, <2>6, <2>7 DEF Map!MapInsert, Map!MapPresent
    <2> QED
      BY <1>2, <2>8
  <1> QED
    BY <1>1, <1>2

(* A delete maps to a delete of the abstract map, or to nothing. *)
LEMMA DeleteImplements ==
    ASSUME SlotsInStep, NEW id \in Ids, BFDelete(id)
    PROVE  IF id \in DOMAIN slot_of THEN Map!MapDelete(id) ELSE UNCHANGED Entries
  <1>1. CASE id \notin DOMAIN slot_of
    BY <1>1 DEF BFDelete, bfVars, Entries
  <1>2. CASE id \in DOMAIN slot_of
    <2> DEFINE slot == slot_of[id]
               last == Len(ids)
               n == last - 1
    <2>1. slot \in 1..last /\ ids[slot] = id
      BY <1>2, MovedSlots
    <2>2. data \in Seq(Points) /\ Len(data) = last /\ last \in Nat \ {0}
      BY <2>1 DEF SlotsInStep
    <2>3. data' = SwapRemoved(data, slot, last) /\ slot_of' = MovedSlotOf(id, slot, last)
      BY <1>2 DEF BFDelete
    <2>4. \A i \in 1..n : data'[i] = IF i = slot THEN data[last] ELSE data[i]
      <3>1. slot \in 1..Len(data) /\ data' = SwapRemoved(data, slot, Len(data))
        BY <2>1, <2>2, <2>3
      <3>2. \A i \in 1..(Len(data) - 1) :
                SwapRemoved(data, slot, Len(data))[i] = IF i = slot THEN data[Len(data)] ELSE data[i]
        BY <2>2, <3>1, SwapRemoveLength
      <3> QED
        BY <2>2, <3>1, <3>2
    <2>5. slot_of' = [x \in DOMAIN slot_of \ {id} |->
                        IF slot_of[x] = last THEN slot ELSE slot_of[x]]
      BY <1>2, <2>3, MovedSlots
    <2>6. \A x \in DOMAIN slot_of : slot_of[x] \in 1..last /\ ids[slot_of[x]] = x
      BY DEF SlotsInStep
    <2>7. \A x \in DOMAIN slot_of \ {id} : data'[slot_of'[x]] = data[slot_of[x]]
      <3> SUFFICES ASSUME NEW x \in DOMAIN slot_of \ {id}
                   PROVE  data'[slot_of'[x]] = data[slot_of[x]]
        OBVIOUS
      <3>1. slot_of[x] # slot /\ slot_of[x] \in 1..last
        BY <2>1, <2>6
      <3>2. CASE slot_of[x] = last
        <4>1. slot_of'[x] = slot /\ slot \in 1..n
          BY <3>1, <3>2, <2>1, <2>2, <2>5
        <4> QED
          BY <4>1, <3>2, <2>4
      <3>3. CASE slot_of[x] # last
        <4>1. slot_of'[x] = slot_of[x] /\ slot_of[x] \in 1..n
          BY <3>1, <3>3, <2>2, <2>5
        <4> QED
          BY <4>1, <3>1, <2>4
      <3> QED
        BY <3>2, <3>3
    <2>8. DOMAIN slot_of' = DOMAIN slot_of \ {id} /\ DOMAIN Entries = DOMAIN slot_of
      BY <2>5 DEF Entries
    <2>9. Entries' = [x \in DOMAIN Entries \ {id} |-> Entries[x]]
      BY <2>7, <2>8 DEF Entries
    <2>10. Map!MapDelete(id)
      BY <1>2, <2>8, <2>9 DEF Map!MapDelete, Map!MapPresent
    <2> QED
      BY <1>2, <2>10
  <1> QED
    BY <1>1, <1>2

(* The linear-scan index implements the abstract map. *)
THEOREM MapImplemented == BFSpec => ImplementsMap
  <1>1. BFInit => Map!MapInit
    BY DEF BFInit, Map!MapInit, Entries
  <1>2. SlotsInStep /\ [BFNext]_bfVars => [Map!MapNext]_Entries
    <2> SUFFICES ASSUME SlotsInStep, [BFNext]_bfVars
                 PROVE  Map!MapNext \/ UNCHANGED Entries
      OBVIOUS
    <2>1. CASE UNCHANGED bfVars
      BY <2>1 DEF bfVars, Entries
    <2>2. ASSUME NEW id \in Ids, BFDelete(id) PROVE Map!MapNext \/ UNCHANGED Entries
      BY <2>2, DeleteImplements DEF Map!MapNext
    <2>3. ASSUME NEW id \in Ids, NEW v \in Points, BFInsert(id, v)
          PROVE  Map!MapNext \/ UNCHANGED Entries
      BY <2>3, InsertImplements DEF Map!MapNext
    <2> QED
      BY <2>1, <2>2, <2>3 DEF BFNext
  <1> QED
    BY <1>1, <1>2, InStep, PTL DEF BFSpec, ImplementsMap, Map!MapSpec

-----------------------------------------------------------------------------
(* Induction and recursion.  Sets stand for predicates and functions for   *)
(* operators, so that the provers can instantiate what follows.            *)

(* A non-empty set of naturals has a least element. *)
LEMMA LeastOf ==
    ASSUME NEW S, S \subseteq Nat, S # {}
    PROVE  \E n \in S : \A m \in S : n <= m
  <1>1. PICK R : R = OpToRel(<, Nat)
    OBVIOUS
  <1>2. IsWellFoundedOn(R, Nat)
    BY <1>1, NatLessThanWellFounded
  <1>3. \A x, y \in Nat : x < y => <<x, y>> \in R
    BY <1>1 DEF OpToRel
  <1>4. PICK x \in S : \A y \in S : ~ (<<y, x>> \in R)
    BY <1>2, WFMin
  <1>5. \A y \in S : ~ (y < x)
    BY <1>3, <1>4
  <1> QED
    BY <1>4, <1>5

(* A set that holds 0 and the successor of each of its naturals holds all. *)
LEMMA AllNaturals ==
    ASSUME NEW S, 0 \in S, \A n \in Nat : n \in S => n + 1 \in S
    PROVE  \A n \in Nat : n \in S
  <1> SUFFICES ASSUME Nat \ S # {}
               PROVE  FALSE
    OBVIOUS
  <1>1. PICK n \in Nat \ S : \A m \in Nat \ S : n <= m
    BY LeastOf
  <1>2. n - 1 \in Nat /\ (n - 1) + 1 = n
    BY <1>1
  <1>3. n - 1 \in S
    BY <1>1, <1>2
  <1> QED
    BY <1>1, <1>2, <1>3

(* it[i] is what i steps make of base. *)
Iterates(it, n, base, step) ==
    \A i \in 0..n : it[i] = IF i = 0 THEN base ELSE step[<<i, it[i - 1]>>]

(* A step taken n times from a first value has a history. *)
LEMMA IterationExists ==
    ASSUME NEW n \in Nat, NEW V, NEW base, base \in V, NEW step, step \in [(1..n) \X V -> V]
    PROVE  \E it \in [0..n -> V] : Iterates(it, n, base, step)
  <1> USE DEF Iterates
  <1> DEFINE Upto(m) == \E it \in [0..m -> V] :
                            \A i \in 0..m : it[i] = IF i = 0 THEN base ELSE step[<<i, it[i - 1]>>]
             S == { m \in Nat : m <= n => Upto(m) }
  <1>1. 0 \in S
    <2>1. [i \in 0..0 |-> base] \in [0..0 -> V]
      OBVIOUS
    <2>2. \A i \in 0..0 : [j \in 0..0 |-> base][i] = IF i = 0 THEN base ELSE step[<<i, [j \in 0..0 |-> base][i - 1]>>]
      OBVIOUS
    <2> QED
      BY <2>1, <2>2
  <1>2. ASSUME NEW m \in Nat, m \in S
        PROVE  m + 1 \in S
    <2> SUFFICES ASSUME m + 1 <= n
                 PROVE  Upto(m + 1)
      OBVIOUS
    <2>1. PICK it \in [0..m -> V] :
              \A i \in 0..m : it[i] = IF i = 0 THEN base ELSE step[<<i, it[i - 1]>>]
      BY <1>2
    <2> DEFINE more == [i \in 0..(m + 1) |-> IF i = m + 1 THEN step[<<m + 1, it[m]>>] ELSE it[i]]
    <2>2. step[<<m + 1, it[m]>>] \in V
      <3>1. <<m + 1, it[m]>> \in (1..n) \X V
        BY <2>1
      <3> QED
        BY <3>1
    <2>3. more \in [0..(m + 1) -> V]
      BY <2>1, <2>2
    <2>4. ASSUME NEW i \in 0..(m + 1)
          PROVE  more[i] = IF i = 0 THEN base ELSE step[<<i, more[i - 1]>>]
      <3>1. CASE i = m + 1
        <4>1. more[i] = step[<<i, it[m]>>] /\ more[i - 1] = it[m] /\ i # 0
          BY <3>1
        <4> QED
          BY <4>1
      <3>2. CASE i \in 0..m
        <4>1. more[i] = it[i] /\ (i # 0 => more[i - 1] = it[i - 1])
          BY <3>2
        <4> QED
          BY <4>1, <3>2, <2>1
      <3> QED
        BY <3>1, <3>2
    <2> HIDE DEF more
    <2> QED
      BY <2>3, <2>4
  <1> HIDE DEF S
  <1>3. n \in S
    BY <1>1, <1>2, AllNaturals
  <1> QED
    BY <1>3 DEF S

(* pick takes an element from each non-empty subset of D, and it[s] folds  *)
(* step over the elements of s in that order.                              *)
Picks(pick, D) == DOMAIN pick = SUBSET D /\ \A s \in SUBSET D : s # {} => pick[s] \in s
Folds(it, D, base, pick, step) ==
    \A s \in SUBSET D : it[s] = IF s = {} THEN base ELSE step[<<pick[s], it[s \ {pick[s]}]>>]

(* A finite set whose elements are taken one at a time has a fold. *)
LEMMA FoldExists ==
    ASSUME NEW D, IsFiniteSet(D), NEW V, NEW base, base \in V,
           NEW pick, Picks(pick, D), NEW step, step \in [D \X V -> V]
    PROVE  \E it \in [SUBSET D -> V] : Folds(it, D, base, pick, step)
  <1> USE DEF Picks, Folds
  <1> DEFINE Small(m) == { s \in SUBSET D : Cardinality(s) <= m }
             Upto(m) == \E it \in [Small(m) -> V] :
                            \A s \in Small(m) :
                                it[s] = IF s = {} THEN base ELSE step[<<pick[s], it[s \ {pick[s]}]>>]
             S == { m \in Nat : Upto(m) }
  <1>0. \A s \in SUBSET D : IsFiniteSet(s) /\ Cardinality(s) \in Nat /\ (Cardinality(s) = 0 <=> s = {})
                            /\ Cardinality(s) <= Cardinality(D)
    BY FS_Subset, FS_CardinalityType, FS_EmptySet
  <1>1. 0 \in S
    <2>1. \A s \in Small(0) : s = {}
      BY <1>0
    <2>2. [s \in Small(0) |-> base] \in [Small(0) -> V]
      OBVIOUS
    <2> QED
      BY <2>1, <2>2
  <1>2. ASSUME NEW m \in Nat, m \in S
        PROVE  m + 1 \in S
    <2>1. PICK it \in [Small(m) -> V] :
              \A s \in Small(m) : it[s] = IF s = {} THEN base ELSE step[<<pick[s], it[s \ {pick[s]}]>>]
      BY <1>2
    <2>2. ASSUME NEW s \in SUBSET D, s # {}, Cardinality(s) <= m + 1
          PROVE  pick[s] \in D /\ s \ {pick[s]} \in Small(m)
      <3>1. pick[s] \in s
        BY <2>2
      <3>2. Cardinality(s \ {pick[s]}) = Cardinality(s) - 1
        BY <1>0, <3>1, FS_RemoveElement
      <3> QED
        BY <1>0, <2>2, <3>1, <3>2
    <2> DEFINE more == [s \in Small(m + 1) |->
                          IF s = {} THEN base ELSE step[<<pick[s], it[s \ {pick[s]}]>>]]
    <2>3. more \in [Small(m + 1) -> V]
      <3> SUFFICES ASSUME NEW s \in Small(m + 1), s # {}
                   PROVE  step[<<pick[s], it[s \ {pick[s]}]>>] \in V
        OBVIOUS
      <3>1. <<pick[s], it[s \ {pick[s]}]>> \in D \X V
        BY <2>1, <2>2
      <3> QED
        BY <3>1
    <2>4. \A s \in Small(m) : s \in Small(m + 1) /\ more[s] = it[s]
      <3>1. \A s \in Small(m) : s \in Small(m + 1)
        BY <1>0
      <3> QED
        BY <3>1, <2>1
    <2>5. ASSUME NEW s \in Small(m + 1)
          PROVE  more[s] = IF s = {} THEN base ELSE step[<<pick[s], more[s \ {pick[s]}]>>]
      BY <2>2, <2>4
    <2> HIDE DEF more
    <2>6. Upto(m + 1)
      BY <2>3, <2>5
    <2> HIDE DEF Upto
    <2> QED
      BY <2>6
  <1>3. Cardinality(D) \in S
    <2>1. Cardinality(D) \in Nat
      BY FS_CardinalityType
    <2> HIDE DEF S
    <2> QED
      BY <1>1, <1>2, <2>1, AllNaturals
  <1>4. Small(Cardinality(D)) = SUBSET D
    BY <1>0
  <1> QED
    BY <1>3, <1>4


-----------------------------------------------------------------------------
(* Candidates ordered by Before, and the nearest k of them. *)

Pairs == Int \X Int

(* A finite, non-empty set of candidates has a farthest. *)
LEMMA FarthestOf ==
    ASSUME NEW C, IsFiniteSet(C), C \subseteq Pairs, C # {}
    PROVE  /\ Farthest(C) \in C
           /\ \A y \in C \ {Farthest(C)} : Before(y, Farthest(C))
  <1> DEFINE Has(s) == \E x \in s : \A y \in s \ {x} : Before(y, x)
             S == { n \in Nat : \A s \in SUBSET C : Cardinality(s) = n /\ s # {} => Has(s) }
  <1>0. \A s \in SUBSET C : IsFiniteSet(s) /\ Cardinality(s) \in Nat /\ (Cardinality(s) = 0 <=> s = {})
    BY FS_Subset, FS_CardinalityType, FS_EmptySet
  <1>1. 0 \in S
    BY <1>0
  <1>2. ASSUME NEW n \in Nat, n \in S
        PROVE  n + 1 \in S
    <2> SUFFICES ASSUME NEW s \in SUBSET C, Cardinality(s) = n + 1
                 PROVE  Has(s)
      OBVIOUS
    <2>1. s # {}
      BY <1>0
    <2>2. PICK z \in s : TRUE
      BY <2>1
    <2>3. s \ {z} \in SUBSET C /\ Cardinality(s \ {z}) = n
      <3>1. IsFiniteSet(s)
        BY <1>0
      <3>2. Cardinality(s \ {z}) = Cardinality(s) - 1
        BY ONLY <2>2, <3>1, FS_RemoveElement
      <3> QED
        BY <3>2
    <2>4. CASE s \ {z} = {}
      BY <2>2, <2>4
    <2>5. CASE s \ {z} # {}
      <3>1. PICK x \in s \ {z} : \A y \in (s \ {z}) \ {x} : Before(y, x)
        BY <1>2, <2>3, <2>5
      <3>2. x \in Pairs /\ z \in Pairs /\ x # z
        BY <2>2, <3>1
      <3>3. Before(x, z) \/ Before(z, x)
        BY <3>2 DEF Before, Pairs
      <3>4. CASE Before(z, x)
        BY <3>1, <3>4
      <3>5. CASE Before(x, z)
        <4>1. ASSUME NEW y \in s \ {z} PROVE Before(y, z)
          <5>1. y = x \/ Before(y, x)
            BY <3>1
          <5>2. y \in Pairs
            OBVIOUS
          <5> QED
            BY <3>2, <3>5, <5>1, <5>2 DEF Before, Pairs
        <4> QED
          BY <2>2, <4>1
      <3> QED
        BY <3>3, <3>4, <3>5
    <2> QED
      BY <2>4, <2>5
  <1>3. Cardinality(C) \in S
    <2> HIDE DEF S
    <2> QED
      BY <1>0, <1>1, <1>2, AllNaturals
  <1>4. \E x \in C : \A y \in C \ {x} : Before(y, x)
    BY <1>3
  <1> QED
    BY <1>4 DEF Farthest

(* `top` holds the k nearest of the candidates. *)
IsTop(top, cands, k) ==
    /\ top \subseteq cands
    /\ Cardinality(top) = k \/ (top = cands /\ Cardinality(top) < k)
    /\ \A x \in top, y \in cands \ top : Before(x, y)

(* There is one set of k nearest candidates, TopK. *)
LEMMA TopIsTopK ==
    ASSUME NEW cands, IsFiniteSet(cands), cands \subseteq Pairs, NEW k \in Nat,
           NEW top, IsTop(top, cands, k)
    PROVE  top = TopK(cands, k)
  <1>1. IsFiniteSet(top) /\ Cardinality(top) \in Nat /\ Cardinality(top) <= k
    BY FS_Subset, FS_CardinalityType DEF IsTop
  <1>2. ASSUME NEW x \in top
        PROVE  Cardinality({ y \in cands : Before(y, x) }) < k
    <2> DEFINE nearer == { y \in cands : Before(y, x) }
    <2>1. x \in Pairs
      BY DEF IsTop
    <2>2. nearer \subseteq top \ {x}
      <3> SUFFICES ASSUME NEW y \in cands, Before(y, x)
                   PROVE  y \in top /\ y # x
        OBVIOUS
      <3>1. y \in Pairs /\ ~ Before(x, y) /\ y # x
        BY <2>1 DEF Before, Pairs
      <3> QED
        BY <3>1 DEF IsTop
    <2>3. IsFiniteSet(top \ {x}) /\ Cardinality(top \ {x}) = Cardinality(top) - 1
      BY <1>1, FS_RemoveElement
    <2>4. Cardinality(nearer) <= Cardinality(top \ {x}) /\ Cardinality(nearer) \in Nat
      <3> HIDE DEF nearer
      <3> QED
        BY <2>2, <2>3, FS_Subset, FS_CardinalityType
    <2> QED
      BY <1>1, <2>3, <2>4
  <1>3. ASSUME NEW x \in cands, x \notin top
        PROVE  ~ (Cardinality({ y \in cands : Before(y, x) }) < k)
    <2> DEFINE nearer == { y \in cands : Before(y, x) }
    <2>1. top \subseteq nearer /\ nearer \subseteq cands
      BY <1>3 DEF IsTop
    <2>2. Cardinality(top) = k
      BY <1>3 DEF IsTop
    <2>3. IsFiniteSet(nearer)
      BY <2>1, FS_Subset
    <2>4. Cardinality(top) <= Cardinality(nearer) /\ Cardinality(nearer) \in Nat
      <3> HIDE DEF nearer
      <3> QED
        BY <2>1, <2>3, FS_Subset, FS_CardinalityType
    <2> QED
      BY <1>1, <2>2, <2>4
  <1> QED
    BY <1>2, <1>3 DEF TopK, IsTop

(* A candidate offered to a heap of the k nearest so far leaves the k      *)
(* nearest of one more.                                                    *)
LEMMA OfferKeepsTop ==
    ASSUME NEW cands, IsFiniteSet(cands), cands \subseteq Pairs, NEW k \in Nat,
           NEW top, IsTop(top, cands, k), NEW c \in Pairs, c \notin cands
    PROVE  IsTop(Offer(top, k, c), cands \cup {c}, k)
  <1>1. IsFiniteSet(top) /\ Cardinality(top) \in Nat /\ top \subseteq Pairs /\ c \notin top
    BY FS_Subset, FS_CardinalityType DEF IsTop
  <1>2. CASE Cardinality(top) < k
    <2>1. Offer(top, k, c) = top \cup {c} /\ top = cands
      BY <1>2, <1>1 DEF Offer, IsTop
    <2>2. Cardinality(top \cup {c}) = Cardinality(top) + 1
      BY <1>1, FS_AddElement
    <2>3. Cardinality(top \cup {c}) = k \/ Cardinality(top \cup {c}) < k
      BY <1>1, <1>2, <2>2
    <2> QED
      BY <2>1, <2>3 DEF IsTop
  <1>3. CASE Cardinality(top) = k /\ top = {}
    BY <1>3 DEF Offer, IsTop
  <1>4. CASE Cardinality(top) = k /\ top # {}
    <2>1. PICK f : f = Farthest(top)
      OBVIOUS
    <2>2. f \in top /\ \A y \in top \ {f} : Before(y, f)
      BY <1>1, <1>4, <2>1, FarthestOf
    <2>3. f \in Pairs /\ f # c
      BY <1>1, <2>2
    <2>4. CASE Before(c, f)
      <3>1. Offer(top, k, c) = (top \ {f}) \cup {c}
        BY <1>1, <1>4, <2>1, <2>4 DEF Offer
      <3>2. Cardinality((top \ {f}) \cup {c}) = k
        <4>1. IsFiniteSet(top \ {f}) /\ Cardinality(top \ {f}) = k - 1
          BY <1>1, <1>4, <2>2, FS_RemoveElement
        <4>2. c \notin top \ {f}
          BY <1>1
        <4>3. Cardinality((top \ {f}) \cup {c}) = Cardinality(top \ {f}) + 1
          BY <4>1, <4>2, FS_AddElement
        <4> QED
          BY <4>1, <4>3
      <3>3. ASSUME NEW x \in (top \ {f}) \cup {c}, NEW y \in (cands \cup {c}) \ ((top \ {f}) \cup {c})
            PROVE  Before(x, y)
        <4>1. Before(x, f)
          BY <2>2, <2>4
        <4>2. y = f \/ Before(f, y)
          BY <2>2 DEF IsTop
        <4>3. x \in Pairs /\ y \in Pairs
          BY <1>1
        <4> QED
          BY <2>3, <4>1, <4>2, <4>3 DEF Before, Pairs
      <3>4. (top \ {f}) \cup {c} \subseteq cands \cup {c}
        BY DEF IsTop
      <3> QED
        BY <3>1, <3>2, <3>3, <3>4 DEF IsTop
    <2>5. CASE ~ Before(c, f)
      <3>1. Offer(top, k, c) = top
        BY <1>1, <1>4, <2>1, <2>5 DEF Offer
      <3>2. Before(f, c)
        BY <2>3, <2>5 DEF Before, Pairs
      <3>3. ASSUME NEW x \in top PROVE Before(x, c)
        <4>1. x = f \/ Before(x, f)
          BY <2>2
        <4>2. x \in Pairs
          BY <1>1
        <4> QED
          BY <2>3, <3>2, <4>1, <4>2 DEF Before, Pairs
      <3> QED
        BY <1>4, <3>1, <3>3 DEF IsTop
    <2> QED
      BY <2>4, <2>5
  <1> QED
    BY <1>1, <1>2, <1>3, <1>4 DEF IsTop


(* Merging the nearest k of some candidates with the nearest k of others   *)
(* needs only the two selections, not the candidates left out.             *)
LEMMA SelectionsSuffice ==
    ASSUME NEW A, NEW B, IsFiniteSet(A), IsFiniteSet(B), A \subseteq Pairs, B \subseteq Pairs,
           NEW k \in Nat, NEW b, IsTop(b, B, k), NEW top, IsTop(top, A \cup b, k)
    PROVE  IsTop(top, A \cup B, k)
  <1>1. CASE b = B
    BY <1>1
  <1>2. CASE b # B
    <2>1. Cardinality(b) = k /\ b \subseteq B /\ \A x \in b, y \in B \ b : Before(x, y)
      BY <1>2 DEF IsTop
    <2>2. IsFiniteSet(b) /\ IsFiniteSet(A \cup b)
      BY <2>1, FS_Subset, FS_Union
    <2>3. top \subseteq A \cup b /\ IsFiniteSet(top)
      BY <2>2, FS_Subset DEF IsTop
    <2>4. Cardinality(top) = k
      <3>1. CASE top = A \cup b /\ Cardinality(top) < k
        <4>1. Cardinality(b) <= Cardinality(top)
          BY <2>3, <3>1, FS_Subset
        <4> QED
          BY <2>1, <2>3, <3>1, <4>1, FS_CardinalityType
      <3> QED
        BY <3>1 DEF IsTop
    <2>5. ASSUME NEW x \in top, NEW y \in (A \cup B) \ top
          PROVE  Before(x, y)
      <3>1. \A u \in top, v \in (A \cup b) \ top : Before(u, v)
        BY DEF IsTop
      <3>2. CASE y \in A \cup b
        BY <3>1, <3>2
      <3>3. CASE y \notin A \cup b
        <4>1. y \in B \ b
          BY <3>3
        <4>2. CASE x \in b
          BY <2>1, <4>1, <4>2
        <4>3. CASE x \notin b
          <5>1. ~ (b \subseteq top)
            <6> SUFFICES ASSUME b \subseteq top
                         PROVE  FALSE
              OBVIOUS
            <6>1. b = top
              BY <2>1, <2>3, <2>4, FS_Subset
            <6> QED
              BY <4>3, <6>1
          <5>2. PICK z \in b : z \notin top
            BY <5>1
          <5>3. Before(x, z) /\ Before(z, y)
            BY <2>1, <3>1, <4>1, <5>2
          <5>4. x \in Pairs /\ y \in Pairs /\ z \in Pairs
            BY <2>1, <2>3, <4>1, <5>2
          <5> QED
            BY <5>3, <5>4 DEF Before, Pairs
        <4> QED
          BY <4>2, <4>3
      <3> QED
        BY <3>2, <3>3
    <2>6. top \subseteq A \cup B
      BY <2>1, <2>3
    <2> QED
      BY <2>4, <2>5, <2>6 DEF IsTop
  <1> QED
    BY <1>1, <1>2

LEMMA OfferTyped ==
    ASSUME NEW heap \in SUBSET Pairs, NEW k, NEW c \in Pairs
    PROVE  Offer(heap, k, c) \in SUBSET Pairs
  BY DEF Offer

(* Two heaps of the nearest k merge into the nearest k of both. *)
LEMMA MergedIsTop ==
    ASSUME NEW A, NEW B, IsFiniteSet(A), IsFiniteSet(B), A \subseteq Pairs, B \subseteq Pairs,
           A \cap B = {}, NEW k \in Nat, NEW a, IsTop(a, A, k), NEW b, IsTop(b, B, k)
    PROVE  IsTop(Merged(a, b, k), A \cup B, k)
  <1> DEFINE Solves(f) == f = [rest \in SUBSET b |->
                                 IF rest = {} THEN a
                                 ELSE Offer(f[rest \ {Farthest(rest)}], k, Farthest(rest))]
             mergedFrom == CHOOSE f : Solves(f)
  <1>0. /\ a \in SUBSET Pairs /\ b \in SUBSET Pairs /\ b \subseteq B /\ a \subseteq A
        /\ IsFiniteSet(b) /\ IsFiniteSet(a)
    BY FS_Subset DEF IsTop
  <1>1. \A rest \in SUBSET b : rest # {} => Farthest(rest) \in rest
    <2> SUFFICES ASSUME NEW rest \in SUBSET b, rest # {}
                 PROVE  Farthest(rest) \in rest
      OBVIOUS
    <2>1. IsFiniteSet(rest) /\ rest \subseteq Pairs
      BY <1>0, FS_Subset
    <2> QED
      BY <2>1, FarthestOf
  <1>2. \E f : Solves(f)
    <2>0. PICK V, pick, step : /\ V = SUBSET Pairs
                               /\ pick = [rest \in SUBSET b |-> Farthest(rest)]
                               /\ step = [p \in b \X V |-> Offer(p[2], k, p[1])]
      OBVIOUS
    <2>1. Picks(pick, b)
      BY <1>1, <2>0 DEF Picks
    <2>2. step \in [b \X V -> V]
      <3> SUFFICES ASSUME NEW p \in b \X V
                   PROVE  Offer(p[2], k, p[1]) \in V
        BY <2>0
      <3> QED
        BY <1>0, <2>0, OfferTyped
    <2>3. a \in V
      BY <1>0, <2>0
    <2>4. PICK it \in [SUBSET b -> V] : Folds(it, b, a, pick, step)
      BY ONLY <1>0, <2>1, <2>2, <2>3, FoldExists
    <2>5. ASSUME NEW s \in SUBSET b, s # {}
          PROVE  it[s] = Offer(it[s \ {Farthest(s)}], k, Farthest(s))
      <3>1. Farthest(s) \in b /\ s \ {Farthest(s)} \in SUBSET b /\ pick[s] = Farthest(s)
        BY <1>1, <2>0, <2>5
      <3>2. <<Farthest(s), it[s \ {Farthest(s)}]>> \in b \X V
        BY <2>4, <3>1
      <3>3. it[s] = step[<<Farthest(s), it[s \ {Farthest(s)}]>>]
        BY <2>4, <2>5, <3>1 DEF Folds
      <3> QED
        BY <2>0, <3>2, <3>3
    <2>6. it = [s \in SUBSET b |-> IF s = {} THEN a ELSE Offer(it[s \ {Farthest(s)}], k, Farthest(s))]
      BY <2>4, <2>5 DEF Folds
    <2> QED
      BY <2>6
  <1>3. Solves(mergedFrom)
    BY <1>2
  <1> DEFINE S == { n \in Nat : \A rest \in SUBSET b : Cardinality(rest) = n => IsTop(mergedFrom[rest], A \cup rest, k) }
  <1> HIDE DEF mergedFrom
  <1>4. \A rest \in SUBSET b : IsFiniteSet(rest) /\ Cardinality(rest) \in Nat /\ (Cardinality(rest) = 0 <=> rest = {})
    BY <1>0, FS_Subset, FS_CardinalityType, FS_EmptySet
  <1>5. 0 \in S
    BY <1>3, <1>4
  <1>6. ASSUME NEW n \in Nat, n \in S
        PROVE  n + 1 \in S
    <2> SUFFICES ASSUME NEW rest \in SUBSET b, Cardinality(rest) = n + 1
                 PROVE  IsTop(mergedFrom[rest], A \cup rest, k)
      OBVIOUS
    <2>1. rest # {}
      BY <1>4
    <2>2. PICK f, less : f = Farthest(rest) /\ less = rest \ {f}
      OBVIOUS
    <2>3. f \in rest /\ f \in Pairs /\ less \in SUBSET b /\ f \notin less /\ less \cup {f} = rest
      BY <1>0, <1>1, <2>1, <2>2
    <2>4. Cardinality(less) = n
      <3>1. IsFiniteSet(rest)
        BY <1>4
      <3>2. Cardinality(less) = Cardinality(rest) - 1
        BY ONLY <2>2, <2>3, <3>1, FS_RemoveElement
      <3> QED
        BY <3>2
    <2>5. IsTop(mergedFrom[less], A \cup less, k)
      BY <1>6, <2>3, <2>4
    <2>6. mergedFrom[rest] = Offer(mergedFrom[less], k, f)
      BY <1>3, <2>1, <2>2
    <2>7. IsFiniteSet(A \cup less) /\ A \cup less \subseteq Pairs /\ f \notin A \cup less
      BY <1>0, <1>4, <2>3, FS_Union
    <2>8. IsTop(Offer(mergedFrom[less], k, f), (A \cup less) \cup {f}, k)
      BY <2>3, <2>5, <2>7, OfferKeepsTop
    <2>9. (A \cup less) \cup {f} = A \cup rest
      BY <2>3
    <2> QED
      BY <2>6, <2>8, <2>9
  <1>7. IsTop(mergedFrom[b], A \cup b, k)
    <2>1. Cardinality(b) \in Nat /\ b \in SUBSET b
      BY <1>4
    <2>2. Cardinality(b) \in S
      <3> HIDE DEF S
      <3> QED
        BY <1>5, <1>6, <2>1, AllNaturals
    <2> QED
      BY <2>1, <2>2
  <1>8. Merged(a, b, k) = mergedFrom[b]
    BY DEF Merged, mergedFrom
  <1> QED
    BY <1>7, <1>8, SelectionsSuffice


-----------------------------------------------------------------------------
(* The searches.  Slots are ranked in any number of pieces; the pieces are *)
(* told apart by their ids.                                                *)

(* The image of a finite set is finite. *)
LEMMA FiniteImage ==
    ASSUME NEW S, IsFiniteSet(S), NEW f
    PROVE  IsFiniteSet({ f[x] : x \in S })
  <1> DEFINE T == { f[x] : x \in S }
             g == [x \in S |-> f[x]]
  <1>1. g \in Surjection(S, T)
    BY DEF Surjection
  <1> HIDE DEF g
  <1> QED
    BY <1>1, FS_Surjection

Ranks(q, from, to) == { Candidate(q, s) : s \in from..to }

(* Candidates are pairs of numbers, and no two slots have the same one. *)
LEMMA SlotCandidates ==
    ASSUME SlotsInStep, NEW q \in Points
    PROVE  /\ \A s \in 1..Len(ids) : Candidate(q, s) \in Pairs /\ Candidate(q, s)[2] = ids[s]
           /\ \A s, t \in 1..Len(ids) : Candidate(q, s) = Candidate(q, t) => s = t
  <1>1. ASSUME NEW s \in 1..Len(ids)
        PROVE  Candidate(q, s) \in Pairs /\ Candidate(q, s)[2] = ids[s]
    <2>1. ids[s] \in Int /\ data[s] \in Int /\ q \in Int
      BY RankingAssumption DEF SlotsInStep
    <2>2. Distance(q, data[s]) \in Int
      BY <2>1 DEF Distance
    <2> QED
      BY <2>1, <2>2 DEF Candidate, Pairs
  <1>2. ASSUME NEW s \in 1..Len(ids), NEW t \in 1..Len(ids), Candidate(q, s) = Candidate(q, t)
        PROVE  s = t
    <2>1. ids[s] = ids[t]
      BY <1>1, <1>2
    <2> QED
      BY <2>1 DEF SlotsInStep
  <1> QED
    BY <1>1, <1>2

LEMMA RanksFinite ==
    ASSUME SlotsInStep, NEW q \in Points, NEW from \in Nat \ {0}, NEW to \in Nat, to <= Len(ids)
    PROVE  IsFiniteSet(Ranks(q, from, to)) /\ Ranks(q, from, to) \subseteq Pairs
  <1>1. PICK f : f = [s \in from..to |-> Candidate(q, s)]
    OBVIOUS
  <1>2. Ranks(q, from, to) = { f[s] : s \in from..to }
    BY <1>1 DEF Ranks
  <1>3. IsFiniteSet(from..to)
    BY FS_Interval
  <1>4. IsFiniteSet({ f[s] : s \in from..to })
    BY <1>3, FiniteImage
  <1>5. ASSUME NEW s \in from..to PROVE Candidate(q, s) \in Pairs
    <2>1. s \in 1..Len(ids)
      BY DEF SlotsInStep
    <2> QED
      BY <2>1, SlotCandidates
  <1>6. Ranks(q, from, to) \subseteq Pairs
    BY <1>5 DEF Ranks
  <1> QED
    BY <1>2, <1>4, <1>6

(* A scan of some slots keeps the nearest k of their candidates. *)
LEMMA ScanIsTop ==
    ASSUME SlotsInStep, NEW q \in Points, NEW k \in Nat,
           NEW from \in Nat \ {0}, NEW to \in Nat, from <= to, to <= Len(ids)
    PROVE  IsTop(ScanRange(q, k, from, to), Ranks(q, from, to), k)
  <1> DEFINE Solves(f) == f = [s \in (from - 1)..to |->
                                 IF s < from THEN {} ELSE Offer(f[s - 1], k, Candidate(q, s))]
             heapAt == CHOOSE f : Solves(f)
  <1>0. \A s \in from..to : s \in 1..Len(ids) /\ Candidate(q, s) \in Pairs
    BY SlotCandidates DEF SlotsInStep
  <1>1. \E f : Solves(f)
    <2>0. PICK n, V, base, step : /\ n = to - from + 1 /\ V = SUBSET Pairs /\ base = {}
                                  /\ step = [p \in (1..n) \X V |-> Offer(p[2], k, Candidate(q, from - 1 + p[1]))]
      OBVIOUS
    <2>1. n \in Nat /\ base \in V
      BY <2>0
    <2>2. step \in [(1..n) \X V -> V]
      <3> SUFFICES ASSUME NEW p \in (1..n) \X V
                   PROVE  Offer(p[2], k, Candidate(q, from - 1 + p[1])) \in V
        BY <2>0
      <3>1. from - 1 + p[1] \in from..to /\ p[2] \in SUBSET Pairs
        BY <2>0
      <3>2. Candidate(q, from - 1 + p[1]) \in Pairs
        BY <1>0, <3>1
      <3> QED
        BY ONLY <2>0, <3>1, <3>2, OfferTyped
    <2>3. PICK it \in [0..n -> V] : Iterates(it, n, base, step)
      BY ONLY <2>1, <2>2, IterationExists
    <2>4. ASSUME NEW i \in 1..n
          PROVE  it[i] = Offer(it[i - 1], k, Candidate(q, from - 1 + i))
      <3>1. it[i] = step[<<i, it[i - 1]>>]
        BY <2>1, <2>3 DEF Iterates
      <3>2. i - 1 \in 0..n
        BY <2>1
      <3>3. <<i, it[i - 1]>> \in (1..n) \X V
        BY <2>3, <3>2
      <3> QED
        BY <2>0, <3>1, <3>3
    <2>5. it[0] = {}
      <3>1. 0 \in 0..n
        BY <2>1
      <3>2. it[0] = base
        BY <2>3, <3>1 DEF Iterates
      <3> QED
        BY <2>0, <3>2
    <2>6. PICK f : f = [s \in (from - 1)..to |-> it[s - from + 1]]
      OBVIOUS
    <2>7. ASSUME NEW s \in (from - 1)..to
          PROVE  f[s] = IF s < from THEN {} ELSE Offer(f[s - 1], k, Candidate(q, s))
      <3>1. CASE s < from
        <4>1. s - from + 1 = 0
          BY <3>1
        <4> QED
          BY <2>5, <2>6, <3>1, <4>1
      <3>2. CASE ~ (s < from)
        <4>1. /\ s - from + 1 \in 1..n /\ (s - from + 1) - 1 = (s - 1) - from + 1
              /\ s - 1 \in (from - 1)..to /\ from - 1 + (s - from + 1) = s
          BY <2>0, <3>2
        <4>2. it[s - from + 1] = Offer(it[(s - 1) - from + 1], k, Candidate(q, s))
          BY <2>4, <4>1
        <4> QED
          BY <2>6, <3>2, <4>1, <4>2
      <3> QED
        BY <3>1, <3>2
    <2>8. Solves(f)
      BY <2>6, <2>7
    <2> QED
      BY <2>8
  <1>2. Solves(heapAt)
    BY <1>1
  <1> DEFINE S == { m \in Nat : from - 1 + m <= to =>
                                  IsTop(heapAt[from - 1 + m], Ranks(q, from, from - 1 + m), k) }
  <1> HIDE DEF heapAt
  <1>3. 0 \in S
    <2>1. heapAt[from - 1] = {} /\ Ranks(q, from, from - 1) = {}
      BY <1>2 DEF Ranks
    <2>2. IsTop({}, {}, k)
      BY FS_EmptySet DEF IsTop
    <2>3. from - 1 + 0 = from - 1
      OBVIOUS
    <2> QED
      BY <2>1, <2>2, <2>3
  <1>4. ASSUME NEW m \in Nat, m \in S
        PROVE  m + 1 \in S
    <2> SUFFICES ASSUME from - 1 + (m + 1) <= to
                 PROVE  IsTop(heapAt[from - 1 + (m + 1)], Ranks(q, from, from - 1 + (m + 1)), k)
      OBVIOUS
    <2>1. PICK s : s = from + m
      OBVIOUS
    <2>2. s \in from..to /\ s - 1 \in Nat /\ s - 1 <= Len(ids) /\ from - 1 + m = s - 1 /\ from - 1 + (m + 1) = s
      BY <2>1 DEF SlotsInStep
    <2>3. IsTop(heapAt[s - 1], Ranks(q, from, s - 1), k)
      BY <1>4, <2>2
    <2>4. heapAt[s] = Offer(heapAt[s - 1], k, Candidate(q, s))
      <3>1. s \in (from - 1)..to /\ ~ (s < from)
        BY <2>2
      <3> QED
        BY ONLY <1>2, <3>1
    <2>5. from..s = (from..(s - 1)) \cup {s}
      BY <2>2
    <2>6. Ranks(q, from, s) = Ranks(q, from, s - 1) \cup {Candidate(q, s)}
      BY <2>5 DEF Ranks
    <2>7. Candidate(q, s) \notin Ranks(q, from, s - 1)
      <3> SUFFICES ASSUME NEW t \in from..(s - 1), Candidate(q, s) = Candidate(q, t)
                   PROVE  FALSE
        BY DEF Ranks
      <3>1. s \in 1..Len(ids) /\ t \in 1..Len(ids) /\ s # t
        BY <1>0, <2>2
      <3> QED
        BY <3>1, SlotCandidates
    <2>8. IsFiniteSet(Ranks(q, from, s - 1)) /\ Ranks(q, from, s - 1) \subseteq Pairs
      BY <2>2, RanksFinite
    <2>9. Candidate(q, s) \in Pairs
      BY <1>0, <2>2
    <2>10. IsTop(Offer(heapAt[s - 1], k, Candidate(q, s)), Ranks(q, from, s - 1) \cup {Candidate(q, s)}, k)
      BY <2>3, <2>7, <2>8, <2>9, OfferKeepsTop
    <2> QED
      BY <2>2, <2>4, <2>6, <2>10
  <1>5. IsTop(heapAt[to], Ranks(q, from, to), k)
    <2>1. to - from + 1 \in Nat /\ from - 1 + (to - from + 1) = to
      OBVIOUS
    <2>2. to - from + 1 \in S
      <3> HIDE DEF S
      <3> QED
        BY <1>3, <1>4, <2>1, AllNaturals
    <2> QED
      BY <2>1, <2>2
  <1>6. ScanRange(q, k, from, to) = heapAt[to]
    BY DEF ScanRange, heapAt
  <1> QED
    BY <1>5, <1>6


(* Multiples of the chunk length. *)
LEMMA Multiples ==
    ASSUME NEW d \in Nat \ {0}
    PROVE  /\ 0 % d = 0
           /\ \A a \in Nat : a % d = 0 => (a + d) % d = 0
           /\ \A a, b \in Nat : a % d = 0 /\ b % d = 0 /\ a <= b /\ b < a + d => a = b
  <1>1. \A a \in Nat : a \div d \in Nat /\ a % d \in 0..(d - 1) /\ a = d * (a \div d) + (a % d)
    OBVIOUS
  <1>2. ASSUME NEW a \in Nat, NEW i \in Nat, a = d * i
        PROVE  a % d = 0
    BY <1>2
  <1>3. ASSUME NEW a \in Nat, a % d = 0
        PROVE  \E i \in Nat : a = d * i
    <2>1. a \div d \in Nat /\ a = d * (a \div d)
      BY <1>1, <1>3
    <2> QED
      BY <2>1
  <1>4. ASSUME NEW a \in Nat, a % d = 0
        PROVE  (a + d) % d = 0
    <2>1. PICK i \in Nat : a = d * i
      BY <1>4, <1>3
    <2>2. a + d = d * (i + 1) /\ i + 1 \in Nat /\ a + d \in Nat
      BY <2>1
    <2> QED
      BY <2>2, <1>2
  <1>5. ASSUME NEW a \in Nat, NEW b \in Nat, a % d = 0, b % d = 0, a <= b, b < a + d
        PROVE  a = b
    <2>1. PICK i \in Nat : a = d * i
      BY ONLY <1>5, <1>3, a \in Nat
    <2>2. PICK j \in Nat : b = d * j
      BY ONLY <1>5, <1>3, b \in Nat
    <2>3. b - a = d * (j - i)
      BY <2>1, <2>2
    <2>4. CASE j - i >= 1
      <3>1. d * (j - i) >= d
        BY <2>4
      <3> QED
        BY <1>5, <2>3, <3>1
    <2>5. CASE j - i <= -1
      <3>1. d * (j - i) <= -d
        BY <2>5
      <3> QED
        BY <1>5, <2>3, <3>1
    <2>6. CASE j = i
      BY <2>1, <2>2, <2>6
    <2> QED
      BY <2>4, <2>5, <2>6
  <1>6. 0 % d = 0
    BY <1>2
  <1> QED
    BY <1>4, <1>5, <1>6


(* Neighbouring runs of slots, one after the other. *)
LEMMA RanksJoin ==
    ASSUME SlotsInStep, NEW q \in Points, NEW m \in Nat, NEW e \in Nat, m <= e, e <= Len(ids)
    PROVE  /\ Ranks(q, 1, m) \cup Ranks(q, m + 1, e) = Ranks(q, 1, e)
           /\ Ranks(q, 1, m) \cap Ranks(q, m + 1, e) = {}
  <1>1. 1..e = (1..m) \cup ((m + 1)..e)
    OBVIOUS
  <1>2. ASSUME NEW s \in 1..m, NEW t \in (m + 1)..e
        PROVE  Candidate(q, s) # Candidate(q, t)
    <2>1. s \in 1..Len(ids) /\ t \in 1..Len(ids) /\ s # t
      BY DEF SlotsInStep
    <2> QED
      BY <2>1, SlotCandidates
  <1> QED
    BY <1>1, <1>2 DEF Ranks

(* A search of some slots, whole or in chunks, keeps the nearest k. *)
LEMMA SearchIsTop ==
    ASSUME SlotsInStep, NEW q \in Points, NEW k \in Nat \ {0}, Len(ids) # 0
    PROVE  IsTop(BFSearch(q, k), Ranks(q, 1, Len(ids)), k)
  <1> DEFINE n == Len(ids)
             chunk == (n + Threads - 1) \div Threads
             Joined(prev, start) == Merged(prev, ScanRange(q, k, start, ChunkEnd(start, chunk, n)), k)
             Value(start, prev) == IF (start - 1) % chunk = 0 THEN Joined(prev, start) ELSE prev
             Solves(f, m) == f = [start \in 0..m |-> IF start = 0 THEN {} ELSE Value(start, f[start - 1])]
             upTo == CHOOSE f : Solves(f, n)
  <1>1. n \in Nat \ {0} /\ Threads \in Nat \ {0}
    BY BruteForceAssumption DEF SlotsInStep
  <1>2. chunk \in Nat \ {0}
    <2>1. PICK a \in Nat : a = n + Threads - 1
      BY <1>1
    <2>2. a >= Threads
      BY <1>1, <2>1
    <2>3. a \div Threads \in Nat /\ a = Threads * (a \div Threads) + (a % Threads) /\ a % Threads < Threads
      BY <1>1, <2>1
    <2>4. a \div Threads # 0
      BY <1>1, <2>2, <2>3
    <2> QED
      BY <2>1, <2>3, <2>4
  <1>3. CASE n < ParallelThreshold
    <2>1. BFSearch(q, k) = ScanRange(q, k, 1, n)
      BY <1>1, <1>3 DEF BFSearch
    <2> QED
      BY <1>1, <2>1, ScanIsTop
  <1>4. CASE ~ (n < ParallelThreshold)
    <2> HIDE DEF Value, chunk, n
    <2>1. \E f : Solves(f, n)
      <3> DEFINE S == { m \in Nat : \E f : Solves(f, m) }
      <3>1. 0 \in S
        <4>1. Solves([start \in 0..0 |-> {}], 0)
          OBVIOUS
        <4> QED
          BY <4>1
      <3>2. ASSUME NEW m \in Nat, m \in S
            PROVE  m + 1 \in S
        <4>1. PICK f : Solves(f, m)
          BY <3>2
        <4> DEFINE more == [start \in 0..(m + 1) |-> IF start = m + 1 THEN Value(start, f[m]) ELSE f[start]]
        <4>2. ASSUME NEW start \in 0..(m + 1)
              PROVE  more[start] = IF start = 0 THEN {} ELSE Value(start, more[start - 1])
          <5>1. CASE start = m + 1
            <6>1. start # 0 /\ start - 1 = m /\ m \in 0..(m + 1) /\ m # m + 1
              BY <5>1
            <6>2. more[m] = f[m]
              BY <6>1
            <6> QED
              BY <5>1, <6>1, <6>2
          <5>2. CASE start \in 0..m
            <6>1. more[start] = f[start] /\ (start # 0 => more[start - 1] = f[start - 1])
              BY <5>2
            <6> QED
              BY <4>1, <5>2, <6>1
          <5> QED
            BY <5>1, <5>2
        <4>3. more = [start \in 0..(m + 1) |-> more[start]]
          OBVIOUS
        <4> HIDE DEF more
        <4>4. more = [start \in 0..(m + 1) |-> IF start = 0 THEN {} ELSE Value(start, more[start - 1])]
          BY ONLY <4>2, <4>3
        <4>5. \E g : Solves(g, m + 1)
          BY ONLY <4>4
        <4> HIDE DEF Solves
        <4> QED
          BY <4>5
      <3> HIDE DEF S
      <3>3. n \in S
        BY <1>1, <3>1, <3>2, AllNaturals
      <3> QED
        BY <3>3 DEF S
    <2>2. Solves(upTo, n)
      BY <2>1
    <2> HIDE DEF upTo
    <2> DEFINE Covers(m, c) == /\ c % chunk = 0 /\ m <= c /\ c < m + chunk
                               /\ IsTop(upTo[m], Ranks(q, 1, IF c < n THEN c ELSE n), k)
               S == { m \in Nat : m <= n => \E c \in Nat : Covers(m, c) }
    <2>3. 0 \in S
      <3>1. upTo[0] = {}
        BY <1>1, <2>2
      <3>2. Ranks(q, 1, 0) = {}
        BY DEF Ranks
      <3>3. IsTop({}, {}, k)
        BY FS_EmptySet DEF IsTop
      <3>4. 0 % chunk = 0
        BY <1>2, Multiples
      <3>5. 0 < 0 + chunk /\ (IF 0 < n THEN 0 ELSE n) = 0
        BY <1>1, <1>2
      <3>6. IsTop(upTo[0], Ranks(q, 1, IF 0 < n THEN 0 ELSE n), k)
        BY <3>1, <3>2, <3>3, <3>5
      <3>7. Covers(0, 0)
        BY <3>4, <3>5, <3>6
      <3> QED
        BY <3>7
    <2>4. ASSUME NEW m \in Nat, m \in S
          PROVE  m + 1 \in S
      <3> SUFFICES ASSUME m + 1 <= n
                   PROVE  \E c \in Nat : Covers(m + 1, c)
        OBVIOUS
      <3>1. PICK c \in Nat : Covers(m, c)
        BY <2>4, <1>1
      <3>2. upTo[m + 1] = Value(m + 1, upTo[m])
        <4>1. m + 1 \in 0..n /\ m + 1 # 0 /\ (m + 1) - 1 = m
          BY <1>1
        <4> QED
          BY <2>2, <4>1
      <3>3. CASE m % chunk = 0
        <4>1. PICK e \in Nat : e = ChunkEnd(m + 1, chunk, n)
          BY <1>1, <1>2 DEF ChunkEnd
        <4>2. m + 1 <= e /\ e <= n /\ e = IF m + chunk < n THEN m + chunk ELSE n
          BY <1>1, <1>2, <4>1 DEF ChunkEnd
        <4>3. c = m
          BY <1>2, <3>1, <3>3, Multiples
        <4>4. IsTop(upTo[m], Ranks(q, 1, m), k)
          BY <1>1, <3>1, <4>3
        <4>5. PICK heap : heap = ScanRange(q, k, m + 1, e)
          OBVIOUS
        <4>6. IsTop(heap, Ranks(q, m + 1, e), k)
          BY <4>2, <4>5, ScanIsTop DEF n
        <4>7. upTo[m + 1] = Merged(upTo[m], heap, k)
          BY <3>2, <3>3, <4>1, <4>5 DEF Value
        <4>8. /\ IsFiniteSet(Ranks(q, 1, m)) /\ Ranks(q, 1, m) \subseteq Pairs
              /\ IsFiniteSet(Ranks(q, m + 1, e)) /\ Ranks(q, m + 1, e) \subseteq Pairs
          <5>1. m <= Len(ids) /\ e <= Len(ids) /\ m + 1 \in Nat \ {0} /\ 1 \in Nat \ {0}
            BY <1>1, <4>2 DEF n
          <5> QED
            BY <5>1, RanksFinite
        <4>9. /\ Ranks(q, 1, m) \cup Ranks(q, m + 1, e) = Ranks(q, 1, e)
              /\ Ranks(q, 1, m) \cap Ranks(q, m + 1, e) = {}
          BY <4>2, RanksJoin DEF n
        <4>10. IsTop(Merged(upTo[m], heap, k), Ranks(q, 1, m) \cup Ranks(q, m + 1, e), k)
          BY <4>4, <4>6, <4>8, <4>9, MergedIsTop
        <4>11. IsTop(upTo[m + 1], Ranks(q, 1, e), k)
          BY <4>7, <4>9, <4>10
        <4>12. (m + chunk) % chunk = 0
          BY <1>2, <3>3, Multiples
        <4>13. m + chunk \in Nat /\ m + 1 <= m + chunk /\ m + chunk < m + 1 + chunk
          BY <1>2
        <4>14. Covers(m + 1, m + chunk)
          BY <4>2, <4>11, <4>12, <4>13
        <4> QED
          BY <4>13, <4>14
      <3>4. CASE m % chunk # 0
        <4>1. c # m
          BY <3>1, <3>4
        <4>2. upTo[m + 1] = upTo[m]
          BY <3>2, <3>4 DEF Value
        <4>3. m + 1 <= c /\ c < m + 1 + chunk
          BY <1>2, <3>1, <4>1
        <4> QED
          BY <3>1, <4>2, <4>3
      <3> QED
        BY <3>3, <3>4
    <2>5. n \in S
      <3> HIDE DEF S
      <3> QED
        BY <1>1, <2>3, <2>4, AllNaturals
    <2>6. PICK c \in Nat : Covers(n, c)
      BY <1>1, <2>5
    <2>7. IsTop(upTo[n], Ranks(q, 1, n), k)
      <3>1. ~ (c < n)
        BY <1>1, <2>6
      <3> QED
        BY <2>6, <3>1
    <2>8. BFSearch(q, k) = upTo[n]
      BY <1>1, <1>4 DEF BFSearch, upTo, Value, chunk, n
    <2> QED
      BY <2>7, <2>8 DEF n
  <1> QED
    BY <1>3, <1>4


(* The candidates of the slots are the records of the map, ranked. *)
LEMMA SlotsAreRecords ==
    ASSUME SlotsInStep, NEW q \in Points, NEW allowed
    PROVE  { Candidate(q, s) : s \in { i \in 1..Len(ids) : ids[i] \in allowed } }
               = { <<Distance(q, Entries[id]), id>> : id \in DOMAIN slot_of \cap allowed }
  <1>1. ASSUME NEW s \in 1..Len(ids), ids[s] \in allowed
        PROVE  /\ ids[s] \in DOMAIN slot_of \cap allowed
               /\ Candidate(q, s) = <<Distance(q, Entries[ids[s]]), ids[s]>>
    <2>1. ids[s] \in DOMAIN slot_of /\ slot_of[ids[s]] = s
      BY DEF SlotsInStep
    <2>2. Entries[ids[s]] = data[s]
      BY <2>1 DEF Entries
    <2> QED
      BY <1>1, <2>1, <2>2 DEF Candidate
  <1>2. ASSUME NEW id \in DOMAIN slot_of \cap allowed
        PROVE  /\ slot_of[id] \in 1..Len(ids) /\ ids[slot_of[id]] = id
               /\ Candidate(q, slot_of[id]) = <<Distance(q, Entries[id]), id>>
    <2>1. slot_of[id] \in 1..Len(ids) /\ ids[slot_of[id]] = id
      BY DEF SlotsInStep
    <2>2. Entries[id] = data[slot_of[id]]
      BY DEF Entries
    <2> QED
      BY <2>1, <2>2 DEF Candidate
  <1> QED
    BY <1>1, <1>2

(* The first part of SearchExact, for any number of results. *)
LEMMA SearchIsTopK ==
    ASSUME SlotsInStep, NEW q \in Points, NEW k \in Nat
    PROVE  BFSearch(q, k) = TopK({ <<Distance(q, Entries[id]), id>> : id \in DOMAIN slot_of }, k)
  <1> DEFINE n == Len(ids)
             ranked == { <<Distance(q, Entries[id]), id>> : id \in DOMAIN slot_of }
  <1>0. n \in Nat
    BY DEF SlotsInStep
  <1>1. ranked = Ranks(q, 1, n)
    <2>1. { i \in 1..n : ids[i] \in DOMAIN slot_of } = 1..n /\ DOMAIN slot_of \cap DOMAIN slot_of = DOMAIN slot_of
      BY DEF SlotsInStep
    <2>2. { Candidate(q, s) : s \in { i \in 1..n : ids[i] \in DOMAIN slot_of } }
              = { <<Distance(q, Entries[id]), id>> : id \in DOMAIN slot_of \cap DOMAIN slot_of }
      BY SlotsAreRecords
    <2> QED
      BY <2>1, <2>2 DEF Ranks
  <1>2. IsFiniteSet(ranked) /\ ranked \subseteq Pairs
    <2>1. 1 \in Nat \ {0} /\ n <= Len(ids)
      BY <1>0
    <2>2. IsFiniteSet(Ranks(q, 1, n)) /\ Ranks(q, 1, n) \subseteq Pairs
      BY <1>0, <2>1, RanksFinite
    <2> HIDE DEF ranked
    <2> QED
      BY <1>1, <2>2
  <1>3. CASE k = 0
    <2>1. ASSUME NEW x \in ranked PROVE ~ (Cardinality({ y \in ranked : Before(y, x) }) < 0)
      <3>1. PICK nearer : nearer = { y \in ranked : Before(y, x) }
        OBVIOUS
      <3>2. IsFiniteSet(nearer)
        BY <1>2, <3>1, FS_Subset
      <3>3. Cardinality(nearer) \in Nat
        BY <3>2, FS_CardinalityType
      <3> QED
        BY <3>1, <3>3
    <2>2. TopK(ranked, 0) = {}
      BY <2>1 DEF TopK
    <2> QED
      BY <1>3, <2>2 DEF BFSearch
  <1>4. CASE n = 0
    <2>1. Ranks(q, 1, 0) = {}
      BY DEF Ranks
    <2>2. TopK(ranked, k) = {}
      BY <1>1, <1>4, <2>1 DEF TopK
    <2> QED
      BY <1>4, <2>2 DEF BFSearch
  <1>5. CASE k # 0 /\ n # 0
    <2>1. IsTop(BFSearch(q, k), ranked, k)
      BY <1>1, <1>5, SearchIsTop
    <2> QED
      BY <1>2, <2>1, TopIsTopK
  <1> QED
    BY <1>3, <1>4, <1>5

(* In every reachable state a search, serial or in chunks on any number of *)
(* threads, answers exactly the k nearest records of the map, ties broken  *)
(* by id, and a filtered search exactly the k nearest of the allowed.      *)
THEOREM SearchesAreExact == BFSpec => []SearchExact
  <1>1. SlotsInStep => SearchExact
    <2> SUFFICES ASSUME SlotsInStep, NEW q \in Points, NEW k \in 0..3
                 PROVE  /\ BFSearch(q, k) = TopK({ <<Distance(q, Entries[id]), id>> : id \in DOMAIN slot_of }, k)
                        /\ \A allowed \in SUBSET Ids :
                               BFSearchFiltered(q, k, allowed)
                                 = TopK({ <<Distance(q, Entries[id]), id>> : id \in DOMAIN slot_of \cap allowed }, k)
      BY DEF SearchExact
    <2>1. k \in Nat
      OBVIOUS
    <2>2. BFSearch(q, k) = TopK({ <<Distance(q, Entries[id]), id>> : id \in DOMAIN slot_of }, k)
      BY <2>1, SearchIsTopK
    <2>3. ASSUME NEW allowed \in SUBSET Ids
          PROVE  BFSearchFiltered(q, k, allowed)
                   = TopK({ <<Distance(q, Entries[id]), id>> : id \in DOMAIN slot_of \cap allowed }, k)
      BY SlotsAreRecords DEF BFSearchFiltered
    <2> QED
      BY <2>2, <2>3
  <1> QED
    BY <1>1, InStep, PTL
=============================================================================

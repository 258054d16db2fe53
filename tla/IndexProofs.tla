---------------------------- MODULE IndexProofs ----------------------------
(***************************************************************************)
(* The structures under the segmented index, proved for any ids, vectors,  *)
(* parameters, histories and drawn levels.  Three parts:                   *)
(*   - folds and candidate sets, which the loops of all of them are;       *)
(*   - the numeric field index: histogram, enumeration, estimate;          *)
(*   - the HNSW graph: layer search, choice of neighbours, insertion,      *)
(*     compaction, and the invariant HnswInv they keep; then what its      *)
(*     searches answer, and those of its frozen quantised copy.            *)
(***************************************************************************)
EXTENDS Indexes, BruteForceProofs

-----------------------------------------------------------------------------
(* Folds over finite sets, and so over sequences, of which W says what     *)
(* they may be once the elements of a set are folded.                      *)

MayBe(W, base, pick, step, D) ==
    /\ base \in W[{}]
    /\ \A s \in SUBSET D : s # {} =>
           \A acc \in W[s \ {pick[s]}] : step[<<s, acc>>] \in W[s]

Made(it, base, pick, step, D) ==
    \A s \in SUBSET D : it[s] = IF s = {} THEN base ELSE step[<<s, it[s \ {pick[s]}]>>]

(* Made, as far as the values are what they may be. *)
MadeWithin(it, W, base, pick, step, D) ==
    \A s \in SUBSET D :
        /\ s = {} => it[s] = base
        /\ s # {} /\ it[s \ {pick[s]}] \in W[s \ {pick[s]}] => it[s] = step[<<s, it[s \ {pick[s]}]>>]

LEMMA Smaller ==
    ASSUME NEW D, IsFiniteSet(D), NEW pick, Picks(pick, D), NEW m \in Nat,
           NEW s \in SUBSET D, s # {}, Cardinality(s) <= m + 1
    PROVE  s \ {pick[s]} \in SUBSET D /\ Cardinality(s \ {pick[s]}) <= m
  <1>1. pick[s] \in s
    BY DEF Picks
  <1>2. IsFiniteSet(s) /\ Cardinality(s) \in Nat
    BY FS_Subset, FS_CardinalityType
  <1>3. Cardinality(s \ {pick[s]}) = Cardinality(s) - 1
    BY ONLY <1>1, <1>2, FS_RemoveElement
  <1> QED
    BY <1>2, <1>3

LEMMA Sizes ==
    ASSUME NEW D, IsFiniteSet(D)
    PROVE  /\ Cardinality(D) \in Nat
           /\ \A s \in SUBSET D : /\ IsFiniteSet(s) /\ Cardinality(s) \in Nat
                                  /\ Cardinality(s) = 0 <=> s = {}
                                  /\ Cardinality(s) <= Cardinality(D)
  BY FS_Subset, FS_CardinalityType, FS_EmptySet

LEMMA FoldStays ==
    ASSUME NEW D, IsFiniteSet(D), NEW W, NEW base, NEW pick, Picks(pick, D), NEW step,
           MayBe(W, base, pick, step, D), NEW it, MadeWithin(it, W, base, pick, step, D)
    PROVE  \A s \in SUBSET D : it[s] \in W[s]
  <1> DEFINE S == { m \in Nat : \A s \in SUBSET D : Cardinality(s) <= m => it[s] \in W[s] }
  <1>1. 0 \in S
    <2>1. \A s \in SUBSET D : Cardinality(s) <= 0 => s = {}
      BY Sizes
    <2>2. it[{}] \in W[{}]
      BY DEF MayBe, MadeWithin
    <2> QED
      BY <2>1, <2>2
  <1>2. ASSUME NEW m \in Nat, m \in S
        PROVE  m + 1 \in S
    <2>1. ASSUME NEW s \in SUBSET D, Cardinality(s) <= m + 1, s # {}
          PROVE  it[s] \in W[s]
      <3>1. s \ {pick[s]} \in SUBSET D /\ Cardinality(s \ {pick[s]}) <= m
        BY ONLY <2>1, Smaller, IsFiniteSet(D), Picks(pick, D), m \in Nat
      <3>2. it[s \ {pick[s]}] \in W[s \ {pick[s]}]
        BY <1>2, <3>1
      <3> QED
        BY <2>1, <3>2 DEF MayBe, MadeWithin
    <2>2. it[{}] \in W[{}]
      BY DEF MayBe, MadeWithin
    <2> QED
      BY <2>1, <2>2
  <1>3. Cardinality(D) \in Nat
    BY Sizes
  <1> HIDE DEF S
  <1>4. Cardinality(D) \in S
    BY <1>1, <1>2, <1>3, AllNaturals
  <1> QED
    BY <1>4, Sizes DEF S

LEMMA FoldMade ==
    ASSUME NEW D, IsFiniteSet(D), NEW W, NEW base, NEW pick, Picks(pick, D), NEW step,
           MayBe(W, base, pick, step, D)
    PROVE  \E it : /\ it = [s \in SUBSET D |-> it[s]]
                   /\ Made(it, base, pick, step, D)
                   /\ \A s \in SUBSET D : it[s] \in W[s]
  <1> DEFINE Small(m) == { s \in SUBSET D : Cardinality(s) <= m }
             Fits(it, m) == \A s \in Small(m) :
                                /\ it[s] = IF s = {} THEN base ELSE step[<<s, it[s \ {pick[s]}]>>]
                                /\ it[s] \in W[s]
             S == { m \in Nat : \E it : it = [s \in Small(m) |-> it[s]] /\ Fits(it, m) }
  <1>1. 0 \in S
    <2>1. \A s \in Small(0) : s = {}
      BY Sizes
    <2> DEFINE it == [s \in Small(0) |-> base]
    <2>2. \A s \in Small(0) : it[s] = base
      OBVIOUS
    <2>3. it = [s \in Small(0) |-> it[s]]
      OBVIOUS
    <2>4. Fits(it, 0)
      BY <2>1, <2>2 DEF MayBe
    <2> HIDE DEF it, Fits
    <2> QED
      BY <2>3, <2>4
  <1>2. ASSUME NEW m \in Nat, m \in S
        PROVE  m + 1 \in S
    <2>1. PICK it : it = [s \in Small(m) |-> it[s]] /\ Fits(it, m)
      BY <1>2
    <2> DEFINE more == [s \in Small(m + 1) |->
                          IF s = {} THEN base ELSE step[<<s, it[s \ {pick[s]}]>>]]
    <2>2. ASSUME NEW s \in Small(m + 1), s # {}
          PROVE  s \ {pick[s]} \in Small(m)
      BY ONLY <2>2, Smaller, IsFiniteSet(D), Picks(pick, D), m \in Nat
    <2>3. \A s \in Small(m) : s \in Small(m + 1)
      BY Sizes
    <2>4. \A s \in Small(m) : more[s] = it[s]
      BY <2>1, <2>3
    <2>5. ASSUME NEW s \in Small(m + 1)
          PROVE  more[s] = IF s = {} THEN base ELSE step[<<s, more[s \ {pick[s]}]>>]
      BY <2>2, <2>4
    <2>6. ASSUME NEW s \in Small(m + 1)
          PROVE  more[s] \in W[s]
      <3>1. CASE s = {}
        BY <3>1 DEF MayBe
      <3>2. CASE s # {}
        <4>1. it[s \ {pick[s]}] \in W[s \ {pick[s]}]
          BY <2>1, <2>2, <3>2
        <4>2. more[s] = step[<<s, it[s \ {pick[s]}]>>]
          BY <3>2
        <4> QED
          BY <3>2, <4>1, <4>2 DEF MayBe
      <3> QED
        BY <3>1, <3>2
    <2>7. more = [s \in Small(m + 1) |-> more[s]]
      OBVIOUS
    <2> HIDE DEF more
    <2>8. Fits(more, m + 1)
      BY <2>5, <2>6
    <2>9. \E f : f = [s \in Small(m + 1) |-> f[s]] /\ Fits(f, m + 1)
      <3> HIDE DEF Fits, Small
      <3> QED
        BY ONLY <2>7, <2>8
    <2>10. m + 1 \in Nat
      OBVIOUS
    <2> HIDE DEF Fits, Small
    <2> QED
      BY <2>9, <2>10
  <1>3. Cardinality(D) \in Nat
    BY Sizes
  <1>4. Small(Cardinality(D)) = SUBSET D
    BY Sizes
  <1>5. Cardinality(D) \in S
    <2> HIDE DEF S
    <2> QED
      BY <1>1, <1>2, <1>3, AllNaturals
  <1>6. PICK it : it = [s \in Small(Cardinality(D)) |-> it[s]] /\ Fits(it, Cardinality(D))
    BY <1>5
  <1>7. it = [s \in SUBSET D |-> it[s]]
    BY <1>4, <1>6
  <1>8. Made(it, base, pick, step, D) /\ \A s \in SUBSET D : it[s] \in W[s]
    BY <1>4, <1>6 DEF Made
  <1> QED
    BY <1>7, <1>8

(* The folds of sequences take the last place first. *)
LEMMA MaxOf ==
    ASSUME NEW n \in Nat, NEW s \in SUBSET (1..n), s # {}
    PROVE  Max(s) \in s /\ \A m \in s : m <= Max(s)
  <1> DEFINE T == { n - m : m \in s }
  <1>1. T \subseteq Nat /\ T # {}
    <2>1. \A m \in 1..n : n - m \in Nat
      OBVIOUS
    <2> QED
      BY <2>1
  <1>2. PICK t \in T : \A u \in T : t <= u
    BY <1>1, LeastOf
  <1>3. PICK x \in s : t = n - x
    BY <1>2
  <1>4. \A m \in s : x >= m
    <2> TAKE m \in s
    <2>1. n - m \in T
      OBVIOUS
    <2>2. n - x <= n - m
      BY <1>2, <1>3, <2>1
    <2> QED
      BY <2>2
  <1>5. \E y \in s : \A m \in s : y >= m
    BY <1>4
  <1>6. Max(s) \in s /\ \A m \in s : Max(s) >= m
    BY <1>5 DEF Max
  <1> QED
    BY <1>6

Places(n) == [s \in SUBSET (1..n) |-> Max(s)]

LEMMA PlacesPick ==
    ASSUME NEW n \in Nat
    PROVE  /\ IsFiniteSet(1..n) /\ Picks(Places(n), 1..n)
           /\ \A s \in SUBSET (1..n) : s # {} =>
                  /\ Places(n)[s] = Max(s) /\ Max(s) \in s /\ Max(s) \in 1..n
                  /\ s \ {Max(s)} \in SUBSET (1..n)
                  /\ \A m \in s \ {Max(s)} : m < Max(s)
  <1>1. \A s \in SUBSET (1..n) : s # {} => Max(s) \in s /\ \A m \in s : m <= Max(s)
    BY MaxOf
  <1>2. \A s \in SUBSET (1..n) : Places(n)[s] = Max(s)
    BY DEF Places
  <1>3. Picks(Places(n), 1..n)
    BY <1>1, <1>2 DEF Picks, Places
  <1>4. IsFiniteSet(1..n)
    BY FS_Interval
  <1>5. ASSUME NEW s \in SUBSET (1..n), s # {}, NEW m \in s \ {Max(s)}
        PROVE  m < Max(s)
    <2>1. m \in 1..n /\ Max(s) \in 1..n /\ m <= Max(s) /\ m # Max(s)
      BY <1>1, <1>5
    <2> QED
      BY ONLY <2>1, n \in Nat
  <1> QED
    BY <1>1, <1>2, <1>3, <1>4, <1>5


-----------------------------------------------------------------------------
(* Candidates: the nearest k of them, and all of them in order. *)

AnyOf(D) == [s \in SUBSET D |-> CHOOSE x \in s : TRUE]

LEMMA AnyPicks ==
    ASSUME NEW D
    PROVE  Picks(AnyOf(D), D)
  BY DEF Picks, AnyOf

LEMMA TopKIsTop ==
    ASSUME NEW cands, IsFiniteSet(cands), cands \subseteq Pairs, NEW k \in Nat
    PROVE  IsTop(TopK(cands, k), cands, k)
  <1> DEFINE W == [s \in SUBSET cands |-> { top \in SUBSET cands : IsTop(top, s, k) }]
             pick == AnyOf(cands)
             step == [p \in (SUBSET cands) \X (SUBSET cands) |-> Offer(p[2], k, pick[p[1]])]
  <1>1. Picks(pick, cands)
    BY AnyPicks
  <1>2. {} \in W[{}]
    BY FS_EmptySet DEF IsTop
  <1>3. ASSUME NEW s \in SUBSET cands, s # {}, NEW acc \in W[s \ {pick[s]}]
        PROVE  step[<<s, acc>>] \in W[s]
    <2>1. PICK x, r : x = pick[s] /\ r = s \ {x}
      OBVIOUS
    <2>2. x \in s /\ r \in SUBSET cands /\ x \notin r /\ r \cup {x} = s
      BY <1>1, <1>3, <2>1 DEF Picks
    <2>3. acc \in SUBSET cands /\ IsTop(acc, r, k)
      BY <2>1, <2>2
    <2>4. IsFiniteSet(r) /\ r \subseteq Pairs /\ x \in Pairs
      BY <2>2, FS_Subset
    <2>5. IsTop(Offer(acc, k, x), s, k)
      BY ONLY <2>2, <2>3, <2>4, OfferKeepsTop, k \in Nat
    <2>6. step[<<s, acc>>] = Offer(acc, k, x)
      BY <2>1, <2>3
    <2>7. Offer(acc, k, x) \in SUBSET cands
      BY <2>2, <2>5 DEF IsTop
    <2> QED
      BY <2>5, <2>6, <2>7
  <1>4. MayBe(W, {}, pick, step, cands)
    BY <1>2, <1>3 DEF MayBe
  <1> HIDE DEF pick, step
  <1>5. PICK it : \A s \in SUBSET cands : it[s] \in W[s]
    BY <1>1, <1>4, FoldMade
  <1>6. IsTop(it[cands], cands, k)
    BY <1>5
  <1> QED
    BY <1>6, TopIsTopK

(* A sequence of all the candidates, nearest first. *)
Sorted(q, cands) ==
    /\ q \in Seq(cands) /\ Len(q) = Cardinality(cands) /\ Range(q) = cands
    /\ \A i, j \in 1..Len(q) : i < j => Before(q[i], q[j])

LEMMA AppendSorted ==
    ASSUME NEW C, IsFiniteSet(C), C \subseteq Pairs, NEW x \in C,
           \A y \in C \ {x} : Before(y, x), NEW q, Sorted(q, C \ {x})
    PROVE  Sorted(Append(q, x), C)
  <1> DEFINE n == Len(q)
             t == Append(q, x)
  <1>1. Cardinality(C \ {x}) = Cardinality(C) - 1 /\ Cardinality(C) \in Nat
    BY FS_RemoveElement, FS_CardinalityType
  <1>2. q \in Seq(C \ {x}) /\ n \in Nat /\ n = Cardinality(C) - 1 /\ DOMAIN q = 1..n
    BY <1>1 DEF Sorted
  <1>3. q \in Seq(C)
    BY <1>2
  <1>4. t \in Seq(C) /\ Len(t) = n + 1 /\ t[n + 1] = x /\ (\A i \in 1..n : t[i] = q[i])
        /\ DOMAIN t = 1..(n + 1)
    BY <1>2, <1>3
  <1>5. \A i \in 1..n : q[i] \in C \ {x}
    BY <1>2
  <1>6. \A y \in C \ {x} : \E i \in 1..n : q[i] = y
    BY <1>2 DEF Sorted, Range
  <1>7. Range(t) = C
    <2>1. Range(t) \subseteq C
      BY <1>4 DEF Range
    <2>2. ASSUME NEW y \in C
          PROVE  y \in Range(t)
      <3>1. \E i \in 1..(n + 1) : t[i] = y
        BY <1>2, <1>4, <1>6
      <3> QED
        BY <1>4, <3>1 DEF Range
    <2> QED
      BY <2>1, <2>2
  <1>8. ASSUME NEW i \in 1..(n + 1), NEW j \in 1..(n + 1), i < j
        PROVE  Before(t[i], t[j])
    <2>1. i \in 1..n /\ t[i] = q[i]
      BY <1>2, <1>4, <1>8
    <2>2. CASE j = n + 1
      BY <1>4, <1>5, <2>1, <2>2
    <2>3. CASE j # n + 1
      <3>1. j \in 1..n /\ t[j] = q[j]
        BY <1>2, <1>4, <2>3
      <3> QED
        BY <1>8, <2>1, <3>1 DEF Sorted
    <2> QED
      BY <2>2, <2>3
  <1> HIDE DEF t
  <1> QED
    <2>1. Len(t) = Cardinality(C)
      BY <1>1, <1>2, <1>4
    <2>2. Sorted(t, C)
      BY <2>1, <1>4, <1>7, <1>8 DEF Sorted
    <2> QED
      BY <2>2 DEF t

LEMMA InOrderSorted ==
    ASSUME NEW cands, IsFiniteSet(cands), cands \subseteq Pairs
    PROVE  Sorted(InOrder(cands), cands)
  <1> DEFINE W == [s \in SUBSET cands |-> { q \in Seq(cands) : Sorted(q, s) }]
             pick == [s \in SUBSET cands |-> Farthest(s)]
             step == [p \in (SUBSET cands) \X Seq(cands) |-> Append(p[2], pick[p[1]])]
  <1>1. ASSUME NEW s \in SUBSET cands, s # {}
        PROVE  /\ pick[s] = Farthest(s) /\ Farthest(s) \in s /\ IsFiniteSet(s) /\ s \subseteq Pairs
               /\ \A y \in s \ {Farthest(s)} : Before(y, Farthest(s))
    BY <1>1, FS_Subset, FarthestOf
  <1>2. Picks(pick, cands)
    BY <1>1 DEF Picks
  <1>3. <<>> \in W[{}]
    BY FS_EmptySet DEF Sorted, Range
  <1>4. ASSUME NEW s \in SUBSET cands, s # {}, NEW q \in W[s \ {pick[s]}]
        PROVE  step[<<s, q>>] \in W[s]
    <2>1. PICK x : x = Farthest(s)
      OBVIOUS
    <2>2. /\ pick[s] = x /\ x \in s /\ IsFiniteSet(s) /\ s \subseteq Pairs
          /\ \A y \in s \ {x} : Before(y, x)
      BY <1>1, <1>4, <2>1
    <2>3. q \in Seq(cands) /\ Sorted(q, s \ {x})
      BY <2>2
    <2>4. Sorted(Append(q, x), s)
      BY ONLY <2>2, <2>3, AppendSorted
    <2>5. step[<<s, q>>] = Append(q, x)
      BY <2>2, <2>3
    <2>6. Append(q, x) \in Seq(cands)
      BY <2>2, <2>3
    <2> QED
      BY <2>4, <2>5, <2>6
  <1>5. MayBe(W, <<>>, pick, step, cands)
    BY <1>3, <1>4 DEF MayBe
  <1> DEFINE Solves(f) == f = [s \in SUBSET cands |->
                                 IF s = {} THEN <<>> ELSE Append(f[s \ {Farthest(s)}], Farthest(s))]
  <1>6. PICK it : /\ it = [s \in SUBSET cands |-> it[s]] /\ Made(it, <<>>, pick, step, cands)
                  /\ \A s \in SUBSET cands : it[s] \in W[s]
    <2> HIDE DEF W, pick, step
    <2> QED
      BY <1>2, <1>5, FoldMade
  <1>7. Solves(it)
    <2>1. ASSUME NEW s \in SUBSET cands
          PROVE  it[s] = IF s = {} THEN <<>> ELSE Append(it[s \ {Farthest(s)}], Farthest(s))
      <3>1. CASE s = {}
        BY <1>6, <3>1 DEF Made
      <3>2. CASE s # {}
        <4>1. it[s] = step[<<s, it[s \ {pick[s]}]>>]
          BY <1>6, <3>2 DEF Made
        <4>2. pick[s] = Farthest(s)
          OBVIOUS
        <4>3. it[s \ {Farthest(s)}] \in Seq(cands)
          BY <1>6
        <4> QED
          BY <3>2, <4>1, <4>2, <4>3
      <3> QED
        BY <3>1, <3>2
    <2> HIDE DEF W, pick, step
    <2> QED
      BY <1>6, <2>1
  <1>8. PICK f : f = CHOOSE g : Solves(g)
    OBVIOUS
  <1>9. Solves(f)
    <2> HIDE DEF Solves
    <2> QED
      BY <1>7, <1>8
  <1>10. MadeWithin(f, W, <<>>, pick, step, cands)
    <2>1. ASSUME NEW s \in SUBSET cands, s # {}, f[s \ {pick[s]}] \in W[s \ {pick[s]}]
          PROVE  f[s] = step[<<s, f[s \ {pick[s]}]>>]
      <3>1. pick[s] = Farthest(s) /\ s \ {pick[s]} \in SUBSET cands
        OBVIOUS
      <3>2. f[s \ {pick[s]}] \in Seq(cands)
        BY <2>1, <3>1
      <3>3. f[s] = Append(f[s \ {Farthest(s)}], Farthest(s))
        BY <1>9, <2>1
      <3> QED
        BY <3>1, <3>2, <3>3
    <2>2. f[{}] = <<>>
      BY <1>9
    <2> HIDE DEF W, pick, step
    <2> QED
      BY <2>1, <2>2 DEF MadeWithin
  <1>11. f[cands] \in W[cands]
    <2> HIDE DEF W, pick, step
    <2> QED
      BY <1>2, <1>5, <1>10, FoldStays
  <1>12. InOrder(cands) = f[cands]
    BY <1>8 DEF InOrder, MapThenFoldSet
  <1> QED
    BY <1>11, <1>12


LEMMA NearestOf ==
    ASSUME NEW C, IsFiniteSet(C), C \subseteq Pairs, C # {}
    PROVE  Nearest(C) \in C /\ \A y \in C \ {Nearest(C)} : Before(Nearest(C), y)
  <1>1. PICK q : q = InOrder(C)
    OBVIOUS
  <1>2. Sorted(q, C)
    BY <1>1, InOrderSorted
  <1>3. Cardinality(C) \in Nat /\ Cardinality(C) # 0
    BY FS_CardinalityType, FS_EmptySet
  <1>4. 1 \in 1..Len(q) /\ DOMAIN q = 1..Len(q) /\ q[1] \in C
    BY <1>2, <1>3 DEF Sorted
  <1>5. \A y \in C \ {q[1]} : Before(q[1], y)
    <2> TAKE y \in C \ {q[1]}
    <2>1. PICK j \in 1..Len(q) : q[j] = y
      BY <1>2, <1>4 DEF Sorted, Range
    <2>2. 1 < j
      BY <2>1
    <2> QED
      BY <1>2, <1>4, <2>1, <2>2 DEF Sorted
  <1>6. \E x \in C : \A y \in C \ {x} : Before(x, y)
    BY <1>4, <1>5
  <1> QED
    BY <1>6 DEF Nearest

-----------------------------------------------------------------------------
(* The indexes side by side: a step of all is a step of each. *)

LEMMA StepsOfScan ==
    ASSUME [Next]_indexVars
    PROVE  [BFNext]_bfVars
  <1>1. CASE UNCHANGED indexVars
    BY <1>1 DEF indexVars
  <1>2. ASSUME NEW id \in Ids, Delete(id)
        PROVE  BFNext
    BY <1>2 DEF Delete, BFNext
  <1>3. ASSUME NEW id \in Ids, NEW v \in VectorsOf[id], Insert(id, v)
        PROVE  BFNext
    <2>1. v \in Points
      BY IndexesAssumption
    <2> QED
      BY <1>3, <2>1 DEF Insert, BFNext
  <1> QED
    BY <1>1, <1>2, <1>3 DEF Next

(* Driven beside the others, the linear-scan index behaves as it does      *)
(* alone, so that what is proved of it holds here.                         *)
LEMMA ScanBeside == Spec => BFSpec
  <1>1. Init => BFInit
    BY DEF Init
  <1>2. [Next]_indexVars => [BFNext]_bfVars
    BY StepsOfScan
  <1> QED
    BY <1>1, <1>2, PTL DEF Spec, BFSpec

-----------------------------------------------------------------------------
(* The numeric index. *)

(* The sorted map holds the field of every record. *)
FieldsHeld == sorted = { <<FieldOf[Entries[id]], id>> : id \in DOMAIN slot_of }

NumericInv ==
    /\ FieldsHeld /\ IsFiniteSet(sorted)
    /\ lo \in Int /\ hi \in Int
    /\ HistogramExact

LEMMA EntriesTyped ==
    ASSUME SlotsInStep
    PROVE  DOMAIN Entries = DOMAIN slot_of /\ \A id \in DOMAIN slot_of : id \in Ids /\ Entries[id] \in Points
  BY DEF SlotsInStep, Entries

(* Keys are numbers, and a record has one. *)
LEMMA SortedPairs ==
    ASSUME SlotsInStep, FieldsHeld
    PROVE  /\ \A p \in sorted : /\ p = <<p[1], p[2]>> /\ p[1] \in Int /\ Number(p[1]) \in Int
                                /\ p[2] \in DOMAIN slot_of /\ p[1] = FieldOf[Entries[p[2]]]
           /\ \A p, r \in sorted : p[2] = r[2] => p = r
  <1>1. \A id \in DOMAIN slot_of : FieldOf[Entries[id]] \in Int
    BY EntriesTyped, IndexesAssumption
  <1>2. ASSUME NEW p \in sorted
        PROVE  /\ p = <<p[1], p[2]>> /\ p[1] \in Int /\ p[2] \in DOMAIN slot_of
               /\ p[1] = FieldOf[Entries[p[2]]]
    <2>1. PICK id \in DOMAIN slot_of : p = <<FieldOf[Entries[id]], id>>
      BY DEF FieldsHeld
    <2> QED
      BY <1>1, <2>1
  <1>3. \A p \in sorted : Number(p[1]) \in Int
    BY <1>2 DEF Number
  <1> QED
    BY <1>2, <1>3

(* One more pair, one more in its bucket. *)
LEMMA RecountedMore ==
    ASSUME NEW S, IsFiniteSet(S), NEW p, p \notin S, NEW from, NEW to
    PROVE  Recounted(S \cup {p}, from, to)
               = [Recounted(S, from, to) EXCEPT ![BucketOf(Number(p[1]), from, to)] = @ + 1]
  <1> DEFINE In(T, b) == { x \in T : BucketOf(Number(x[1]), from, to) = b }
  <1>1. ASSUME NEW b
        PROVE  /\ Cardinality(In(S \cup {p}, b))
                      = IF b = BucketOf(Number(p[1]), from, to)
                          THEN Cardinality(In(S, b)) + 1 ELSE Cardinality(In(S, b))
    <2>1. IsFiniteSet(In(S, b)) /\ p \notin In(S, b)
      BY FS_Subset
    <2>2. CASE b = BucketOf(Number(p[1]), from, to)
      <3>1. In(S \cup {p}, b) = In(S, b) \cup {p}
        BY <2>2
      <3>2. PICK T : T = In(S, b) /\ T \cup {p} = In(S \cup {p}, b)
        BY <3>1
      <3> HIDE DEF In
      <3>3. IsFiniteSet(T) /\ p \notin T
        BY <2>1, <3>2
      <3>4. Cardinality(T \cup {p}) = Cardinality(T) + 1
        BY ONLY <3>3, FS_AddElement
      <3> QED
        BY ONLY <2>2, <3>2, <3>4
    <2>3. CASE b # BucketOf(Number(p[1]), from, to)
      <3>1. In(S \cup {p}, b) = In(S, b)
        BY <2>3
      <3> HIDE DEF In
      <3> QED
        BY <2>3, <3>1
    <2> QED
      BY <2>2, <2>3
  <1>2. \A T : Recounted(T, from, to) = [b \in 0..(Buckets - 1) |-> Cardinality(In(T, b))]
    BY DEF Recounted
  <1> HIDE DEF In
  <1>3. PICK c, new, old : /\ c = BucketOf(Number(p[1]), from, to)
                           /\ new = [b \in 0..(Buckets - 1) |-> Cardinality(In(S \cup {p}, b))]
                           /\ old = [b \in 0..(Buckets - 1) |-> Cardinality(In(S, b))]
    OBVIOUS
  <1>4. new = [old EXCEPT ![c] = @ + 1]
    BY <1>1, <1>3
  <1> QED
    BY <1>2, <1>3, <1>4

(* One pair less, one less in its bucket, which was not empty. *)
LEMMA RecountedLess ==
    ASSUME NEW S, IsFiniteSet(S), NEW p \in S, NEW from, NEW to
    PROVE  Recounted(S \ {p}, from, to)
               = [b \in 0..(Buckets - 1) |->
                    IF b = BucketOf(Number(p[1]), from, to)
                      THEN Greater(Recounted(S, from, to)[b] - 1, 0) ELSE Recounted(S, from, to)[b]]
  <1> DEFINE In(T, b) == { x \in T : BucketOf(Number(x[1]), from, to) = b }
  <1>1. ASSUME NEW b
        PROVE  /\ Cardinality(In(S \ {p}, b))
                      = IF b = BucketOf(Number(p[1]), from, to)
                          THEN Greater(Cardinality(In(S, b)) - 1, 0) ELSE Cardinality(In(S, b))
    <2>1. IsFiniteSet(In(S, b)) /\ Cardinality(In(S, b)) \in Nat
      BY FS_Subset, FS_CardinalityType
    <2>2. CASE b = BucketOf(Number(p[1]), from, to)
      <3>1. In(S \ {p}, b) = In(S, b) \ {p} /\ p \in In(S, b)
        BY <2>2
      <3> HIDE DEF In
      <3>2. /\ Cardinality(In(S, b) \ {p}) = Cardinality(In(S, b)) - 1
            /\ Cardinality(In(S, b) \ {p}) \in Nat
        BY <2>1, <3>1, FS_RemoveElement, FS_CardinalityType
      <3>3. Cardinality(In(S, b) \ {p}) = Greater(Cardinality(In(S, b)) - 1, 0)
        BY <2>1, <3>2 DEF Greater
      <3> QED
        BY <2>2, <3>1, <3>3
    <2>3. CASE b # BucketOf(Number(p[1]), from, to)
      <3>1. In(S \ {p}, b) = In(S, b)
        BY <2>3
      <3> QED
        BY <2>3, <3>1
    <2> QED
      BY <2>2, <2>3
  <1>2. \A T : Recounted(T, from, to) = [b \in 0..(Buckets - 1) |-> Cardinality(In(T, b))]
    BY DEF Recounted
  <1> HIDE DEF In
  <1>3. PICK c, new, old : /\ c = BucketOf(Number(p[1]), from, to)
                           /\ new = [b \in 0..(Buckets - 1) |-> Cardinality(In(S \ {p}, b))]
                           /\ old = [b \in 0..(Buckets - 1) |-> Cardinality(In(S, b))]
    OBVIOUS
  <1>4. new = [b \in 0..(Buckets - 1) |-> IF b = c THEN Greater(old[b] - 1, 0) ELSE old[b]]
    BY <1>1, <1>3
  <1>5. new = Recounted(S \ {p}, from, to) /\ old = Recounted(S, from, to)
    BY <1>2, <1>3
  <1> QED
    BY <1>3, <1>4, <1>5

LEMMA NumericInserted ==
    ASSUME NumericInv, SlotsInStep, NEW key \in Int, NEW id, id \notin DOMAIN slot_of,
           NumericInsert(key, id)
    PROVE  /\ IsFiniteSet(sorted') /\ lo' \in Int /\ hi' \in Int /\ HistogramExact'
           /\ sorted' = sorted \cup {<<key, id>>}
  <1>1. PICK p, v : p = <<key, id>> /\ v = Number(key)
    OBVIOUS
  <1>2. v \in Int /\ v = Number(p[1]) /\ p \notin sorted
    BY <1>1, SortedPairs DEF Number, NumericInv
  <1>3. /\ sorted' = sorted \cup {p} /\ total' = total + 1
        /\ IF v < lo \/ v > hi
             THEN /\ lo' = Lesser(lo, v - Margin(v)) /\ hi' = Greater(hi, v + Margin(v))
                  /\ hist' = Recounted(sorted', lo', hi')
             ELSE /\ hist' = [hist EXCEPT ![BucketOf(v, lo, hi)] = @ + 1]
                  /\ lo' = lo /\ hi' = hi
    BY <1>1 DEF NumericInsert
  <1>4. IsFiniteSet(sorted') /\ total' = Cardinality(sorted')
    <2>1. IsFiniteSet(sorted) /\ total = Cardinality(sorted)
      BY DEF NumericInv, HistogramExact
    <2> QED
      BY <1>2, <1>3, <2>1, FS_AddElement
  <1>5. Margin(v) \in Int /\ Margin(v) >= 0
    <2>1. lo \in Int /\ hi \in Int
      BY DEF NumericInv
    <2>2. Magnitude(v) \in Int
      BY <1>2 DEF Magnitude, Greater
    <2>3. Greater(Magnitude(v), Unit) \in Nat
      BY <2>2 DEF Greater, Unit
    <2>4. Greater(Magnitude(v), Unit) \div 800 \in Nat
      BY <2>3
    <2>5. (hi - lo) \div 8 \in Int
      BY <2>1
    <2> QED
      BY <2>4, <2>5 DEF Margin, Greater
  <1>6. lo' \in Int /\ hi' \in Int /\ lo' <= lo /\ hi <= hi' /\ lo' <= v /\ v <= hi'
    <2>1. lo \in Int /\ hi \in Int
      BY DEF NumericInv
    <2> QED
      BY <1>2, <1>3, <1>5, <2>1 DEF Lesser, Greater
  <1>7. \A x \in sorted' : lo' <= Number(x[1]) /\ Number(x[1]) <= hi'
    <2>1. lo \in Int /\ hi \in Int /\ FieldsHeld
      BY DEF NumericInv
    <2>2. \A x \in sorted : Number(x[1]) \in Int /\ lo <= Number(x[1]) /\ Number(x[1]) <= hi
      BY <2>1, SortedPairs DEF NumericInv, HistogramExact
    <2>3. \A x \in sorted : lo' <= Number(x[1]) /\ Number(x[1]) <= hi'
      BY <1>6, <2>1, <2>2
    <2> QED
      BY <1>2, <1>3, <1>6, <2>3
  <1>8. hist' = Recounted(sorted', lo', hi')
    <2>1. CASE v < lo \/ v > hi
      BY <1>3, <2>1
    <2>2. CASE ~(v < lo \/ v > hi)
      <3>1. hist = Recounted(sorted, lo, hi) /\ IsFiniteSet(sorted)
        BY DEF NumericInv, HistogramExact
      <3> QED
        BY <1>2, <1>3, <2>2, <3>1, RecountedMore
    <2> QED
      BY <2>1, <2>2
  <1> QED
    BY <1>1, <1>3, <1>4, <1>6, <1>7, <1>8 DEF HistogramExact

LEMMA NumericRemoved ==
    ASSUME NumericInv, SlotsInStep, NEW key, NEW id, <<key, id>> \in sorted, NumericRemove(key, id)
    PROVE  /\ IsFiniteSet(sorted') /\ lo' \in Int /\ hi' \in Int /\ HistogramExact'
           /\ sorted' = sorted \ {<<key, id>>}
  <1>1. PICK p : p = <<key, id>>
    OBVIOUS
  <1>2. /\ sorted' = sorted \ {p} /\ total' = total - 1 /\ lo' = lo /\ hi' = hi /\ p \in sorted
        /\ hist' = [hist EXCEPT ![BucketOf(Number(p[1]), lo, hi)] = Greater(@ - 1, 0)]
    BY <1>1 DEF NumericRemove
  <1>3. IsFiniteSet(sorted) /\ total = Cardinality(sorted) /\ hist = Recounted(sorted, lo, hi)
        /\ lo \in Int /\ hi \in Int /\ \A x \in sorted : lo <= Number(x[1]) /\ Number(x[1]) <= hi
    BY DEF NumericInv, HistogramExact
  <1>4. IsFiniteSet(sorted') /\ total' = Cardinality(sorted')
    BY <1>2, <1>3, FS_RemoveElement
  <1>5. hist' = Recounted(sorted', lo', hi')
    <2>1. PICK old, c : old = Recounted(sorted, lo, hi) /\ c = BucketOf(Number(p[1]), lo, hi)
      OBVIOUS
    <2>2. Recounted(sorted \ {p}, lo, hi)
              = [b \in 0..(Buckets - 1) |-> IF b = c THEN Greater(old[b] - 1, 0) ELSE old[b]]
      BY <1>2, <1>3, <2>1, RecountedLess
    <2>3. DOMAIN old = 0..(Buckets - 1) /\ hist = old /\ old = [b \in 0..(Buckets - 1) |-> old[b]]
      BY <1>3, <2>1 DEF Recounted
    <2>4. hist' = [hist EXCEPT ![c] = Greater(hist[c] - 1, 0)]
      BY <1>2, <2>1
    <2>5. hist' = Recounted(sorted \ {p}, lo, hi)
      BY <2>2, <2>3, <2>4
    <2> QED
      BY <1>2, <2>5
  <1> QED
    BY <1>1, <1>2, <1>3, <1>4, <1>5 DEF HistogramExact

LEMMA NumericStep ==
    ASSUME NumericInv, SlotsInStep, [Next]_indexVars
    PROVE  NumericInv'
  <1>1. CASE UNCHANGED indexVars
    BY <1>1 DEF indexVars, bfVars, numericVars, NumericInv, FieldsHeld, HistogramExact, Entries
  <1>2. ASSUME NEW id \in Ids, Delete(id)
        PROVE  NumericInv'
    <2>1. BFDelete(id)
      BY <1>2 DEF Delete
    <2>2. CASE id \notin DOMAIN slot_of
      <3>1. UNCHANGED Entries /\ UNCHANGED slot_of
        BY <2>1, <2>2 DEF BFDelete, bfVars, Entries
      <3>2. UNCHANGED numericVars
        BY <1>2, <2>2 DEF Delete
      <3> QED
        BY <3>1, <3>2 DEF numericVars, NumericInv, FieldsHeld, HistogramExact
    <2>3. CASE id \in DOMAIN slot_of
      <3>1. Map!MapDelete(id)
        BY <2>1, <2>3, DeleteImplements
      <3>2. DOMAIN Entries' = DOMAIN Entries \ {id} /\ \A x \in DOMAIN Entries' : Entries'[x] = Entries[x]
        BY <3>1 DEF Map!MapDelete, Map!MapPresent
      <3>3. DOMAIN Entries = DOMAIN slot_of /\ DOMAIN Entries' = DOMAIN slot_of'
        BY DEF Entries
      <3>4. PICK key : key = FieldOf[Entries[id]]
        OBVIOUS
      <3>5. <<key, id>> \in sorted /\ NumericRemove(key, id)
        BY <1>2, <2>3, <3>4 DEF Delete, NumericInv, FieldsHeld
      <3>6. /\ IsFiniteSet(sorted') /\ lo' \in Int /\ hi' \in Int /\ HistogramExact'
            /\ sorted' = sorted \ {<<key, id>>}
        BY <3>5, NumericRemoved
      <3>7. FieldsHeld'
        BY <3>2, <3>3, <3>4, <3>6 DEF FieldsHeld, NumericInv
      <3> QED
        BY <3>6, <3>7 DEF NumericInv
    <2> QED
      BY <2>2, <2>3
  <1>3. ASSUME NEW id \in Ids, NEW v \in VectorsOf[id], Insert(id, v)
        PROVE  NumericInv'
    <2>1. v \in Points /\ BFInsert(id, v)
      BY <1>3, IndexesAssumption DEF Insert
    <2>2. CASE id \in DOMAIN slot_of
      <3>1. UNCHANGED Entries /\ UNCHANGED slot_of
        BY <2>1, <2>2 DEF BFInsert, bfVars, Entries
      <3>2. UNCHANGED numericVars
        BY <1>3, <2>2 DEF Insert
      <3> QED
        BY <3>1, <3>2 DEF numericVars, NumericInv, FieldsHeld, HistogramExact
    <2>3. CASE id \notin DOMAIN slot_of
      <3>1. Map!MapInsert(id, v)
        BY <2>1, <2>3, InsertImplements
      <3>2. /\ DOMAIN Entries' = DOMAIN Entries \cup {id} /\ Entries'[id] = v
            /\ \A x \in DOMAIN Entries : x # id => Entries'[x] = Entries[x]
        BY <3>1 DEF Map!MapInsert, Map!MapPresent
      <3>3. DOMAIN Entries = DOMAIN slot_of /\ DOMAIN Entries' = DOMAIN slot_of'
        BY DEF Entries
      <3>4. PICK key \in Int : key = FieldOf[v]
        BY <2>1, IndexesAssumption
      <3>5. NumericInsert(key, id)
        BY <1>3, <2>3, <3>4 DEF Insert
      <3>6. /\ IsFiniteSet(sorted') /\ lo' \in Int /\ hi' \in Int /\ HistogramExact'
            /\ sorted' = sorted \cup {<<key, id>>}
        BY <2>3, <3>5, NumericInserted
      <3>7. FieldsHeld'
        BY <2>3, <3>2, <3>3, <3>4, <3>6 DEF FieldsHeld, NumericInv
      <3> QED
        BY <3>6, <3>7 DEF NumericInv
    <2> QED
      BY <2>2, <2>3
  <1> QED
    BY <1>1, <1>2, <1>3 DEF Next

LEMMA NumericHolds == Spec => []NumericInv
  <1>1. Init => NumericInv
    <2> SUFFICES ASSUME Init
                 PROVE  NumericInv
      OBVIOUS
    <2>1. sorted = {} /\ total = 0 /\ lo \in Int /\ hi \in Int /\ DOMAIN slot_of = {}
      BY DEF Init, BFInit, NumericInit, Infinity
    <2>2. hist = [b \in 0..(Buckets - 1) |-> 0]
      BY DEF Init, NumericInit
    <2>3. IsFiniteSet(sorted) /\ Cardinality({}) = 0
      BY <2>1, FS_EmptySet
    <2>4. hist = Recounted(sorted, lo, hi)
      <3>1. \A b : { p \in sorted : BucketOf(Number(p[1]), lo, hi) = b } = {}
        BY <2>1
      <3> QED
        BY <2>2, <2>3, <3>1 DEF Recounted
    <2> QED
      BY <2>1, <2>3, <2>4 DEF NumericInv, FieldsHeld, HistogramExact
  <1> QED
    BY <1>1, NumericStep, ScanBeside, InStep, PTL DEF Spec

(* In every reachable state the counts of the histogram are those of the   *)
(* sorted map, and no value lies outside its range.                        *)
THEOREM HistogramStaysExact == Spec => []HistogramExact
  <1>1. NumericInv => HistogramExact
    BY DEF NumericInv
  <1> QED
    BY <1>1, NumericHolds, PTL


-----------------------------------------------------------------------------
(* The records in a range. *)

LEMMA ZeroBounds ==
    ASSUME NEW r \in Int \X Int, ZeroSafe(r), NEW key \in Int
    PROVE  /\ r[1] <= key <=> Number(r[1]) <= Number(key)
           /\ key <= r[2] <=> Number(key) <= Number(r[2])
  BY DEF ZeroSafe, Number

(* An enumeration answers exactly the records the predicate matches, for   *)
(* every range whose zero ends take both zeros in, and is refused exactly  *)
(* when they are more than the limit.                                      *)
THEOREM EnumerationsAreExact == Spec => []EnumerateExact
  <1>1. SlotsInStep /\ NumericInv => EnumerateExact
    <2> SUFFICES ASSUME SlotsInStep, NumericInv, NEW r \in Ranges, ZeroSafe(r)
                 PROVE  /\ EnumerateAll(r[1], r[2]) = Matching(r[1], r[2])
                        /\ \A limit \in 0..2 :
                               EnumerateUpTo(r[1], r[2], limit) =
                                   IF Cardinality(Matching(r[1], r[2])) <= limit
                                     THEN Matching(r[1], r[2]) ELSE TooMany
      BY DEF EnumerateExact
    <2>1. r \in Int \X Int
      BY NumericAssumption DEF Ranges
    <2>2. \A p \in sorted : p[1] \in Int
      BY SortedPairs DEF NumericInv
    <2>3. \A p \in sorted : r[1] <= p[1] /\ p[1] <= r[2]
                              <=> Number(r[1]) <= Number(p[1]) /\ Number(p[1]) <= Number(r[2])
      BY <2>1, <2>2, ZeroBounds
    <2>4. EnumerateAll(r[1], r[2]) = Matching(r[1], r[2])
      BY <2>3 DEF EnumerateAll, Matching
    <2>5. Cardinality(Matching(r[1], r[2])) \in Nat
      <3>1. PICK P : P = { q \in sorted : Number(r[1]) <= Number(q[1]) /\ Number(q[1]) <= Number(r[2]) }
        OBVIOUS
      <3>2. IsFiniteSet(P)
        BY <3>1, FS_Subset DEF NumericInv
      <3>3. PICK second : second = [p \in P |-> p[2]]
        OBVIOUS
      <3>4. Matching(r[1], r[2]) = { second[p] : p \in P }
        BY <3>1, <3>3 DEF Matching
      <3> QED
        BY <3>2, <3>4, FiniteImage, FS_CardinalityType
    <2>6. ASSUME NEW limit \in 0..2
          PROVE  EnumerateUpTo(r[1], r[2], limit) =
                     IF Cardinality(Matching(r[1], r[2])) <= limit
                       THEN Matching(r[1], r[2]) ELSE TooMany
      BY <2>4, <2>5 DEF EnumerateUpTo
    <2> QED
      BY <2>4, <2>6
  <1> QED
    BY <1>1, NumericHolds, ScanBeside, InStep, PTL

(* Division by the width of the range keeps the order. *)
LEMMA QuotientOrder ==
    ASSUME NEW d \in Nat \ {0}, NEW a \in Nat, NEW b \in Nat, a <= b
    PROVE  a \div d \in Nat /\ a \div d <= b \div d
  <1>1. PICK x, y : x = a \div d /\ y = b \div d
    OBVIOUS
  <1>2. /\ x \in Nat /\ a % d \in 0..(d - 1) /\ a = d * x + (a % d)
        /\ y \in Nat /\ b % d \in 0..(d - 1) /\ b = d * y + (b % d)
    BY <1>1
  <1>3. CASE y + 1 <= x
    <2>1. PICK z \in Nat : x = y + 1 + z
      BY <1>2, <1>3
    <2>2. d * x = d * y + d + d * z
      BY <1>2, <2>1
    <2>3. d * z \in Nat /\ d * y \in Nat
      BY <1>2
    <2> QED
      BY <1>2, <2>2, <2>3
  <1> QED
    BY <1>1, <1>2, <1>3

(* A greater value is not in a lower bucket. *)
LEMMA BucketsInOrder ==
    ASSUME NEW from \in Int, NEW to \in Int, NEW v \in Int, NEW w \in Int, from <= v, v <= w
    PROVE  /\ BucketOf(v, from, to) \in 0..(Buckets - 1)
           /\ BucketOf(v, from, to) <= BucketOf(w, from, to)
  <1>1. Buckets \in Nat \ {0}
    BY NumericAssumption
  <1>2. CASE to <= from
    BY <1>1, <1>2 DEF BucketOf
  <1>3. CASE ~(to <= from)
    <2>1. PICK d \in Nat \ {0}, x \in Nat, y \in Nat : d = to - from /\ x = v - from /\ y = w - from
      BY <1>3
    <2>2. PICK a, b : a = x * Buckets /\ b = y * Buckets
      OBVIOUS
    <2>3. PICK z \in Nat : y = x + z
      BY <2>1
    <2>4. b = a + z * Buckets /\ z * Buckets \in Nat /\ a \in Nat
      BY <1>1, <2>1, <2>2, <2>3
    <2>5. b \in Nat /\ a <= b
      BY <2>4
    <2>6. a \div d \in Nat /\ a \div d <= b \div d /\ b \div d \in Nat
      BY ONLY <2>1, <2>4, <2>5, d \in Nat \ {0}, QuotientOrder
    <2>7. BucketOf(v, from, to) = Lesser(a \div d, Buckets - 1)
      BY <1>3, <2>1, <2>2 DEF BucketOf
    <2>8. BucketOf(w, from, to) = Lesser(b \div d, Buckets - 1)
      BY <1>3, <2>1, <2>2 DEF BucketOf
    <2>9. PICK i \in Nat, j \in Nat : i = a \div d /\ j = b \div d
      BY <2>6
    <2>10. i <= j
      BY <2>6, <2>9
    <2> QED
      BY <1>1, <2>7, <2>8, <2>9, <2>10 DEF Lesser
  <1> QED
    BY <1>2, <1>3


Some(s) == CHOOSE x \in s : TRUE

(* The sum of the counts of some buckets is the number of pairs in them. *)
LEMMA BucketSum ==
    ASSUME NEW S, IsFiniteSet(S), NEW from, NEW to, NEW B \in SUBSET (0..(Buckets - 1)),
           hist = Recounted(S, from, to)
    PROVE  Counted(B) = Cardinality({ p \in S : BucketOf(Number(p[1]), from, to) \in B })
  <1> DEFINE Of(s) == { p \in S : BucketOf(Number(p[1]), from, to) \in s }
             In(b) == { p \in S : BucketOf(Number(p[1]), from, to) = b }
             W == [s \in SUBSET B |-> {Cardinality(Of(s))}]
             Op(acc, s) == hist[Some(s)] + acc
  <1>1. /\ IsFiniteSet(B) /\ Picks(AnyOf(B), B)
        /\ \A s \in SUBSET B : s # {} =>
               /\ s \ {Some(s)} \in SUBSET B /\ AnyOf(B)[s] = Some(s)
               /\ Some(s) \in B /\ Some(s) \in s
    <2>1. IsFiniteSet(0..(Buckets - 1))
      BY NumericAssumption, FS_Interval
    <2>2. IsFiniteSet(B)
      BY <2>1, FS_Subset
    <2>3. \A s \in SUBSET B : s # {} => AnyOf(B)[s] = Some(s) /\ Some(s) \in s
      BY DEF AnyOf, Some
    <2> QED
      BY <2>2, <2>3, AnyPicks
  <1>2. 0 \in W[{}]
    <2>1. Of({}) = {}
      OBVIOUS
    <2> QED
      BY <2>1, FS_EmptySet
  <1>3. ASSUME NEW s \in SUBSET B, s # {}, NEW acc \in W[s \ {Some(s)}]
        PROVE  Op(acc, s) \in W[s]
    <2>1. PICK k, r : k \in B /\ k = Some(s) /\ r = s \ {k}
      BY <1>1, <1>3
    <2>2. k \in s /\ r \in SUBSET B /\ k \notin r /\ s = r \cup {k}
      BY <1>1, <1>3, <2>1
    <2>3. acc = Cardinality(Of(r))
      BY <2>1, <2>2
    <2>4. IsFiniteSet(Of(r)) /\ IsFiniteSet(In(k)) /\ Cardinality(Of(r)) \in Nat /\ Cardinality(In(k)) \in Nat
      BY FS_Subset, FS_CardinalityType
    <2>5. Of(s) = Of(r) \cup In(k) /\ Of(r) \cap In(k) = {}
      BY <2>2
    <2>6. hist[k] = Cardinality(In(k))
      <3>1. k \in 0..(Buckets - 1)
        BY <2>1
      <3>2. hist = [b \in 0..(Buckets - 1) |-> Cardinality(In(b))]
        BY DEF Recounted
      <3> HIDE DEF In
      <3> QED
        BY <3>1, <3>2
    <2> HIDE DEF Of, In
    <2>7. Cardinality(Of(s)) = Cardinality(Of(r)) + Cardinality(In(k)) - Cardinality({})
      BY ONLY <2>4, <2>5, FS_Union
    <2>8. Cardinality(Of(s)) = hist[k] + acc
      BY ONLY <2>3, <2>4, <2>6, <2>7, FS_EmptySet
    <2> QED
      BY <2>1, <2>8
  <1>4. \A s \in SUBSET B : s # {} => \A acc \in W[s \ {Some(s)}] : Op(acc, s) \in W[s]
    BY <1>3
  <1> DEFINE pick == AnyOf(B)
             All == UNION { W[s] : s \in SUBSET B }
             step == [p \in (SUBSET B) \X All |-> Op(p[2], p[1])]
             Solves(f) == f = [s \in SUBSET B |-> IF s = {} THEN 0 ELSE Op(f[s \ {Some(s)}], s)]
  <1>5. /\ IsFiniteSet(B) /\ Picks(pick, B)
         /\ \A s \in SUBSET B : s # {} => s \ {Some(s)} \in SUBSET B /\ pick[s] = Some(s)
    BY <1>1
  <1> HIDE DEF Op, W, pick
  <1>6. ASSUME NEW s \in SUBSET B, s # {}, NEW acc \in W[s \ {Some(s)}]
         PROVE  step[<<s, acc>>] = Op(acc, s) /\ Op(acc, s) \in W[s]
    <2>1. acc \in All
      BY <1>5, <1>6
    <2>2. step[<<s, acc>>] = Op(acc, s)
      BY <2>1
    <2> QED
      BY <1>4, <1>6, <2>2
  <1> HIDE DEF step
  <1>7. MayBe(W, 0, pick, step, B)
    BY <1>2, <1>5, <1>6 DEF MayBe
  <1>8. PICK it : /\ it = [s \in SUBSET B |-> it[s]] /\ Made(it, 0, pick, step, B)
                   /\ \A s \in SUBSET B : it[s] \in W[s]
    BY <1>5, <1>7, FoldMade
  <1>9. Solves(it)
    <2>1. ASSUME NEW s \in SUBSET B
          PROVE  it[s] = IF s = {} THEN 0 ELSE Op(it[s \ {Some(s)}], s)
      BY <1>5, <1>6, <1>8 DEF Made
    <2> QED
      BY <1>8, <2>1
  <1>10. PICK f : f = CHOOSE e : Solves(e)
    OBVIOUS
  <1>11. Solves(f)
    <2> HIDE DEF Solves
    <2> QED
      BY <1>9, <1>10
  <1>12. MadeWithin(f, W, 0, pick, step, B)
    <2>1. ASSUME NEW s \in SUBSET B, s # {}, f[s \ {pick[s]}] \in W[s \ {pick[s]}]
          PROVE  f[s] = step[<<s, f[s \ {pick[s]}]>>]
      <3>1. f[s] = Op(f[s \ {Some(s)}], s)
        BY <1>11, <2>1
      <3> HIDE DEF Solves
      <3> QED
        BY <1>5, <1>6, <2>1, <3>1
    <2>2. f[{}] = 0
      BY <1>11
    <2> QED
      BY <2>1, <2>2 DEF MadeWithin
  <1>13. f[B] \in W[B]
    BY <1>5, <1>7, <1>12, FoldStays
  <1> USE DEF Op
  <1>14. Counted(B) = f[B]
    BY <1>10 DEF FoldLeft, MapThenFoldSet, MapThenSumSet, Counted, Some
  <1> QED
    BY <1>13, <1>14 DEF W


LEMMA MatchesCounted ==
    ASSUME SlotsInStep, NumericInv, NEW low, NEW high
    PROVE  LET P == { p \in sorted : Number(low) <= Number(p[1]) /\ Number(p[1]) <= Number(high) }
           IN  IsFiniteSet(P) /\ Cardinality(P) \in Nat /\ Cardinality(Matching(low, high)) = Cardinality(P)
  <1>1. PICK P : P = { p \in sorted : Number(low) <= Number(p[1]) /\ Number(p[1]) <= Number(high) }
    OBVIOUS
  <1>2. P \subseteq sorted /\ IsFiniteSet(sorted)
    BY <1>1 DEF NumericInv
  <1>3. IsFiniteSet(P) /\ Cardinality(P) \in Nat
    BY <1>2, FS_Subset, FS_CardinalityType
  <1>4. PICK second, T : T = Matching(low, high) /\ second = [p \in P |-> p[2]]
    OBVIOUS
  <1>5. T = { second[p] : p \in P }
    BY <1>1, <1>4 DEF Matching
  <1>6. \A p, r \in P : second[p] = second[r] => p = r
    BY <1>2, <1>4, SortedPairs DEF NumericInv
  <1>7. second \in Bijection(P, T)
    <2>1. second \in [P -> T] /\ \A t \in T : \E p \in P : second[p] = t
      BY <1>4, <1>5
    <2> QED
      BY ONLY <1>6, <2>1 DEF Bijection, Injection, Surjection, IsInjective
  <1>8. ExistsBijection(P, T)
    BY <1>7 DEF ExistsBijection
  <1>9. Cardinality(T) = Cardinality(P)
    BY <1>3, <1>8, FS_Bijection
  <1> QED
    BY <1>1, <1>3, <1>4, <1>9

LEMMA Bracketed ==
    ASSUME SlotsInStep, NumericInv, NEW r \in Ranges
    PROVE  LET interval == Estimate(Number(r[1]), Number(r[2]))
               matches == Cardinality(Matching(r[1], r[2]))
           IN  interval[1] <= matches /\ matches <= interval[2]
  <1>0. Number(r[1]) \in Int /\ Number(r[2]) \in Int /\ Number(r[1]) <= Number(r[2])
    <2>1. r[1] \in Int /\ r[2] \in Int
      BY NumericAssumption DEF Ranges
    <2>2. Number(r[1]) <= Number(r[2])
      BY DEF Ranges
    <2> QED
      BY <2>1, <2>2 DEF Number
  <1>1. PICK qlo \in Int, qhi \in Int : qlo = Number(r[1]) /\ qhi = Number(r[2]) /\ qlo <= qhi
    BY <1>0
  <1>2. PICK P : P = { p \in sorted : qlo <= Number(p[1]) /\ Number(p[1]) <= qhi }
    OBVIOUS
  <1>3. PICK matches : matches = Cardinality(Matching(r[1], r[2]))
    OBVIOUS
  <1>4. IsFiniteSet(P) /\ matches = Cardinality(P) /\ matches \in Nat
    BY <1>1, <1>2, <1>3, MatchesCounted
  <1>5. /\ IsFiniteSet(sorted) /\ lo \in Int /\ hi \in Int /\ total = Cardinality(sorted)
        /\ hist = Recounted(sorted, lo, hi)
        /\ \A p \in sorted : Number(p[1]) \in Int /\ lo <= Number(p[1]) /\ Number(p[1]) <= hi
    BY SortedPairs DEF NumericInv, HistogramExact
  <1> DEFINE first == BucketOf(Greater(qlo, lo), lo, hi)
             last == BucketOf(Lesser(qhi, hi), lo, hi)
             inner == Counted((first + 1)..(last - 1))
             nothing == total = 0 \/ qhi < lo \/ qlo > hi
             In(s) == { p \in sorted : BucketOf(Number(p[1]), lo, hi) \in s }
  <1>6. Estimate(Number(r[1]), Number(r[2]))
            = IF nothing THEN <<0, 0>>
              ELSE IF first = last THEN <<0, hist[first]>> ELSE <<inner, inner + hist[first] + hist[last]>>
    BY <1>1 DEF Estimate
  <1>7. CASE nothing
    <2>1. P = {}
      <3>1. CASE total = 0
        BY <1>2, <1>5, <3>1, FS_EmptySet
      <3>2. CASE qhi < lo \/ qlo > hi
        BY <1>1, <1>2, <1>5, <3>2
      <3> QED
        BY <1>7, <3>1, <3>2
    <2>2. matches = 0
      BY <1>4, <2>1, FS_EmptySet
    <2> QED
      BY <1>3, <1>6, <1>7, <2>2
  <1>8. CASE ~nothing
    <2>1. lo <= hi
      <3>1. sorted # {}
        BY <1>5, <1>8, FS_EmptySet
      <3> QED
        BY <1>5, <3>1
    <2>2. PICK from \in Int, to \in Int : from = Greater(qlo, lo) /\ to = Lesser(qhi, hi)
      BY <1>1, <1>5 DEF Greater, Lesser
    <2>3. lo <= from /\ from <= to /\ qlo <= from /\ to <= qhi
      BY <1>1, <1>5, <1>8, <2>1, <2>2 DEF Greater, Lesser
    <2>4. \A v \in Int : qlo <= v /\ v <= qhi /\ lo <= v /\ v <= hi <=> from <= v /\ v <= to
      BY <1>1, <1>5, <2>2 DEF Greater, Lesser
    <2>a. PICK at : at = [v \in Int |-> BucketOf(v, lo, hi)]
      OBVIOUS
    <2>b. \A v \in Int : BucketOf(v, lo, hi) = at[v]
      BY <2>a
    <2>c. ASSUME NEW v \in Int, NEW w \in Int, lo <= v, v <= w
          PROVE  at[v] \in 0..(Buckets - 1) /\ at[v] <= at[w]
      <3>1. lo \in Int /\ hi \in Int /\ lo <= hi
        BY <1>5, <2>1
      <3>2. /\ BucketOf(v, lo, hi) \in 0..(Buckets - 1)
            /\ BucketOf(v, lo, hi) <= BucketOf(w, lo, hi)
        BY ONLY <3>1, <2>c, BucketsInOrder
      <3> QED
        BY <2>b, <3>2
    <2>d. first = at[from] /\ last = at[to]
      BY <2>b, <2>2
    <2>e. Buckets \in Nat \ {0} /\ \A v \in Int : lo <= v => at[v] \in Int
      BY <2>c, NumericAssumption
    <2>5. first \in 0..(Buckets - 1) /\ last \in 0..(Buckets - 1) /\ first <= last
      <3> HIDE DEF first, last
      <3> QED
        BY <1>5, <2>2, <2>3, <2>c, <2>d
    <2>6. \A p \in P : first <= BucketOf(Number(p[1]), lo, hi) /\ BucketOf(Number(p[1]), lo, hi) <= last
                       /\ BucketOf(Number(p[1]), lo, hi) \in 0..(Buckets - 1)
      <3> SUFFICES ASSUME NEW p \in P
                   PROVE  first <= BucketOf(Number(p[1]), lo, hi) /\ BucketOf(Number(p[1]), lo, hi) <= last
                          /\ BucketOf(Number(p[1]), lo, hi) \in 0..(Buckets - 1)
        OBVIOUS
      <3>1. PICK v \in Int : v = Number(p[1]) /\ lo <= v /\ from <= v /\ v <= to
        BY <1>2, <1>5, <2>4
      <3>2. BucketOf(Number(p[1]), lo, hi) = at[v]
        BY <2>b, <3>1
      <3> HIDE DEF first, last
      <3> QED
        BY <1>5, <2>2, <2>3, <2>c, <2>d, <3>1, <3>2
    <2>7. \A p \in sorted : BucketOf(Number(p[1]), lo, hi) \in (first + 1)..(last - 1) => p \in P
      <3> SUFFICES ASSUME NEW p \in sorted, p \notin P
                   PROVE  BucketOf(Number(p[1]), lo, hi) \notin (first + 1)..(last - 1)
        OBVIOUS
      <3>1. PICK v \in Int : v = Number(p[1]) /\ lo <= v /\ v <= hi
        BY <1>5
      <3>2. v <= from \/ to <= v
        BY <1>2, <2>4, <3>1
      <3>3. BucketOf(Number(p[1]), lo, hi) = at[v]
        BY <2>b, <3>1
      <3> HIDE DEF first, last
      <3>4. at[v] \in Int /\ (at[v] <= first \/ last <= at[v])
        BY <1>5, <2>2, <2>3, <2>c, <2>d, <2>e, <3>1, <3>2
      <3> QED
        BY <2>5, <2>e, <3>3, <3>4
    <2>8. \A b \in 0..(Buckets - 1) : hist[b] = Cardinality(In({b}))
      BY <1>5 DEF Recounted
    <2>9. \A s : IsFiniteSet(In(s)) /\ Cardinality(In(s)) \in Nat
      BY <1>5, FS_Subset, FS_CardinalityType
    <2>10. CASE first = last
      <3>1. P \subseteq In({first})
        BY <1>2, <2>5, <2>6, <2>10
      <3>2. hist[first] = Cardinality(In({first})) /\ IsFiniteSet(In({first}))
        BY <2>5, <2>8, <2>9
      <3> HIDE DEF In, first
      <3>3. matches <= hist[first]
        BY <1>4, <3>1, <3>2, FS_Subset
      <3> USE DEF first
      <3> QED
        BY <1>3, <1>4, <1>6, <1>8, <2>10, <3>3
    <2>11. CASE first # last
      <3>1. inner = Cardinality(In((first + 1)..(last - 1)))
        <4>1. PICK i, j, B : i = first /\ j = last /\ B = (i + 1)..(j - 1)
          BY <2>5
        <4>2. B \in SUBSET (0..(Buckets - 1))
          <5> HIDE DEF first, last
          <5> QED
            BY <2>5, <2>e, <4>1
        <4>3. Counted(B) = Cardinality(In(B))
          BY <1>5, <4>2, BucketSum
        <4> QED
          BY <4>1, <4>3
      <3>2. PICK Mid, A, B : Mid = In((first + 1)..(last - 1)) /\ A = In({first}) /\ B = In({last})
        OBVIOUS
      <3>3. Mid \subseteq P /\ P \subseteq (Mid \cup A) \cup B
        <4>1. Mid \subseteq P
          BY <2>7, <3>2
        <4>2. ASSUME NEW p \in P
              PROVE  p \in Mid \/ p \in A \/ p \in B
          BY <1>2, <2>5, <2>6, <3>2
        <4> QED
          BY <4>1, <4>2
      <3> HIDE DEF In, first, last, inner
      <3>4. /\ IsFiniteSet(Mid) /\ IsFiniteSet(A) /\ IsFiniteSet(B) /\ inner = Cardinality(Mid)
            /\ hist[first] = Cardinality(A) /\ hist[last] = Cardinality(B)
        BY <2>5, <2>8, <2>9, <3>1, <3>2
      <3>5. PICK x \in Nat, y \in Nat, z \in Nat : x = Cardinality(Mid) /\ y = Cardinality(A) /\ z = Cardinality(B)
        BY <3>4, FS_CardinalityType
      <3>6. x <= matches
        BY <1>4, <3>3, <3>5, FS_Subset
      <3>7. IsFiniteSet(Mid \cup A) /\ Cardinality(Mid \cup A) <= x + y /\ Cardinality(Mid \cup A) \in Nat
        <4>1. Cardinality(Mid \cap A) \in Nat
          BY <3>4, FS_Intersection, FS_CardinalityType
        <4>2. IsFiniteSet(Mid \cup A) /\ Cardinality(Mid \cup A) = x + y - Cardinality(Mid \cap A)
          BY <3>4, <3>5, FS_Union
        <4>3. Cardinality(Mid \cup A) \in Nat
          BY <4>2, FS_CardinalityType
        <4> QED
          BY <3>5, <4>1, <4>2, <4>3
      <3>8. IsFiniteSet((Mid \cup A) \cup B) /\ Cardinality((Mid \cup A) \cup B) <= x + y + z
            /\ Cardinality((Mid \cup A) \cup B) \in Nat
        <4>1. PICK C : C = Mid \cup A
          OBVIOUS
        <4>2. Cardinality(C \cap B) \in Nat
          BY <3>4, FS_Intersection, FS_CardinalityType
        <4>3. IsFiniteSet(C \cup B) /\ Cardinality(C \cup B) = Cardinality(C) + z - Cardinality(C \cap B)
          BY <3>4, <3>5, <3>7, <4>1, FS_Union
        <4>4. Cardinality(C \cup B) \in Nat
          BY <4>3, FS_CardinalityType
        <4> QED
          BY <3>5, <3>7, <4>1, <4>2, <4>3, <4>4
      <3>9. matches <= x + y + z
        <4>1. Cardinality(P) <= Cardinality((Mid \cup A) \cup B)
          BY <3>3, <3>8, FS_Subset
        <4> QED
          BY <1>4, <3>5, <3>8, <4>1
      <3>10. Estimate(Number(r[1]), Number(r[2])) = <<x, x + y + z>>
        BY <1>6, <1>8, <2>11, <3>4, <3>5
      <3> QED
        BY <1>3, <3>6, <3>9, <3>10
    <2> QED
      BY <2>10, <2>11
  <1> QED
    BY <1>7, <1>8

(* In every reachable state the bounds of an estimate bracket the number   *)
(* of records in the range.                                                *)
THEOREM EstimatesBracket == Spec => []EstimateBrackets
  <1>1. SlotsInStep /\ NumericInv => EstimateBrackets
    BY Bracketed DEF EstimateBrackets
  <1> QED
    BY <1>1, NumericHolds, ScanBeside, InStep, PTL

-----------------------------------------------------------------------------
(* The search of one layer stays among the slots R, if the links of the    *)
(* layer lead from R to R.                                                 *)

Closed(g, level, R) ==
    /\ Len(g.ids) \in Nat /\ R \subseteq 1..Len(g.ids)
    /\ \A s \in R : g.links[s][level] \in Seq(R)

Cands(dist, R) == { <<dist[s], s>> : s \in R }

Measured(dist, R) == \A s \in R : dist[s] \in Int

(* What a search may have met and still have to do: `hit` says whether     *)
(* there is a result, m bounds the turns of the loop that are left.        *)
Met(dist, R, admissible, hit, m) ==
    { st \in [visited : SUBSET R, frontier : SUBSET Cands(dist, R),
              results : SUBSET Cands(dist, R \cap admissible)] :
        /\ hit => st.results # {}
        /\ Cardinality(st.frontier) + Cardinality(R \ st.visited) <= m }

LEMMA CandsFinite ==
    ASSUME NEW R, IsFiniteSet(R), R \subseteq Int, NEW dist, Measured(dist, R)
    PROVE  /\ IsFiniteSet(Cands(dist, R)) /\ Cands(dist, R) \subseteq Pairs
           /\ \A S \in SUBSET R : Cands(dist, S) \subseteq Cands(dist, R)
           /\ \A C \in SUBSET Cands(dist, R) :
                  IsFiniteSet(C) /\ Cardinality(C) \in Nat /\ C \subseteq Pairs
           /\ \A S \in SUBSET R : IsFiniteSet(S) /\ Cardinality(S) \in Nat
           /\ \A c \in Cands(dist, R) : c[2] \in R /\ c = <<dist[c[2]], c[2]>>
  <1> DEFINE f == [s \in R |-> <<dist[s], s>>]
  <1>1. Cands(dist, R) = { f[s] : s \in R }
    BY DEF Cands
  <1>2. IsFiniteSet({ f[s] : s \in R })
    <2> HIDE DEF f
    <2> QED
      BY FiniteImage
  <1>3. Cands(dist, R) \subseteq Pairs
    BY DEF Cands, Pairs, Measured
  <1>4. \A S \in SUBSET R : Cands(dist, S) \subseteq Cands(dist, R)
    BY DEF Cands
  <1>5. \A c \in Cands(dist, R) : c[2] \in R /\ c = <<dist[c[2]], c[2]>>
    BY DEF Cands
  <1> QED
    BY <1>1, <1>2, <1>3, <1>4, <1>5, FS_Subset, FS_CardinalityType

LEMMA MeetKeeps ==
    ASSUME NEW R, IsFiniteSet(R), R \subseteq Int, NEW dist, Measured(dist, R),
           NEW admissible, NEW hit \in BOOLEAN, NEW ef \in Nat \ {0}, NEW m \in Int,
           NEW st \in Met(dist, R, admissible, hit, m), NEW nb \in R
    PROVE  Meet(dist, admissible, ef, st, nb) \in Met(dist, R, admissible, hit, m)
  <1> DEFINE c == <<dist[nb], nb>>
             within == Cardinality(st.results) < ef \/ c[1] < Farthest(st.results)[1]
             more == st.results \cup {c}
             frontier1 == IF within THEN st.frontier \cup {c} ELSE st.frontier
             results1 == IF ~within \/ nb \notin admissible THEN st.results
                         ELSE IF Cardinality(more) > ef THEN more \ {Farthest(more)} ELSE more
             new == [visited |-> st.visited \cup {nb}, frontier |-> frontier1, results |-> results1]
  <1>1. CASE nb \in st.visited
    BY <1>1 DEF Meet
  <1>2. CASE nb \notin st.visited
    <2>1. /\ st.visited \in SUBSET R /\ st.frontier \in SUBSET Cands(dist, R)
          /\ st.results \in SUBSET Cands(dist, R \cap admissible)
          /\ hit => st.results # {}
          /\ Cardinality(st.frontier) + Cardinality(R \ st.visited) <= m
      BY DEF Met
    <2>2. c \in Cands(dist, R) /\ (nb \in admissible => c \in Cands(dist, R \cap admissible))
      BY DEF Cands
    <2>3. frontier1 \in SUBSET Cands(dist, R)
      BY <2>1, <2>2
    <2>4. results1 \in SUBSET Cands(dist, R \cap admissible)
      BY <2>1, <2>2
    <2>5. hit => results1 # {}
      <3>1. CASE within /\ nb \in admissible /\ Cardinality(more) > ef
        <4>1. more \in SUBSET Cands(dist, R) /\ IsFiniteSet(more) /\ more \subseteq Pairs /\ more # {}
              /\ Cardinality(more) \in Nat
          <5>1. Cands(dist, R \cap admissible) \subseteq Cands(dist, R)
            BY CandsFinite
          <5>2. more \in SUBSET Cands(dist, R)
            BY <2>1, <2>2, <5>1
          <5> HIDE DEF more
          <5>3. IsFiniteSet(more) /\ Cardinality(more) \in Nat /\ more \subseteq Pairs
            BY <5>2, CandsFinite
          <5> QED
            BY <5>2, <5>3 DEF more
        <4> HIDE DEF more
        <4>2. Cardinality(more \ {Farthest(more)}) = Cardinality(more) - 1
          BY <4>1, FarthestOf, FS_RemoveElement
        <4>3. Cardinality(more \ {Farthest(more)}) # 0
          BY <3>1, <4>1, <4>2
        <4>4. more \ {Farthest(more)} # {}
          BY <4>3, FS_EmptySet
        <4> QED
          BY <3>1, <4>4
      <3>2. CASE ~(within /\ nb \in admissible /\ Cardinality(more) > ef)
        BY <3>2, <2>1
      <3> QED
        BY <3>1, <3>2
    <2>6. Cardinality(frontier1) <= Cardinality(st.frontier) + 1
          /\ Cardinality(frontier1) \in Nat /\ Cardinality(st.frontier) \in Nat
      <3>1. IsFiniteSet(st.frontier) /\ Cardinality(st.frontier) \in Nat
        BY <2>1, CandsFinite
      <3>2. /\ IsFiniteSet(st.frontier \cup {c})
            /\ Cardinality(st.frontier \cup {c}) = Cardinality(st.frontier)
               \/ Cardinality(st.frontier \cup {c}) = Cardinality(st.frontier) + 1
        BY <3>1, FS_AddElement
      <3> HIDE DEF c, within
      <3> QED
        BY <3>1, <3>2
    <2>7. Cardinality(R \ (st.visited \cup {nb})) = Cardinality(R \ st.visited) - 1
          /\ Cardinality(R \ st.visited) \in Nat
      <3>1. IsFiniteSet(R \ st.visited) /\ Cardinality(R \ st.visited) \in Nat
        BY FS_Subset, FS_CardinalityType
      <3>2. R \ (st.visited \cup {nb}) = (R \ st.visited) \ {nb} /\ nb \in R \ st.visited
        BY <1>2
      <3>3. Cardinality((R \ st.visited) \ {nb}) = Cardinality(R \ st.visited) - 1
        BY ONLY <3>1, <3>2, FS_RemoveElement
      <3> QED
        BY <3>1, <3>2, <3>3
    <2>8. Cardinality(frontier1) + Cardinality(R \ (st.visited \cup {nb})) <= m
      <3> HIDE DEF frontier1
      <3> QED
        BY ONLY <2>1, <2>6, <2>7, m \in Int
    <2>9. Meet(dist, admissible, ef, st, nb) = new
      BY <1>2 DEF Meet
    <2>10. st.visited \cup {nb} \in SUBSET R
      BY <2>1
    <2> HIDE DEF frontier1, results1
    <2>11. new \in Met(dist, R, admissible, hit, m)
      BY ONLY <2>3, <2>4, <2>5, <2>8, <2>10 DEF Met
    <2> QED
      BY <2>9, <2>11
  <1> QED
    BY <1>1, <1>2


LEMMA ExpandedKeeps ==
    ASSUME NEW g, NEW level, NEW R, IsFiniteSet(R), R \subseteq Int, Closed(g, level, R),
           NEW dist, Measured(dist, R), NEW admissible, NEW hit \in BOOLEAN,
           NEW ef \in Nat \ {0}, NEW m \in Int,
           NEW st \in Met(dist, R, admissible, hit, m), st.frontier # {}
    PROVE  Expanded(g, dist, admissible, ef, level, st) \in Met(dist, R, admissible, hit, m - 1)
  <1>0. PICK V : V = Met(dist, R, admissible, hit, m - 1)
    OBVIOUS
  <1>1. PICK cur : cur = Nearest(st.frontier)
    OBVIOUS
  <1>2. st.frontier \in SUBSET Cands(dist, R) /\ IsFiniteSet(st.frontier) /\ st.frontier \subseteq Pairs
        /\ Cardinality(st.frontier) \in Nat
    BY CandsFinite DEF Met
  <1>3. cur \in st.frontier /\ cur[2] \in R
    BY <1>1, <1>2, NearestOf, CandsFinite
  <1>4. PICK seq : seq = g.links[cur[2]][level]
    OBVIOUS
  <1>5. seq \in Seq(R)
    BY <1>3, <1>4 DEF Closed
  <1>6. PICK n \in Nat : n = Len(seq) /\ DOMAIN seq = 1..n /\ \A i \in 1..n : seq[i] \in R
    BY <1>5
  <1>7. PICK base : base = [st EXCEPT !.frontier = @ \ {cur}]
    OBVIOUS
  <1>8. base \in V
    <2>1. Cardinality(st.frontier \ {cur}) = Cardinality(st.frontier) - 1
      BY <1>2, <1>3, FS_RemoveElement
    <2>2. /\ st.visited \in SUBSET R /\ st.results \in SUBSET Cands(dist, R \cap admissible)
          /\ hit => st.results # {}
          /\ Cardinality(st.frontier) + Cardinality(R \ st.visited) <= m
      BY DEF Met
    <2>3. Cardinality(R \ st.visited) \in Nat
      BY FS_Subset, FS_CardinalityType
    <2>4. Cardinality(st.frontier \ {cur}) + Cardinality(R \ st.visited) <= m - 1
      BY ONLY <1>2, <2>1, <2>2, <2>3, m \in Int
    <2>5. base = [visited |-> st.visited, frontier |-> st.frontier \ {cur}, results |-> st.results]
      BY <1>7 DEF Met
    <2> QED
      BY <1>0, <1>2, <2>2, <2>4, <2>5 DEF Met
  <1>9. ASSUME NEW acc \in V, NEW x \in R
        PROVE  Meet(dist, admissible, ef, acc, x) \in V
    <2>1. PICK j \in Int : j = m - 1
      OBVIOUS
    <2>2. acc \in Met(dist, R, admissible, hit, j) /\ V = Met(dist, R, admissible, hit, j)
      BY <1>0, <2>1
    <2> QED
      BY <2>2, MeetKeeps
  <1> DEFINE D == 1..n
             W == [s \in SUBSET D |-> V]
             Op(acc, s) == Meet(dist, admissible, ef, acc, seq[Max(s)])
  <1>10. /\ IsFiniteSet(D) /\ Picks(Places(n), D)
         /\ \A s \in SUBSET D : s # {} => s \ {Max(s)} \in SUBSET D /\ Places(n)[s] = Max(s) /\ Max(s) \in D
    BY PlacesPick
  <1>11. base \in W[{}]
    BY <1>8
  <1>12. \A s \in SUBSET D : s # {} => \A acc \in W[s \ {Max(s)}] : Op(acc, s) \in W[s]
    BY <1>6, <1>9, <1>10
  <1> DEFINE pick == Places(n)
             All == UNION { W[s] : s \in SUBSET D }
             step == [p \in (SUBSET D) \X All |-> Op(p[2], p[1])]
             Solves(f) == f = [s \in SUBSET D |-> IF s = {} THEN base ELSE Op(f[s \ {Max(s)}], s)]
  <1>13. /\ IsFiniteSet(D) /\ Picks(pick, D)
         /\ \A s \in SUBSET D : s # {} => s \ {Max(s)} \in SUBSET D /\ pick[s] = Max(s)
    BY <1>10
  <1> HIDE DEF Op, W, D, pick
  <1>14. ASSUME NEW s \in SUBSET D, s # {}, NEW acc \in W[s \ {Max(s)}]
         PROVE  step[<<s, acc>>] = Op(acc, s) /\ Op(acc, s) \in W[s]
    <2>1. acc \in All
      BY <1>13, <1>14
    <2>2. step[<<s, acc>>] = Op(acc, s)
      BY <2>1
    <2> QED
      BY <1>12, <1>14, <2>2
  <1> HIDE DEF step
  <1>15. MayBe(W, base, pick, step, D)
    BY <1>11, <1>13, <1>14 DEF MayBe
  <1>16. PICK it : /\ it = [s \in SUBSET D |-> it[s]] /\ Made(it, base, pick, step, D)
                   /\ \A s \in SUBSET D : it[s] \in W[s]
    BY <1>13, <1>15, FoldMade
  <1>17. Solves(it)
    <2>1. ASSUME NEW s \in SUBSET D
          PROVE  it[s] = IF s = {} THEN base ELSE Op(it[s \ {Max(s)}], s)
      BY <1>13, <1>14, <1>16 DEF Made
    <2> QED
      BY <1>16, <2>1
  <1>18. PICK f : f = CHOOSE h : Solves(h)
    OBVIOUS
  <1>19. Solves(f)
    <2> HIDE DEF Solves
    <2> QED
      BY <1>17, <1>18
  <1>20. MadeWithin(f, W, base, pick, step, D)
    <2>1. ASSUME NEW s \in SUBSET D, s # {}, f[s \ {pick[s]}] \in W[s \ {pick[s]}]
          PROVE  f[s] = step[<<s, f[s \ {pick[s]}]>>]
      <3>1. f[s] = Op(f[s \ {Max(s)}], s)
        BY <1>19, <2>1
      <3> HIDE DEF Solves
      <3> QED
        BY <1>13, <1>14, <2>1, <3>1
    <2>2. f[{}] = base
      BY <1>19
    <2> QED
      BY <2>1, <2>2 DEF MadeWithin
  <1>21. f[D] \in W[D]
    BY <1>13, <1>15, <1>20, FoldStays
  <1> USE DEF D, Op
  <1>22. FoldLeft(LAMBDA acc, nb : Meet(dist, admissible, ef, acc, nb), base, seq) = f[D]
    BY <1>6, <1>18 DEF FoldLeft, MapThenFoldSet
  <1>23. f[D] \in V
    BY <1>21 DEF W
  <1>24. Expanded(g, dist, admissible, ef, level, st)
             = FoldLeft(LAMBDA acc, nb : Meet(dist, admissible, ef, acc, nb), base, seq)
    BY <1>1, <1>4, <1>7 DEF Expanded
  <1> QED
    BY <1>0, <1>22, <1>23, <1>24


LEMMA MetMore ==
    ASSUME NEW dist, NEW R, NEW admissible, NEW hit, NEW m \in Int, NEW k \in Int, m <= k,
           IsFiniteSet(R), R \subseteq Int, Measured(dist, R),
           NEW st \in Met(dist, R, admissible, hit, m)
    PROVE  st \in Met(dist, R, admissible, hit, k)
  <1>1. Cardinality(st.frontier) \in Nat /\ Cardinality(R \ st.visited) \in Nat
    <2>1. st.frontier \in SUBSET Cands(dist, R)
      BY DEF Met
    <2>2. Cardinality(st.frontier) \in Nat
      BY <2>1, CandsFinite
    <2>3. R \ st.visited \in SUBSET R
      OBVIOUS
    <2>4. Cardinality(R \ st.visited) \in Nat
      BY <2>3, CandsFinite
    <2> QED
      BY <2>2, <2>4
  <1>2. Cardinality(st.frontier) + Cardinality(R \ st.visited) <= m
    BY DEF Met
  <1>3. Cardinality(st.frontier) + Cardinality(R \ st.visited) <= k
    BY ONLY <1>1, <1>2, m \in Int, k \in Int, m <= k
  <1> QED
    BY <1>3 DEF Met

(* The loop ends before its turns do. *)
LEMMA ExploreEnds ==
    ASSUME NEW g, NEW level, NEW R, IsFiniteSet(R), R \subseteq Int, Closed(g, level, R),
           NEW dist, Measured(dist, R), NEW admissible, NEW hit \in BOOLEAN,
           NEW ef \in Nat \ {0}, NEW budget,
           NEW start \in Met(dist, R, admissible, hit, Cardinality(R))
    PROVE  /\ Explore(g, dist, admissible, ef, level, budget, start)
                  \in Met(dist, R, admissible, hit, Cardinality(R))
           /\ Finished(Explore(g, dist, admissible, ef, level, budget, start), ef, budget)
  <1>1. PICK N \in Nat : N = Len(g.ids)
    BY DEF Closed
  <1>2. PICK k \in Nat : k = Cardinality(R)
    BY FS_CardinalityType
  <1>3. k <= N
    <2>1. IsFiniteSet(1..N) /\ Cardinality(1..N) = IF 1 > N THEN 0 ELSE N - 1 + 1
      BY FS_Interval
    <2>2. Cardinality(1..N) = N
      BY <2>1
    <2>3. R \in SUBSET (1..N)
      BY <1>1 DEF Closed
    <2> QED
      BY ONLY <1>2, <2>1, <2>2, <2>3, FS_Subset
  <1> DEFINE V(m) == Met(dist, R, admissible, hit, m)
             Next1(st) == Expanded(g, dist, admissible, ef, level, st)
             Over(st) == Finished(st, ef, budget)
             Turn(st) == IF Over(st) THEN st ELSE Next1(st)
             step == [p \in (1..N) \X V(k) |-> Turn(p[2])]
             Solves(f) == f = [n \in 0..N |-> IF n = 0 THEN start ELSE Turn(f[n - 1])]
  <1>4. ASSUME NEW m \in Int, NEW st \in V(m), ~Over(st)
        PROVE  Next1(st) \in V(m - 1)
    <2>1. st.frontier # {}
      BY <1>4 DEF Finished
    <2> QED
      BY <1>4, <2>1, ExpandedKeeps
  <1>5. ASSUME NEW m \in Int, NEW st \in V(m), m <= k
        PROVE  st \in V(k)
    <2>1. st \in Met(dist, R, admissible, hit, m) /\ k \in Int
      BY <1>5
    <2>2. st \in Met(dist, R, admissible, hit, k)
      BY ONLY <2>1, <1>5, MetMore, IsFiniteSet(R), R \subseteq Int, Measured(dist, R)
    <2> QED
      BY <2>2
  <1>6. ASSUME NEW st \in V(k)
        PROVE  Turn(st) \in V(k)
    <2>1. CASE Over(st)
      <3> HIDE DEF V, Next1, Over
      <3> QED
        BY <2>1
    <2>2. CASE ~Over(st)
      <3>1. k \in Int /\ k - 1 \in Int /\ k - 1 <= k
        OBVIOUS
      <3> HIDE DEF V, Next1, Over
      <3>2. Next1(st) \in V(k - 1)
        BY <2>2, <3>1, <1>4
      <3>3. Next1(st) \in V(k)
        BY <3>1, <3>2, <1>5
      <3> QED
        BY <2>2, <3>3
    <2> QED
      BY <2>1, <2>2
  <1>7. start \in V(k)
    BY <1>2
  <1> HIDE DEF V, Next1, Over, Turn
  <1>8. step \in [(1..N) \X V(k) -> V(k)]
    BY <1>6
  <1> HIDE DEF step
  <1>9. PICK it \in [0..N -> V(k)] : Iterates(it, N, start, step)
    BY <1>7, <1>8, IterationExists
  <1>10. Solves(it)
    <2>1. ASSUME NEW n \in 0..N
          PROVE  it[n] = IF n = 0 THEN start ELSE Turn(it[n - 1])
      <3>1. CASE n = 0
        BY <1>9, <3>1 DEF Iterates
      <3>2. CASE n # 0
        <4>1. n \in 1..N /\ it[n - 1] \in V(k)
          BY <3>2
        <4>2. it[n] = step[<<n, it[n - 1]>>]
          BY <1>9, <3>2 DEF Iterates
        <4> QED
          BY <3>2, <4>1, <4>2 DEF step
      <3> QED
        BY <3>1, <3>2
    <2> QED
      BY <2>1
  <1>11. PICK f : f = CHOOSE h : Solves(h)
    OBVIOUS
  <1>12. Solves(f)
    <2> HIDE DEF Solves
    <2> QED
      BY <1>10, <1>11
  <1>13. f[0] = start /\ \A n \in 1..N : f[n] = Turn(f[n - 1])
    BY <1>12
  <1> DEFINE T == { j \in Nat : j <= N => f[j] \in V(k) /\ (Over(f[j]) \/ f[j] \in V(k - j)) }
  <1>14. 0 \in T
    <2>1. k - 0 = k
      OBVIOUS
    <2> QED
      BY <1>7, <1>13, <2>1
  <1>15. ASSUME NEW j \in Nat, j \in T
         PROVE  j + 1 \in T
    <2> SUFFICES ASSUME j + 1 <= N
                 PROVE  f[j + 1] \in V(k) /\ (Over(f[j + 1]) \/ f[j + 1] \in V(k - (j + 1)))
      OBVIOUS
    <2>1. f[j] \in V(k) /\ (Over(f[j]) \/ f[j] \in V(k - j))
      BY <1>15
    <2>2. j + 1 \in 1..N /\ (j + 1) - 1 = j /\ (k - j) - 1 = k - (j + 1) /\ k - j \in Int
      OBVIOUS
    <2>3. f[j + 1] = Turn(f[j])
      BY <1>13, <2>2
    <2>4. f[j + 1] \in V(k)
      BY <1>6, <2>1, <2>3
    <2>5. CASE Over(f[j])
      BY <2>3, <2>4, <2>5 DEF Turn
    <2>6. CASE ~Over(f[j])
      <3>1. Next1(f[j]) \in V((k - j) - 1)
        BY <1>4, <2>1, <2>2, <2>6
      <3>2. f[j + 1] \in V(k - (j + 1))
        BY <2>2, <2>3, <2>6, <3>1 DEF Turn
      <3> QED
        BY <2>4, <3>2
    <2> QED
      BY <2>5, <2>6
  <1>16. N \in T
    <2> HIDE DEF T
    <2> QED
      BY <1>14, <1>15, AllNaturals
  <1>17. f[N] \in V(k) /\ (Over(f[N]) \/ f[N] \in V(k - N))
    BY <1>16
  <1>18. Over(f[N])
    <2> SUFFICES ASSUME f[N] \in V(k - N)
                 PROVE  f[N].frontier = {}
      BY <1>17 DEF Over, Finished
    <2>1. PICK st : st = f[N]
      OBVIOUS
    <2>2. /\ st.frontier \in SUBSET Cands(dist, R) /\ st.visited \in SUBSET R
          /\ Cardinality(st.frontier) + Cardinality(R \ st.visited) <= k - N
      BY <2>1 DEF V, Met
    <2>3. /\ IsFiniteSet(st.frontier) /\ Cardinality(st.frontier) \in Nat
          /\ Cardinality(R \ st.visited) \in Nat
      BY <2>2, CandsFinite
    <2>4. Cardinality(st.frontier) = 0
      BY <1>3, <2>2, <2>3
    <2> QED
      BY <2>1, <2>3, <2>4, FS_EmptySet
  <1>19. Explore(g, dist, admissible, ef, level, budget, start) = f[N]
    BY <1>1, <1>11 DEF Explore, Turn, Over, Next1
  <1> QED
    BY <1>2, <1>17, <1>18, <1>19 DEF V, Over

(* A layer may be searched from `eps` among the slots R. *)
Searchable(g, level, R, dist, eps, ef) ==
    /\ IsFiniteSet(R) /\ R \subseteq Int /\ Closed(g, level, R) /\ Measured(dist, R)
    /\ eps \in SUBSET R /\ ef \in Nat \ {0}

(* The results are admissible slots of R, and there is one if the search   *)
(* starts from one; it has ended for a reason the code has.                *)
Found(st, R, dist, eps, ef, admissible, budget) ==
    /\ st.results \in SUBSET Cands(dist, R \cap admissible)
    /\ eps \cap admissible # {} => st.results # {}
    /\ Finished(st, ef, budget)

LEMMA SearchLayerFinds ==
    ASSUME NEW g, NEW level, NEW R, NEW dist, NEW admissible, NEW eps, NEW ef, NEW budget,
           Searchable(g, level, R, dist, eps, ef)
    PROVE  Found(SearchLayer(g, dist, eps, ef, level, admissible, budget),
                 R, dist, eps, ef, admissible, budget)
  <1> PICK st : st = SearchLayer(g, dist, eps, ef, level, admissible, budget)
    OBVIOUS
  <1> USE DEF Searchable
  <1> DEFINE start == { <<dist[s], s>> : s \in eps }
             hit == eps \cap admissible # {}
             first == [visited |-> eps, frontier |-> start,
                       results |-> { c \in start : c[2] \in admissible }]
  <1>1. /\ start = Cands(dist, eps) /\ start \in SUBSET Cands(dist, R)
        /\ IsFiniteSet(start) /\ Cardinality(start) \in Nat
    <2>1. start = Cands(dist, eps)
      BY DEF Cands
    <2> HIDE DEF start
    <2>2. start \in SUBSET Cands(dist, R)
      BY <2>1, CandsFinite
    <2> QED
      BY <2>1, <2>2, CandsFinite
  <1>2. { c \in start : c[2] \in admissible } \in SUBSET Cands(dist, R \cap admissible)
    BY DEF Cands
  <1>3. hit => { c \in start : c[2] \in admissible } # {}
    <2> SUFFICES ASSUME NEW s \in eps, s \in admissible
                 PROVE  \E c \in start : c[2] \in admissible
      OBVIOUS
    <2>1. <<dist[s], s>> \in start /\ <<dist[s], s>>[2] = s
      OBVIOUS
    <2> QED
      BY <2>1
  <1>4. Cardinality(start) + Cardinality(R \ eps) <= Cardinality(R)
    <2> DEFINE f == [s \in eps |-> <<dist[s], s>>]
    <2>1. f \in Surjection(eps, start)
      BY DEF Surjection
    <2>2. IsFiniteSet(eps) /\ Cardinality(eps) \in Nat /\ Cardinality(R) \in Nat
      BY CandsFinite, FS_CardinalityType
    <2>3. Cardinality(start) <= Cardinality(eps)
      <3> HIDE DEF start, f
      <3> QED
        BY <2>1, <2>2, FS_Surjection
    <2>4. R \cap eps = eps
      OBVIOUS
    <2>5. Cardinality(R \ eps) = Cardinality(R) - Cardinality(eps)
      BY <2>4, FS_Difference
    <2> HIDE DEF start
    <2> QED
      BY <1>1, <2>2, <2>3, <2>5
  <1> HIDE DEF start
  <1>5. first \in Met(dist, R, admissible, hit, Cardinality(R))
    BY <1>1, <1>2, <1>3, <1>4 DEF Met
  <1>6. st = Explore(g, dist, admissible, ef, level, budget, first)
    BY DEF SearchLayer, start
  <1> HIDE DEF first
  <1>7. hit \in BOOLEAN
    OBVIOUS
  <1> HIDE DEF hit
  <1>8. st \in Met(dist, R, admissible, hit, Cardinality(R)) /\ Finished(st, ef, budget)
    <2>1. IsFiniteSet(R) /\ R \subseteq Int /\ Closed(g, level, R) /\ Measured(dist, R) /\ ef \in Nat \ {0}
      OBVIOUS
    <2> QED
      BY ONLY <1>5, <1>6, <1>7, <2>1, ExploreEnds
  <1> QED
    BY <1>8 DEF Met, hit, Found


-----------------------------------------------------------------------------
(* Sequences without repetition, and the choice of neighbours. *)

Distinct(q) == \A i, j \in 1..Len(q) : q[i] = q[j] => i = j

LEMMA AppendDistinct ==
    ASSUME NEW S, NEW q \in Seq(S), Distinct(q), NEW x, x \notin S
    PROVE  Append(q, x) \in Seq(S \cup {x}) /\ Distinct(Append(q, x))
  <1>1. PICK n \in Nat : n = Len(q) /\ DOMAIN q = 1..n /\ \A i \in 1..n : q[i] \in S
    OBVIOUS
  <1>2. q \in Seq(S \cup {x})
    OBVIOUS
  <1>3. Append(q, x) \in Seq(S \cup {x})
    BY <1>2
  <1>4. PICK t : t = Append(q, x)
    OBVIOUS
  <1>5. Len(t) = n + 1 /\ t[n + 1] = x /\ \A i \in 1..n : t[i] = q[i]
    BY <1>1, <1>2, <1>4
  <1>6. ASSUME NEW i \in 1..(n + 1), NEW j \in 1..(n + 1), t[i] = t[j]
        PROVE  i = j
    <2>1. i = n + 1 \/ i \in 1..n
      OBVIOUS
    <2>2. j = n + 1 \/ j \in 1..n
      OBVIOUS
    <2>3. ~(i = n + 1 /\ j \in 1..n) /\ ~(j = n + 1 /\ i \in 1..n)
      BY <1>1, <1>5, <1>6
    <2>4. CASE i \in 1..n /\ j \in 1..n
      BY <1>1, <1>5, <1>6, <2>4 DEF Distinct
    <2> QED
      BY <2>1, <2>2, <2>3, <2>4
  <1> QED
    BY <1>3, <1>4, <1>5, <1>6 DEF Distinct

LEMMA ConcatDistinct ==
    ASSUME NEW S, NEW a \in Seq(S), NEW b \in Seq(S), Distinct(a), Distinct(b),
           \A i \in 1..Len(a), j \in 1..Len(b) : a[i] # b[j]
    PROVE  a \o b \in Seq(S) /\ Distinct(a \o b)
  <1>1. PICK t : t = a \o b
    OBVIOUS
  <1>2. PICK m \in Nat, n \in Nat : m = Len(a) /\ n = Len(b)
    OBVIOUS
  <1>3. /\ t \in Seq(S) /\ Len(t) = m + n
        /\ \A i \in 1..m : t[i] = a[i]
        /\ \A i \in (m + 1)..(m + n) : t[i] = b[i - m] /\ i - m \in 1..n
    BY <1>1, <1>2
  <1>4. ASSUME NEW i \in 1..(m + n), NEW j \in 1..(m + n), t[i] = t[j]
        PROVE  i = j
    <2>1. i \in 1..m \/ i \in (m + 1)..(m + n)
      OBVIOUS
    <2>2. j \in 1..m \/ j \in (m + 1)..(m + n)
      OBVIOUS
    <2>3. CASE i \in 1..m /\ j \in 1..m
      BY <1>2, <1>3, <1>4, <2>3 DEF Distinct
    <2>4. CASE i \in (m + 1)..(m + n) /\ j \in (m + 1)..(m + n)
      <3>1. b[i - m] = b[j - m] /\ i - m \in 1..n /\ j - m \in 1..n
        BY <1>3, <1>4, <2>4
      <3>2. i - m = j - m
        BY <1>2, <3>1 DEF Distinct
      <3> QED
        BY <3>2
    <2>5. CASE i \in 1..m /\ j \in (m + 1)..(m + n)
      <3>1. a[i] = b[j - m] /\ j - m \in 1..n
        BY <1>3, <1>4, <2>5
      <3> QED
        BY <1>2, <2>5, <3>1
    <2>6. CASE j \in 1..m /\ i \in (m + 1)..(m + n)
      <3>1. a[j] = b[i - m] /\ i - m \in 1..n
        BY <1>3, <1>4, <2>6
      <3> QED
        BY <1>2, <2>6, <3>1
    <2> QED
      BY <2>1, <2>2, <2>3, <2>4, <2>5, <2>6
  <1> QED
    BY <1>1, <1>3, <1>4 DEF Distinct

LEMMA SortedDistinct ==
    ASSUME NEW C, C \subseteq Pairs, NEW q, Sorted(q, C)
    PROVE  q \in Seq(C) /\ Distinct(q)
  <1>1. PICK n \in Nat : n = Len(q) /\ \A i \in 1..n : q[i] \in Pairs
    BY DEF Sorted
  <1>2. ASSUME NEW x \in Pairs
        PROVE  ~ Before(x, x)
    BY DEF Before, Pairs
  <1>3. ASSUME NEW i \in 1..n, NEW j \in 1..n, q[i] = q[j]
        PROVE  i = j
    <2>1. ~ (i < j) /\ ~ (j < i)
      BY <1>1, <1>2, <1>3 DEF Sorted
    <2> QED
      BY <2>1
  <1> QED
    BY <1>1, <1>3 DEF Distinct, Sorted

(* The candidates considered so far, each selected, set aside or left. *)
Split(acc, S) ==
    /\ acc \in [selected : Seq(S), pruned : Seq(S)]
    /\ Distinct(acc.selected) /\ Distinct(acc.pruned)
    /\ \A i \in 1..Len(acc.selected), j \in 1..Len(acc.pruned) : acc.selected[i] # acc.pruned[j]

LEMMA SplitMore ==
    ASSUME NEW S, NEW acc, Split(acc, S), NEW x, x \notin S
    PROVE  /\ Split(acc, S \cup {x})
           /\ Split([acc EXCEPT !.pruned = Append(@, x)], S \cup {x})
           /\ Split([acc EXCEPT !.selected = Append(@, x)], S \cup {x})
  <1>1. PICK a, b : a = acc.selected /\ b = acc.pruned
    OBVIOUS
  <1>2. /\ acc = [selected |-> a, pruned |-> b] /\ a \in Seq(S) /\ b \in Seq(S)
        /\ Distinct(a) /\ Distinct(b)
        /\ \A i \in 1..Len(a), j \in 1..Len(b) : a[i] # b[j]
    BY <1>1 DEF Split
  <1>3. /\ Append(a, x) \in Seq(S \cup {x}) /\ Distinct(Append(a, x))
        /\ Append(b, x) \in Seq(S \cup {x}) /\ Distinct(Append(b, x))
        /\ a \in Seq(S \cup {x}) /\ b \in Seq(S \cup {x})
    <2>1. \A p \in Seq(S) : Distinct(p) => Append(p, x) \in Seq(S \cup {x}) /\ Distinct(Append(p, x))
      BY AppendDistinct
    <2>2. a \in Seq(S \cup {x}) /\ b \in Seq(S \cup {x})
      BY <1>2
    <2> QED
      BY <1>2, <2>1, <2>2
  <1>4. ASSUME NEW p \in Seq(S), NEW i \in 1..Len(Append(p, x))
        PROVE  Append(p, x)[i] = x \/ (i \in 1..Len(p) /\ Append(p, x)[i] = p[i])
    OBVIOUS
  <1>5. ASSUME NEW p \in Seq(S), NEW i \in 1..Len(p)
        PROVE  p[i] # x
    OBVIOUS
  <1>6. \A i \in 1..Len(a), j \in 1..Len(Append(b, x)) : a[i] # Append(b, x)[j]
    BY <1>2, <1>4, <1>5
  <1>7. \A i \in 1..Len(Append(a, x)), j \in 1..Len(b) : Append(a, x)[i] # b[j]
    BY <1>2, <1>4, <1>5
  <1>8. /\ [acc EXCEPT !.pruned = Append(@, x)] = [selected |-> a, pruned |-> Append(b, x)]
        /\ [acc EXCEPT !.selected = Append(@, x)] = [selected |-> Append(a, x), pruned |-> b]
    <2>1. PICK ax, bx : ax = Append(a, x) /\ bx = Append(b, x)
      OBVIOUS
    <2>2. [acc EXCEPT !.pruned = bx] = [selected |-> a, pruned |-> bx]
      BY <1>2
    <2>3. [acc EXCEPT !.selected = ax] = [selected |-> ax, pruned |-> b]
      BY <1>2
    <2>4. acc.pruned = b /\ acc.selected = a
      BY <1>2
    <2> QED
      BY <2>1, <2>2, <2>3, <2>4
  <1> DEFINE Both(p, r) == [selected |-> p, pruned |-> r]
  <1>9. ASSUME NEW p \in Seq(S \cup {x}), NEW r \in Seq(S \cup {x}), Distinct(p), Distinct(r),
               \A i \in 1..Len(p), j \in 1..Len(r) : p[i] # r[j]
        PROVE  Split(Both(p, r), S \cup {x})
    BY <1>9 DEF Split
  <1>10. /\ Split(Both(a, b), S \cup {x})
         /\ Split(Both(a, Append(b, x)), S \cup {x})
         /\ Split(Both(Append(a, x), b), S \cup {x})
    <2> HIDE DEF Both
    <2> QED
      BY <1>2, <1>3, <1>6, <1>7, <1>9
  <1> QED
    BY <1>2, <1>8, <1>10

(* The neighbours chosen are slots of candidates, at most m and no two     *)
(* of them the same.                                                       *)
LEMMA SelectionOf ==
    ASSUME NEW g, NEW R, IsFiniteSet(R), R \subseteq Int, NEW dist, Measured(dist, R),
           NEW cands \in SUBSET Cands(dist, R), NEW m \in Nat,
           NEW chosen, chosen = SelectNeighbors(g, cands, m)
    PROVE  /\ chosen \in Seq(R) /\ chosen \in Seq({ c[2] : c \in cands })
           /\ Len(chosen) <= m /\ Distinct(chosen)
  <1>1. PICK seq : seq = InOrder(cands)
    OBVIOUS
  <1>2. IsFiniteSet(cands) /\ cands \subseteq Pairs
    BY CandsFinite
  <1>3. seq \in Seq(cands) /\ Distinct(seq)
    BY <1>1, <1>2, InOrderSorted, SortedDistinct
  <1>4. PICK n \in Nat : n = Len(seq) /\ DOMAIN seq = 1..n /\ \A i \in 1..n : seq[i] \in cands
    BY <1>3
  <1> DEFINE Dominated(c, selected) ==
                 \E s \in Range(selected) : Distance(g.data[c[2]], g.data[s[2]]) < c[1]
             Consider(acc, c) ==
                 IF Len(acc.selected) >= m THEN acc
                 ELSE IF Dominated(c, acc.selected)
                        THEN [acc EXCEPT !.pruned = Append(@, c)]
                        ELSE [acc EXCEPT !.selected = Append(@, c)]
             Of(s) == { seq[i] : i \in s }
             D == 1..n
             All0 == [selected : Seq(cands), pruned : Seq(cands)]
             W == [s \in SUBSET D |-> { acc \in All0 : Split(acc, Of(s)) }]
             Op(acc, s) == Consider(acc, seq[Max(s)])
             base == [selected |-> <<>>, pruned |-> <<>>]
  <1>5. /\ IsFiniteSet(D) /\ Picks(Places(n), D)
        /\ \A s \in SUBSET D : s # {} =>
               /\ s \ {Max(s)} \in SUBSET D /\ Places(n)[s] = Max(s)
               /\ Max(s) \in D /\ Max(s) \in s
    BY PlacesPick
  <1>6. base \in W[{}]
    <2>1. Of({}) = {} /\ <<>> \in Seq({}) /\ Len(<<>>) = 0 /\ <<>> \in Seq(cands)
      OBVIOUS
    <2>2. Split(base, {}) /\ base \in All0
      BY <2>1 DEF Split, Distinct
    <2> HIDE DEF base, Of
    <2> QED
      BY <2>1, <2>2
  <1>7. ASSUME NEW s \in SUBSET D, s # {}, NEW acc \in W[s \ {Max(s)}]
        PROVE  Op(acc, s) \in W[s]
    <2>0. PICK k \in D : k = Max(s)
      BY <1>5, <1>7
    <2>1. PICK r, x : k = Max(s) /\ r = s \ {k} /\ x = seq[k]
      BY <2>0
    <2>2. k \in s /\ r \in SUBSET D /\ k \notin r /\ s = r \cup {k}
      BY <1>5, <1>7, <2>1
    <2>3. Split(acc, Of(r))
      BY <2>1, <2>2
    <2>4. x \notin Of(r)
      BY <1>3, <1>4, <2>1, <2>2 DEF Distinct
    <2>5. Of(s) = Of(r) \cup {x}
      BY <2>1, <2>2
    <2>6. Op(acc, s) = acc \/ Op(acc, s) = [acc EXCEPT !.pruned = Append(@, x)]
          \/ Op(acc, s) = [acc EXCEPT !.selected = Append(@, x)]
      <3> HIDE DEF Dominated
      <3> QED
        BY <2>1
    <2>7. Split(Op(acc, s), Of(s))
      <3> HIDE DEF Op, Of
      <3>1. PICK S : S = Of(r)
        OBVIOUS
      <3>2. /\ Split(acc, S \cup {x})
            /\ Split([acc EXCEPT !.pruned = Append(@, x)], S \cup {x})
            /\ Split([acc EXCEPT !.selected = Append(@, x)], S \cup {x})
        BY ONLY <2>3, <2>4, <3>1, SplitMore
      <3> QED
        BY <2>5, <2>6, <3>1, <3>2
    <2>8. Of(s) \subseteq cands
      BY <1>4, <1>7
    <2>9. Op(acc, s) \in All0
      <3> HIDE DEF Op, Of
      <3> QED
        BY <2>7, <2>8 DEF Split
    <2> HIDE DEF Op, Of
    <2> QED
      BY <2>7, <2>9
  <1>8. DOMAIN seq = D /\ \A s \in SUBSET D : s # {} => \A acc \in W[s \ {Max(s)}] : Op(acc, s) \in W[s]
    BY <1>4, <1>7
  <1> HIDE DEF base, Consider
  <1> DEFINE pick == Places(n)
             All == UNION { W[s] : s \in SUBSET D }
             step == [p \in (SUBSET D) \X All |-> Op(p[2], p[1])]
             Solves(f) == f = [s \in SUBSET D |-> IF s = {} THEN base ELSE Op(f[s \ {Max(s)}], s)]
  <1>9. /\ IsFiniteSet(D) /\ Picks(pick, D)
         /\ \A s \in SUBSET D : s # {} => s \ {Max(s)} \in SUBSET D /\ pick[s] = Max(s)
    BY <1>5
  <1> HIDE DEF Op, W, D, pick
  <1>10. ASSUME NEW s \in SUBSET D, s # {}, NEW acc \in W[s \ {Max(s)}]
         PROVE  step[<<s, acc>>] = Op(acc, s) /\ Op(acc, s) \in W[s]
    <2>1. acc \in All
      BY <1>9, <1>10
    <2>2. step[<<s, acc>>] = Op(acc, s)
      BY <2>1
    <2> QED
      BY <1>8, <1>10, <2>2
  <1> HIDE DEF step
  <1>11. MayBe(W, base, pick, step, D)
    BY <1>6, <1>9, <1>10 DEF MayBe
  <1>12. PICK it : /\ it = [s \in SUBSET D |-> it[s]] /\ Made(it, base, pick, step, D)
                   /\ \A s \in SUBSET D : it[s] \in W[s]
    BY <1>9, <1>11, FoldMade
  <1>13. Solves(it)
    <2>1. ASSUME NEW s \in SUBSET D
          PROVE  it[s] = IF s = {} THEN base ELSE Op(it[s \ {Max(s)}], s)
      BY <1>9, <1>10, <1>12 DEF Made
    <2> QED
      BY <1>12, <2>1
  <1>14. PICK f : f = CHOOSE h : Solves(h)
    OBVIOUS
  <1>15. Solves(f)
    <2> HIDE DEF Solves
    <2> QED
      BY <1>13, <1>14
  <1>16. MadeWithin(f, W, base, pick, step, D)
    <2>1. ASSUME NEW s \in SUBSET D, s # {}, f[s \ {pick[s]}] \in W[s \ {pick[s]}]
          PROVE  f[s] = step[<<s, f[s \ {pick[s]}]>>]
      <3>1. f[s] = Op(f[s \ {Max(s)}], s)
        BY <1>15, <2>1
      <3> HIDE DEF Solves
      <3> QED
        BY <1>9, <1>10, <2>1, <3>1
    <2>2. f[{}] = base
      BY <1>15
    <2> QED
      BY <2>1, <2>2 DEF MadeWithin
  <1>17. f[D] \in W[D]
    BY <1>9, <1>11, <1>16, FoldStays
  <1> USE DEF D, Op
  <1>18. FoldLeft(Consider, base, seq) = f[D]
    BY <1>8, <1>14 DEF FoldLeft, MapThenFoldSet
  <1>19. PICK split : split = FoldLeft(Consider, base, seq)
    OBVIOUS
  <1>20. split \in All0 /\ Split(split, Of(D))
    BY <1>17, <1>18, <1>19 DEF W
  <1>21. PICK a, b : a = split.selected /\ b = split.pruned
    OBVIOUS
  <1>22. PICK filled : filled = a \o b
    OBVIOUS
  <1>23. filled \in Seq(cands) /\ Distinct(filled)
    BY <1>20, <1>21, <1>22, ConcatDistinct DEF Split
  <1>24. PICK k \in Nat : k = IF Len(filled) < m THEN Len(filled) ELSE m
    BY <1>23
  <1>25. k <= m /\ k <= Len(filled)
    BY <1>23, <1>24
  <1>26. PICK short : short = SubSeq(filled, 1, k)
    OBVIOUS
  <1>27. Len(short) = k /\ DOMAIN short = 1..k /\ \A i \in 1..k : short[i] = filled[i] /\ filled[i] \in cands
    BY <1>23, <1>25, <1>26
  <1>28. chosen = [i \in 1..k |-> filled[i][2]]
    <2>1. chosen = [i \in DOMAIN short |-> short[i][2]]
      BY <1>1, <1>19, <1>21, <1>22, <1>24, <1>26 DEF SelectNeighbors, base, Consider
    <2> QED
      BY <1>27, <2>1
  <1>29. Len(chosen) = k /\ \A i \in 1..k : chosen[i] = filled[i][2]
    BY <1>28
  <1>30. chosen \in Seq({ c[2] : c \in cands }) /\ { c[2] : c \in cands } \subseteq R
    <2>1. \A i \in 1..k : filled[i][2] \in { c[2] : c \in cands }
      BY <1>27
    <2>2. \A c \in Cands(dist, R) : c[2] \in R
      BY CandsFinite
    <2>3. { c[2] : c \in cands } \subseteq R
      BY <2>2
    <2> QED
      BY <1>28, <2>1, <2>3
  <1>31. ASSUME NEW i \in 1..k, NEW j \in 1..k, chosen[i] = chosen[j]
         PROVE  i = j
    <2>0. \A c \in Cands(dist, R) : c = <<dist[c[2]], c[2]>>
      BY CandsFinite
    <2>1. filled[i] = filled[j]
      BY <1>27, <1>29, <1>31, <2>0
    <2> QED
      BY <1>23, <1>25, <2>1 DEF Distinct
  <1> QED
    BY <1>25, <1>29, <1>30, <1>31 DEF Distinct


-----------------------------------------------------------------------------
(* Graphs.  A list of links names slots of its layer, none twice and never *)
(* its owner.                                                              *)

IdMaps == UNION { [S -> Nat] : S \in SUBSET Ids }

Graphs == [ids : Seq(Ids), data : Seq(Points), slot_of : IdMaps, links : Seq(Seq(Seq(Nat))),
           entry : Nat, deleted : Seq(BOOLEAN), deleted_count : Int]

Layer(g, l) == { s \in Slots(g) : l <= Level(g, s) }

(* Every slot has an id, a vector, lists of links and a mark. *)
Even(g) == /\ Len(g.data) = Len(g.ids) /\ Len(g.links) = Len(g.ids) /\ Len(g.deleted) = Len(g.ids)
           /\ \A s \in Slots(g) : 1 <= Level(g, s)

Linked(g) ==
    \A s \in Slots(g) : \A l \in 1..Level(g, s) :
        g.links[s][l] \in Seq(Layer(g, l) \ {s}) /\ Distinct(g.links[s][l])

(* The graphs differ in lists of links only. *)
SameNodes(h, g) ==
    /\ h.ids = g.ids /\ h.data = g.data /\ h.slot_of = g.slot_of
    /\ h.entry = g.entry /\ h.deleted = g.deleted /\ h.deleted_count = g.deleted_count
    /\ Len(h.links) = Len(g.links) /\ \A s \in Slots(g) : Level(h, s) = Level(g, s)

LEMMA ExceptSeq ==
    ASSUME NEW T, NEW L \in Seq(T), NEW s \in 1..Len(L), NEW v \in T
    PROVE  /\ [L EXCEPT ![s] = v] \in Seq(T) /\ Len([L EXCEPT ![s] = v]) = Len(L)
           /\ [L EXCEPT ![s] = v][s] = v
           /\ \A i \in 1..Len(L) : i # s => [L EXCEPT ![s] = v][i] = L[i]
  <1>1. PICK n \in Nat : n = Len(L) /\ L \in [1..n -> T]
    OBVIOUS
  <1>2. [L EXCEPT ![s] = v] \in [1..n -> T]
    BY <1>1
  <1>3. [L EXCEPT ![s] = v] \in Seq(T) /\ Len([L EXCEPT ![s] = v]) = n
    BY <1>2
  <1> QED
    BY <1>1, <1>3

LEMMA GraphShape ==
    ASSUME NEW g \in Graphs, Even(g)
    PROVE  /\ Len(g.ids) \in Nat /\ Slots(g) = 1..Len(g.ids) /\ Slots(g) = 1..Len(g.links)
           /\ g.links \in Seq(Seq(Seq(Nat)))
           /\ \A s \in Slots(g) : /\ g.links[s] \in Seq(Seq(Nat)) /\ Level(g, s) \in Nat /\ 1 <= Level(g, s)
                                  /\ Level(g, s) = Len(g.links[s]) /\ g.data[s] \in Points
                                  /\ g.ids[s] \in Ids /\ g.deleted[s] \in BOOLEAN
           /\ IsFiniteSet(Slots(g)) /\ Slots(g) \subseteq Nat
           /\ \A l : Layer(g, l) \subseteq Slots(g) /\ IsFiniteSet(Layer(g, l))
  <1>1. /\ g.ids \in Seq(Ids) /\ g.data \in Seq(Points) /\ g.links \in Seq(Seq(Seq(Nat)))
        /\ g.deleted \in Seq(BOOLEAN)
    BY DEF Graphs
  <1>2. Len(g.ids) \in Nat /\ Slots(g) = 1..Len(g.ids) /\ Slots(g) = 1..Len(g.links)
    BY <1>1 DEF Slots, Even
  <1>3. \A s \in Slots(g) : g.links[s] \in Seq(Seq(Nat)) /\ g.data[s] \in Points
                            /\ g.ids[s] \in Ids /\ g.deleted[s] \in BOOLEAN
    BY <1>1, <1>2 DEF Even
  <1>4. \A s \in Slots(g) : Level(g, s) = Len(g.links[s]) /\ Level(g, s) \in Nat /\ 1 <= Level(g, s)
    BY <1>3 DEF Level, Even
  <1>5. IsFiniteSet(Slots(g)) /\ Slots(g) \subseteq Nat
    BY <1>2, FS_Interval
  <1>6. \A l : Layer(g, l) \subseteq Slots(g)
    BY DEF Layer
  <1>7. \A l : IsFiniteSet(Layer(g, l))
    BY <1>5, <1>6, FS_Subset
  <1> QED
    BY <1>1, <1>2, <1>3, <1>4, <1>5, <1>6, <1>7

LEMMA SameNodesSame ==
    ASSUME NEW g \in Graphs, Even(g), NEW h \in Graphs, SameNodes(h, g)
    PROVE  Even(h) /\ Slots(h) = Slots(g) /\ LiveSlots(h) = LiveSlots(g) /\ \A l : Layer(h, l) = Layer(g, l)
  <1>1. Slots(h) = Slots(g)
    BY DEF SameNodes, Slots
  <1>2. LiveSlots(h) = LiveSlots(g)
    BY <1>1 DEF LiveSlots, SameNodes
  <1>3. \A l : Layer(h, l) = Layer(g, l)
    BY <1>1 DEF Layer, SameNodes
  <1>4. Even(h)
    BY <1>1 DEF Even, SameNodes
  <1> QED
    BY <1>1, <1>2, <1>3, <1>4

Net(g) == g \in Graphs /\ Even(g) /\ Linked(g)

WithList(g, s, l, q) == [g EXCEPT !.links[s][l] = q]

(* The lists of all others, and those of other layers, stay as they are. *)
Keeps(h, g, nodes, l) ==
    \A t \in Slots(g) : \A k \in 1..Level(g, t) :
        t \notin nodes \/ k # l => h.links[t][k] = g.links[t][k]

Fits(g, s, l, q) ==
    /\ Net(g) /\ s \in Slots(g) /\ l \in 1..Level(g, s)
    /\ q \in Seq(Layer(g, l) \ {s}) /\ Distinct(q)

Relisted(h, g, s, l, q) ==
    Net(h) /\ SameNodes(h, g) /\ h.links[s][l] = q /\ Keeps(h, g, {s}, l)

LEMMA ListReplaced ==
    ASSUME NEW g, NEW s, NEW l, NEW q, Fits(g, s, l, q)
    PROVE  Relisted(WithList(g, s, l, q), g, s, l, q)
  <1> PICK h : h = WithList(g, s, l, q)
    OBVIOUS
  <1>0. /\ g \in Graphs /\ Even(g) /\ Linked(g) /\ s \in Slots(g) /\ l \in 1..Level(g, s)
        /\ q \in Seq(Layer(g, l) \ {s}) /\ Distinct(q)
    BY DEF Fits, Net
  <1>1. PICK L, ls, ms, N : /\ L = g.links /\ ls = L[s] /\ ms = [ls EXCEPT ![l] = q]
                            /\ N = [L EXCEPT ![s] = ms]
    OBVIOUS
  <1>2. /\ L \in Seq(Seq(Seq(Nat))) /\ s \in 1..Len(L) /\ ls \in Seq(Seq(Nat)) /\ l \in 1..Len(ls)
        /\ Slots(g) = 1..Len(L) /\ \A t \in Slots(g) : L[t] \in Seq(Seq(Nat)) /\ Level(g, t) = Len(L[t])
    BY <1>0, <1>1, GraphShape
  <1>3. q \in Seq(Nat)
    <2>1. Layer(g, l) \ {s} \subseteq Nat
      BY <1>0, GraphShape
    <2> QED
      BY <1>0, <2>1
  <1>4. /\ ms \in Seq(Seq(Nat)) /\ Len(ms) = Len(ls) /\ ms[l] = q
        /\ \A k \in 1..Len(ls) : k # l => ms[k] = ls[k]
    <2>1. PICK T : T = Seq(Nat)
      OBVIOUS
    <2>2. ls \in Seq(T) /\ l \in 1..Len(ls) /\ q \in T
      BY <1>2, <1>3, <2>1
    <2>3. /\ [ls EXCEPT ![l] = q] \in Seq(T) /\ Len([ls EXCEPT ![l] = q]) = Len(ls)
          /\ [ls EXCEPT ![l] = q][l] = q
          /\ \A k \in 1..Len(ls) : k # l => [ls EXCEPT ![l] = q][k] = ls[k]
      BY ONLY <2>2, ExceptSeq
    <2> QED
      BY <1>1, <2>1, <2>3
  <1>5. /\ N \in Seq(Seq(Seq(Nat))) /\ Len(N) = Len(L) /\ N[s] = ms
        /\ \A t \in 1..Len(L) : t # s => N[t] = L[t]
    BY ONLY <1>1, <1>2, <1>4, ExceptSeq
  <1>6. h = [g EXCEPT !.links = N]
    BY <1>1 DEF WithList
  <1>7. /\ h \in Graphs /\ h.links = N /\ h.ids = g.ids /\ h.data = g.data /\ h.slot_of = g.slot_of
        /\ h.entry = g.entry /\ h.deleted = g.deleted /\ h.deleted_count = g.deleted_count
    BY ONLY <1>0, <1>5, <1>6 DEF Graphs
  <1>8. \A t \in Slots(g) : Level(h, t) = Level(g, t)
    BY <1>1, <1>2, <1>4, <1>5, <1>7 DEF Level
  <1>9. SameNodes(h, g)
    BY <1>1, <1>5, <1>7, <1>8 DEF SameNodes
  <1>10. /\ h.links[s][l] = q
         /\ \A t \in Slots(g) : \A k \in 1..Level(g, t) :
                t # s \/ k # l => h.links[t][k] = g.links[t][k]
    <2>1. h.links[s][l] = q
      BY <1>4, <1>5, <1>7
    <2>2. ASSUME NEW t \in Slots(g), NEW k \in 1..Level(g, t), t # s \/ k # l
          PROVE  h.links[t][k] = g.links[t][k]
      <3>1. CASE t # s
        <4>1. N[t] = L[t]
          BY <1>2, <1>5, <3>1
        <4> QED
          BY <1>1, <1>7, <4>1
      <3>2. CASE t = s
        <4>1. k \in 1..Len(ls) /\ k # l
          BY <1>1, <1>2, <2>2, <3>2
        <4>2. ms[k] = ls[k] /\ N[t] = ms /\ L[t] = ls
          BY <1>1, <1>4, <1>5, <3>2, <4>1
        <4> QED
          BY <1>1, <1>7, <4>2
      <3> QED
        BY <3>1, <3>2
    <2> QED
      BY <2>1, <2>2
  <1>11. Even(h) /\ Slots(h) = Slots(g) /\ \A k : Layer(h, k) = Layer(g, k)
    BY <1>0, <1>7, <1>9, SameNodesSame
  <1>12. Linked(h)
    <2> SUFFICES ASSUME NEW t \in Slots(g), NEW k \in 1..Level(g, t)
                 PROVE  h.links[t][k] \in Seq(Layer(g, k) \ {t}) /\ Distinct(h.links[t][k])
      BY <1>8, <1>11 DEF Linked
    <2>1. CASE t = s /\ k = l
      BY <1>0, <1>10, <2>1
    <2>2. CASE t # s \/ k # l
      BY <1>0, <1>10, <2>2 DEF Linked
    <2> QED
      BY <2>1, <2>2
  <1> QED
    BY <1>7, <1>9, <1>10, <1>11, <1>12 DEF Net, Keeps, Relisted

-----------------------------------------------------------------------------
(* Linking a new node. *)

LEMMA KeepsBoth ==
    ASSUME NEW g, NEW f, NEW h, Slots(f) = Slots(g), \A t \in Slots(g) : Level(f, t) = Level(g, t), NEW l,
           NEW a, NEW b, Keeps(f, g, a, l), Keeps(h, f, b, l)
    PROVE  Keeps(h, g, a \cup b, l)
  BY DEF Keeps

LEMMA SameNodesBoth ==
    ASSUME NEW g, NEW f, NEW h, SameNodes(f, g), SameNodes(h, f)
    PROVE  SameNodes(h, g) /\ Slots(f) = Slots(g) /\ Slots(h) = Slots(g)
           /\ \A t \in Slots(g) : Level(f, t) = Level(g, t)
  BY DEF SameNodes, Slots

LEMMA NetShape ==
    ASSUME NEW g, Net(g)
    PROVE  /\ Slots(g) \subseteq Nat /\ IsFiniteSet(Slots(g))
           /\ \A s \in Slots(g) : Level(g, s) \in Nat \ {0} /\ g.data[s] \in Points
           /\ \A l : Layer(g, l) \subseteq Slots(g) /\ IsFiniteSet(Layer(g, l))
           /\ \A s \in Slots(g) : \A l \in 1..Level(g, s) :
                  /\ s \in Layer(g, l) /\ Distinct(g.links[s][l])
                  /\ g.links[s][l] \in Seq(Layer(g, l) \ {s}) /\ Len(g.links[s][l]) \in Nat
  <1>1. g \in Graphs /\ Even(g) /\ Linked(g)
    BY DEF Net
  <1>2. \A s \in Slots(g) : \A l \in 1..Level(g, s) :
            /\ s \in Layer(g, l) /\ Distinct(g.links[s][l])
            /\ g.links[s][l] \in Seq(Layer(g, l) \ {s})
    <2>1. \A s \in Slots(g) : \A l \in 1..Level(g, s) : s \in Layer(g, l)
      BY <1>1, GraphShape DEF Layer
    <2> QED
      BY <1>1, <2>1 DEF Linked
  <1>3. \A s \in Slots(g) : \A l \in 1..Level(g, s) : Len(g.links[s][l]) \in Nat
    BY <1>2
  <1>4. \A s \in Slots(g) : Level(g, s) \in Nat \ {0}
    BY <1>1, GraphShape
  <1> QED
    BY <1>1, <1>2, <1>3, <1>4, GraphShape

LEMMA SameNet ==
    ASSUME NEW g, Net(g), NEW h, Net(h), SameNodes(h, g)
    PROVE  /\ Slots(h) = Slots(g) /\ LiveSlots(h) = LiveSlots(g) /\ \A l : Layer(h, l) = Layer(g, l)
           /\ \A t \in Slots(g) : Level(h, t) = Level(g, t)
  BY SameNodesSame DEF Net, SameNodes

(* Another member for a list. *)
LEMMA AppendTo ==
    ASSUME NEW S, NEW x, x \in S, NEW c, c \in Seq(S), Distinct(c), x \notin Range(c)
    PROVE  Append(c, x) \in Seq(S) /\ Distinct(Append(c, x))
  <1>1. c \in Seq(S \ {x})
    <2>1. \A i \in 1..Len(c) : c[i] \in S \ {x}
      BY DEF Range
    <2> QED
      BY <2>1
  <1>2. (S \ {x}) \cup {x} = S /\ x \notin S \ {x}
    OBVIOUS
  <1>3. Append(c, x) \in Seq((S \ {x}) \cup {x}) /\ Distinct(Append(c, x))
    BY <1>1, <1>2, AppendDistinct
  <1> QED
    BY <1>2, <1>3

(* Both nodes get the other as a neighbour. *)
Joined(g, slot, nb, lc) == [g EXCEPT !.links[slot][lc] = Append(@, nb), !.links[nb][lc] = Append(@, slot)]

Strangers(g, slot, nb, lc) ==
    /\ Net(g) /\ slot \in Slots(g) /\ nb \in Slots(g) /\ nb # slot
    /\ lc \in 1..Level(g, slot) /\ lc \in 1..Level(g, nb)
    /\ nb \notin Range(g.links[slot][lc]) /\ slot \notin Range(g.links[nb][lc])

Acquainted(h, g, slot, nb, lc) ==
    /\ Net(h) /\ SameNodes(h, g) /\ Keeps(h, g, {slot, nb}, lc)
    /\ h.links[slot][lc] = Append(g.links[slot][lc], nb)

LEMMA BothAppended ==
    ASSUME NEW g, NEW slot, NEW nb, NEW lc, Strangers(g, slot, nb, lc)
    PROVE  Acquainted(Joined(g, slot, nb, lc), g, slot, nb, lc)
  <1> PICK h : h = Joined(g, slot, nb, lc)
    OBVIOUS
  <1>0. Net(g) /\ slot \in Slots(g) /\ lc \in 1..Level(g, slot)
    BY DEF Strangers
  <1> USE DEF Strangers
  <1>1. PICK a, b : a = g.links[slot][lc] /\ b = g.links[nb][lc]
    OBVIOUS
  <1>2. PICK A, B : A = Layer(g, lc) \ {slot} /\ B = Layer(g, lc) \ {nb}
    OBVIOUS
  <1>3. a \in Seq(A) /\ Distinct(a) /\ b \in Seq(B) /\ Distinct(b) /\ nb \in A /\ slot \in B
    BY <1>1, <1>2, NetShape
  <1>4. PICK p, q : p = Append(a, nb) /\ q = Append(b, slot)
    OBVIOUS
  <1>5. p \in Seq(A) /\ Distinct(p) /\ q \in Seq(B) /\ Distinct(q)
    BY <1>1, <1>3, <1>4, AppendTo
  <1>6. PICK f : f = WithList(g, slot, lc, p)
    OBVIOUS
  <1>7. Net(f) /\ SameNodes(f, g) /\ f.links[slot][lc] = p /\ Keeps(f, g, {slot}, lc)
    <2>1. Fits(g, slot, lc, p)
      BY <1>0, <1>2, <1>5 DEF Fits
    <2> QED
      BY <1>6, <2>1, ListReplaced DEF Relisted
  <1>8. Slots(f) = Slots(g) /\ Layer(f, lc) = Layer(g, lc) /\ \A t \in Slots(g) : Level(f, t) = Level(g, t)
    BY <1>7, SameNet
  <1>9. f.links[nb][lc] = b
    BY <1>1, <1>7 DEF Keeps
  <1>10. h = WithList(f, nb, lc, q)
    <2>1. h = [[g EXCEPT !.links[slot][lc] = Append(g.links[slot][lc], nb)]
                  EXCEPT !.links[nb][lc] = Append(f.links[nb][lc], slot)]
      BY <1>1, <1>4, <1>6 DEF Joined, WithList
    <2> QED
      BY <1>1, <1>4, <1>6, <1>9, <2>1 DEF WithList
  <1>11. Net(h) /\ SameNodes(h, f) /\ h.links[nb][lc] = q /\ Keeps(h, f, {nb}, lc)
    <2>1. nb \in Slots(f) /\ lc \in 1..Level(f, nb) /\ q \in Seq(Layer(f, lc) \ {nb})
      BY <1>2, <1>5, <1>8
    <2>2. Fits(f, nb, lc, q)
      BY <1>5, <1>7, <2>1 DEF Fits
    <2> QED
      BY <1>10, <2>2, ListReplaced DEF Relisted
  <1>12. SameNodes(h, g)
    BY <1>7, <1>11, SameNodesBoth
  <1>13. h.links[slot][lc] = p
    BY <1>7, <1>8, <1>11 DEF Keeps
  <1>14. {slot} \cup {nb} = {slot, nb}
    OBVIOUS
  <1>15. Keeps(h, g, {slot, nb}, lc)
    BY <1>7, <1>8, <1>11, <1>14, KeepsBoth
  <1> QED
    BY <1>1, <1>4, <1>11, <1>12, <1>13, <1>15 DEF Acquainted

(* An overfull list is replaced by a selection of it. *)
LEMMA Shrunk ==
    ASSUME NEW g, Net(g), NEW node, node \in Slots(g), NEW lc, lc \in 1..Level(g, node),
           NEW h, h = ShrinkLinks(g, node, lc)
    PROVE  /\ Net(h) /\ SameNodes(h, g) /\ Len(h.links[node][lc]) <= MaxLinks(lc)
           /\ Keeps(h, g, {node}, lc)
  <1>1. PICK a, R : a = g.links[node][lc] /\ R = Layer(g, lc) \ {node}
    OBVIOUS
  <1>2. a \in Seq(R) /\ Distinct(a) /\ Len(a) \in Nat
    BY <1>1, NetShape
  <1>3. MaxLinks(lc) \in Nat
    BY HnswAssumption DEF MaxLinks
  <1>4. CASE Len(a) <= MaxLinks(lc)
    <2>1. h = g
      BY <1>1, <1>4 DEF ShrinkLinks
    <2>2. SameNodes(g, g) /\ Keeps(g, g, {node}, lc)
      BY DEF SameNodes, Keeps
    <2> QED
      BY <1>1, <1>4, <2>1, <2>2
  <1>5. CASE ~(Len(a) <= MaxLinks(lc))
    <2>1. PICK dist : dist = [s \in Slots(g) |-> Distance(g.data[node], g.data[s])]
      OBVIOUS
    <2>2. PICK near : near = { <<Distance(g.data[node], g.data[nb]), nb>> : nb \in Range(a) }
      OBVIOUS
    <2>3. R \subseteq Slots(g) /\ IsFiniteSet(R) /\ R \subseteq Int
      <3>1. Layer(g, lc) \subseteq Slots(g) /\ IsFiniteSet(Layer(g, lc)) /\ Slots(g) \subseteq Nat
        BY NetShape
      <3> QED
        BY <1>1, <3>1, FS_Subset
    <2>4. Measured(dist, R)
      <3>1. \A s \in Slots(g) : g.data[s] \in Int
        BY NetShape, RankingAssumption
      <3> QED
        BY <2>1, <2>3, <3>1, NetShape DEF Measured, Distance
    <2>5. Range(a) \subseteq R
      BY <1>2 DEF Range
    <2>6. near \in SUBSET Cands(dist, R)
      BY <2>1, <2>2, <2>3, <2>5 DEF Cands
    <2>7. PICK q : q = SelectNeighbors(g, near, MaxLinks(lc))
      OBVIOUS
    <2>8. q \in Seq(R) /\ Len(q) <= MaxLinks(lc) /\ Distinct(q)
      BY ONLY <1>3, <2>3, <2>4, <2>6, <2>7, SelectionOf
    <2>9. h = WithList(g, node, lc, q)
      BY <1>1, <1>5, <2>2, <2>7 DEF ShrinkLinks, WithList
    <2>10. Net(h) /\ SameNodes(h, g) /\ h.links[node][lc] = q /\ Keeps(h, g, {node}, lc)
      <3>1. Fits(g, node, lc, q)
        BY <1>1, <2>8 DEF Fits
      <3> QED
        BY <2>9, <3>1, ListReplaced DEF Relisted
    <2> QED
      BY <2>8, <2>10
  <1> QED
    BY <1>4, <1>5

(* One of the chosen neighbours is linked. *)
LEMMA LinkedOne ==
    ASSUME NEW g, NEW slot, NEW nb, NEW lc, Strangers(g, slot, nb, lc),
           NEW h, h = ShrinkLinks(Joined(g, slot, nb, lc), nb, lc)
    PROVE  Acquainted(h, g, slot, nb, lc) /\ Len(h.links[nb][lc]) <= MaxLinks(lc)
  <1>0. slot \in Slots(g) /\ nb \in Slots(g) /\ lc \in 1..Level(g, slot) /\ lc \in 1..Level(g, nb) /\ nb # slot
    BY DEF Strangers
  <1>1. PICK f : f = Joined(g, slot, nb, lc)
    OBVIOUS
  <1>2. /\ Net(f) /\ SameNodes(f, g) /\ Net(g)
        /\ f.links[slot][lc] = Append(g.links[slot][lc], nb)
        /\ Keeps(f, g, {slot, nb}, lc)
    <2>1. Acquainted(f, g, slot, nb, lc)
      BY <1>1, BothAppended
    <2> QED
      BY <2>1 DEF Acquainted, Strangers
  <1>3. Slots(f) = Slots(g) /\ \A t \in Slots(g) : Level(f, t) = Level(g, t)
    BY <1>2, SameNet
  <1>4. nb \in Slots(f) /\ lc \in 1..Level(f, nb) /\ lc \in 1..Level(f, slot)
    BY <1>0, <1>3
  <1>5. /\ Net(h) /\ SameNodes(h, f) /\ Len(h.links[nb][lc]) <= MaxLinks(lc)
        /\ Keeps(h, f, {nb}, lc)
    BY <1>1, <1>2, <1>4, Shrunk
  <1>6. SameNodes(h, g)
    BY <1>2, <1>5, SameNodesBoth
  <1>7. h.links[slot][lc] = f.links[slot][lc]
    BY <1>0, <1>3, <1>4, <1>5 DEF Keeps
  <1>8. {slot, nb} \cup {nb} = {slot, nb}
    OBVIOUS
  <1>9. Keeps(h, g, {slot, nb}, lc)
    BY <1>2, <1>3, <1>5, <1>8, KeepsBoth
  <1> QED
    BY <1>2, <1>5, <1>6, <1>7, <1>9 DEF Acquainted


(* A new node may be linked to these neighbours on a layer. *)
Linkable(g, slot, lc, nbs) ==
    /\ Net(g) /\ slot \in Slots(g) /\ lc \in 1..Level(g, slot)
    /\ nbs \in Seq(Layer(g, lc) \ {slot}) /\ Distinct(nbs) /\ Len(nbs) <= M
    /\ g.links[slot][lc] = <<>>
    /\ \A t \in Layer(g, lc) : slot \notin Range(g.links[t][lc])

(* The lists of a layer, but for that of one node, keep their bound. *)
Roomy(g, lc, but) == \A t \in Layer(g, lc) \ but : Len(g.links[t][lc]) <= MaxLinks(lc)

(* Some of the neighbours, of which `left` remain, are linked. *)
Linking(h, g, slot, lc, done, left, count) ==
    /\ Net(h) /\ SameNodes(h, g) /\ Keeps(h, g, Slots(g), lc)
    /\ h.links[slot][lc] \in Seq(done) /\ Len(h.links[slot][lc]) <= count
    /\ Roomy(g, lc, {slot}) => Roomy(h, lc, {slot})
    /\ \A nb \in left : slot \notin Range(h.links[nb][lc])

LEMMA LinkingOne ==
    ASSUME NEW g, NEW slot, NEW lc, NEW nbs, Linkable(g, slot, lc, nbs),
           NEW acc, NEW done, NEW left, NEW count, count \in Nat,
           Linking(acc, g, slot, lc, done, left, count),
           NEW nb, nb \in left, nb \notin done, nb \in Layer(g, lc) \ {slot},
           NEW rest, rest = left \ {nb}, rest \subseteq Layer(g, lc) \ {slot},
           NEW h, h = ShrinkLinks(Joined(acc, slot, nb, lc), nb, lc)
    PROVE  Linking(h, g, slot, lc, done \cup {nb}, rest, count + 1)
  <1>1. Net(g) /\ slot \in Slots(g) /\ lc \in 1..Level(g, slot)
    BY DEF Linkable
  <1>2. /\ Net(acc) /\ SameNodes(acc, g) /\ Keeps(acc, g, Slots(g), lc)
        /\ acc.links[slot][lc] \in Seq(done) /\ Len(acc.links[slot][lc]) <= count
        /\ slot \notin Range(acc.links[nb][lc])
    BY DEF Linking
  <1>3. /\ Slots(acc) = Slots(g) /\ Layer(acc, lc) = Layer(g, lc)
        /\ \A t \in Slots(g) : Level(acc, t) = Level(g, t) /\ Level(g, t) \in Nat
    BY <1>1, <1>2, SameNet, NetShape
  <1>4. \A t \in Layer(g, lc) : t \in Slots(g) /\ lc \in 1..Level(g, t)
    BY <1>1, <1>3 DEF Layer
  <1>5. Strangers(acc, slot, nb, lc)
    <2>1. nb \notin Range(acc.links[slot][lc])
      <3>1. \A x \in Range(acc.links[slot][lc]) : x \in done
        BY <1>2 DEF Range
      <3> QED
        BY <3>1
    <2> QED
      BY <1>1, <1>2, <1>3, <1>4, <2>1 DEF Strangers
  <1>6. Acquainted(h, acc, slot, nb, lc) /\ Len(h.links[nb][lc]) <= MaxLinks(lc)
    BY <1>5, LinkedOne
  <1>7. /\ Net(h) /\ SameNodes(h, acc) /\ Keeps(h, acc, {slot, nb}, lc)
        /\ h.links[slot][lc] = Append(acc.links[slot][lc], nb)
    BY <1>6 DEF Acquainted
  <1>8. SameNodes(h, g) /\ Layer(h, lc) = Layer(g, lc)
    <2>1. SameNodes(h, g)
      BY <1>2, <1>7, SameNodesBoth
    <2> QED
      BY <1>1, <1>7, <2>1, SameNet
  <1>9. Keeps(h, g, Slots(g), lc)
    <2>1. Slots(g) \cup {slot, nb} = Slots(g)
      BY <1>1, <1>4
    <2> QED
      BY <1>2, <1>3, <1>7, <2>1, KeepsBoth
  <1>10. h.links[slot][lc] \in Seq(done \cup {nb}) /\ Len(h.links[slot][lc]) <= count + 1
    <2>1. PICK a : a = acc.links[slot][lc]
      OBVIOUS
    <2>2. a \in Seq(done) /\ Len(a) <= count /\ h.links[slot][lc] = Append(a, nb)
      BY <1>2, <1>7, <2>1
    <2>3. a \in Seq(done \cup {nb}) /\ Len(a) \in Nat
      BY <2>2
    <2>4. Append(a, nb) \in Seq(done \cup {nb}) /\ Len(Append(a, nb)) = Len(a) + 1
      BY <2>3
    <2> QED
      BY <2>2, <2>3, <2>4
  <1>11. \A t \in Layer(g, lc) : t # slot /\ t # nb => h.links[t][lc] = acc.links[t][lc]
    BY <1>3, <1>4, <1>7 DEF Keeps
  <1>12. Roomy(g, lc, {slot}) => Roomy(h, lc, {slot})
    <2> SUFFICES ASSUME Roomy(g, lc, {slot}), NEW t \in Layer(g, lc), t # slot
                 PROVE  Len(h.links[t][lc]) <= MaxLinks(lc)
      BY <1>8 DEF Roomy
    <2>1. Len(acc.links[t][lc]) <= MaxLinks(lc)
      BY <1>3 DEF Linking, Roomy
    <2> QED
      BY <1>6, <1>11, <2>1
  <1>13. \A x \in rest : slot \notin Range(h.links[x][lc])
    <2>1. \A x \in rest : x \in Layer(g, lc) /\ x # slot /\ x # nb /\ slot \notin Range(acc.links[x][lc])
      BY DEF Linking
    <2> QED
      BY <1>11, <2>1
  <1> QED
    BY <1>7, <1>8, <1>9, <1>10, <1>12, <1>13 DEF Linking

(* A layer of a new node is linked: nothing else changes. *)
LEMMA LinksBothWays ==
    ASSUME NEW g, NEW slot, NEW lc, NEW nbs, Linkable(g, slot, lc, nbs)
    PROVE  LET h == LinkBothWays(g, slot, lc, nbs)
           IN  /\ Net(h) /\ SameNodes(h, g) /\ Keeps(h, g, Slots(g), lc)
               /\ M <= MMax0 /\ Roomy(g, lc, {}) => Roomy(h, lc, {})
  <1>1. /\ Net(g) /\ slot \in Slots(g) /\ lc \in 1..Level(g, slot)
        /\ nbs \in Seq(Layer(g, lc) \ {slot}) /\ Distinct(nbs) /\ Len(nbs) <= M
        /\ g.links[slot][lc] = <<>>
        /\ \A t \in Layer(g, lc) : slot \notin Range(g.links[t][lc])
    BY DEF Linkable
  <1>2. PICK n \in Nat : n = Len(nbs) /\ DOMAIN nbs = 1..n /\ \A i \in 1..n : nbs[i] \in Layer(g, lc) \ {slot}
    BY <1>1
  <1> DEFINE D == 1..n
             Done(s) == { nbs[i] : i \in s }
             Left(s) == { nbs[i] : i \in D \ s }
             W == [s \in SUBSET D |->
                     { h \in Graphs : Linking(h, g, slot, lc, Done(s), Left(s), Cardinality(s)) }]
             Op(acc, s) == ShrinkLinks(Joined(acc, slot, nbs[Max(s)], lc), nbs[Max(s)], lc)
  <1>3. /\ IsFiniteSet(D) /\ Picks(Places(n), D)
        /\ \A s \in SUBSET D : s # {} =>
               /\ s \ {Max(s)} \in SUBSET D /\ Places(n)[s] = Max(s)
               /\ Max(s) \in D /\ Max(s) \in s
    BY PlacesPick
  <1>4. g \in W[{}]
    <2>1. SameNodes(g, g) /\ Keeps(g, g, Slots(g), lc)
      BY DEF SameNodes, Keeps
    <2>2. g.links[slot][lc] \in Seq(Done({})) /\ Len(g.links[slot][lc]) <= Cardinality({})
      BY <1>1, FS_EmptySet
    <2>3. \A nb \in Left({}) : slot \notin Range(g.links[nb][lc])
      BY <1>1, <1>2
    <2>4. g \in Graphs
      BY <1>1 DEF Net
    <2> HIDE DEF Done, Left
    <2> QED
      BY <1>1, <2>1, <2>2, <2>3, <2>4 DEF Linking
  <1>5. ASSUME NEW s \in SUBSET D, s # {}, NEW acc \in W[s \ {Max(s)}]
        PROVE  Op(acc, s) \in W[s]
    <2>1. PICK k, r, nb : k = Max(s) /\ r = s \ {k} /\ nb = nbs[k]
      OBVIOUS
    <2>2. k \in D /\ k \in s /\ r \in SUBSET D /\ k \notin r /\ s = r \cup {k}
      BY <1>3, <1>5, <2>1
    <2>3. Linking(acc, g, slot, lc, Done(r), Left(r), Cardinality(r))
      BY <2>1, <2>2
    <2>4. nb \in Left(r) /\ nb \notin Done(r) /\ nb \in Layer(g, lc) \ {slot}
      BY <1>1, <1>2, <2>1, <2>2 DEF Distinct
    <2>5. Left(s) = Left(r) \ {nb} /\ Left(s) \subseteq Layer(g, lc) \ {slot}
      <3>1. D \ s = (D \ r) \ {k} /\ k \in D
        BY <2>2
      <3>2. \A i \in D : nbs[i] = nb => i = k
        BY <1>1, <1>2, <2>1, <2>2 DEF Distinct
      <3>3. \A i \in D \ s : nbs[i] \in Left(r) \ {nb}
        BY <3>1, <3>2
      <3>4. ASSUME NEW x \in Left(r) \ {nb}
            PROVE  x \in Left(s)
        <4>1. PICK i \in D \ r : x = nbs[i]
          BY <3>4
        <4>2. i \in D \ s
          BY <2>1, <3>1, <3>4, <4>1
        <4> QED
          BY <4>1, <4>2
      <3>5. Left(s) \subseteq Left(r) \ {nb}
        BY <3>3
      <3>6. Left(s) = Left(r) \ {nb}
        BY <3>4, <3>5
      <3>7. \A i \in D : nbs[i] \in Layer(g, lc) \ {slot}
        BY <1>2
      <3>8. Left(s) \subseteq Layer(g, lc) \ {slot}
        BY <3>7
      <3> HIDE DEF Left
      <3> QED
        BY <3>6, <3>8
    <2>6. Done(s) = Done(r) \cup {nb}
      BY <2>1, <2>2
    <2>7. Cardinality(r) \in Nat /\ Cardinality(s) = Cardinality(r) + 1
      <3>1. IsFiniteSet(s)
        BY <1>3, <1>5, FS_Subset
      <3>2. IsFiniteSet(r)
        BY <3>1, <2>1, FS_RemoveElement
      <3>3. Cardinality(r) \in Nat
        BY <3>2, FS_CardinalityType
      <3> QED
        BY ONLY <2>2, <3>2, <3>3, FS_AddElement
    <2>8. PICK h, done, left : /\ h = ShrinkLinks(Joined(acc, slot, nb, lc), nb, lc)
                               /\ done = Done(r) /\ left = Left(r)
      OBVIOUS
    <2>9. Linking(h, g, slot, lc, done \cup {nb}, Left(s), Cardinality(r) + 1)
      <3> HIDE DEF Done, Left
      <3> QED
        BY <2>3, <2>4, <2>5, <2>7, <2>8, LinkingOne
    <2>10. h \in Graphs
      BY <2>9 DEF Linking, Net
    <2>11. Linking(h, g, slot, lc, Done(s), Left(s), Cardinality(s))
      <3> HIDE DEF Done, Left
      <3> QED
        BY <2>6, <2>7, <2>8, <2>9
    <2>12. h \in W[s]
      <3> HIDE DEF Done, Left
      <3> QED
        BY <2>10, <2>11
    <2> HIDE DEF W
    <2> QED
      BY <2>1, <2>8, <2>12
  <1>6. DOMAIN nbs = D /\ \A s \in SUBSET D : s # {} => \A acc \in W[s \ {Max(s)}] : Op(acc, s) \in W[s]
    BY <1>2, <1>5
  <1> DEFINE pick == Places(n)
             All == UNION { W[s] : s \in SUBSET D }
             step == [p \in (SUBSET D) \X All |-> Op(p[2], p[1])]
             Solves(f) == f = [s \in SUBSET D |-> IF s = {} THEN g ELSE Op(f[s \ {Max(s)}], s)]
  <1>7. /\ IsFiniteSet(D) /\ Picks(pick, D)
         /\ \A s \in SUBSET D : s # {} => s \ {Max(s)} \in SUBSET D /\ pick[s] = Max(s)
    BY <1>3
  <1> HIDE DEF Op, W, D, pick
  <1>8. ASSUME NEW s \in SUBSET D, s # {}, NEW acc \in W[s \ {Max(s)}]
         PROVE  step[<<s, acc>>] = Op(acc, s) /\ Op(acc, s) \in W[s]
    <2>1. acc \in All
      BY <1>7, <1>8
    <2>2. step[<<s, acc>>] = Op(acc, s)
      BY <2>1
    <2> QED
      BY <1>6, <1>8, <2>2
  <1> HIDE DEF step
  <1>9. MayBe(W, g, pick, step, D)
    BY <1>4, <1>7, <1>8 DEF MayBe
  <1>10. PICK it : /\ it = [s \in SUBSET D |-> it[s]] /\ Made(it, g, pick, step, D)
                   /\ \A s \in SUBSET D : it[s] \in W[s]
    BY <1>7, <1>9, FoldMade
  <1>11. Solves(it)
    <2>1. ASSUME NEW s \in SUBSET D
          PROVE  it[s] = IF s = {} THEN g ELSE Op(it[s \ {Max(s)}], s)
      BY <1>7, <1>8, <1>10 DEF Made
    <2> QED
      BY <1>10, <2>1
  <1>12. PICK f : f = CHOOSE e : Solves(e)
    OBVIOUS
  <1>13. Solves(f)
    <2> HIDE DEF Solves
    <2> QED
      BY <1>11, <1>12
  <1>14. MadeWithin(f, W, g, pick, step, D)
    <2>1. ASSUME NEW s \in SUBSET D, s # {}, f[s \ {pick[s]}] \in W[s \ {pick[s]}]
          PROVE  f[s] = step[<<s, f[s \ {pick[s]}]>>]
      <3>1. f[s] = Op(f[s \ {Max(s)}], s)
        BY <1>13, <2>1
      <3> HIDE DEF Solves
      <3> QED
        BY <1>7, <1>8, <2>1, <3>1
    <2>2. f[{}] = g
      BY <1>13
    <2> QED
      BY <2>1, <2>2 DEF MadeWithin
  <1>15. f[D] \in W[D]
    BY <1>7, <1>9, <1>14, FoldStays
  <1> USE DEF D, Op
  <1>16. LinkBothWays(g, slot, lc, nbs) = f[D]
    BY <1>6, <1>12 DEF FoldLeft, MapThenFoldSet, LinkBothWays, Joined
  <1>17. PICK h : h = LinkBothWays(g, slot, lc, nbs)
    OBVIOUS
  <1>18. Linking(h, g, slot, lc, Done(D), Left(D), Cardinality(D))
    BY <1>15, <1>16, <1>17 DEF W
  <1>19. Cardinality(D) = n
    BY FS_Interval
  <1>20. /\ Net(h) /\ SameNodes(h, g) /\ Keeps(h, g, Slots(g), lc) /\ Len(h.links[slot][lc]) <= n
         /\ Roomy(g, lc, {slot}) => Roomy(h, lc, {slot})
    BY <1>18, <1>19 DEF Linking
  <1>21. M <= MMax0 /\ Roomy(g, lc, {}) => Roomy(h, lc, {})
    <2> SUFFICES ASSUME M <= MMax0, Roomy(g, lc, {}), NEW t \in Layer(h, lc)
                 PROVE  Len(h.links[t][lc]) <= MaxLinks(lc)
      BY DEF Roomy
    <2>1. Roomy(g, lc, {slot})
      BY DEF Roomy
    <2>2. CASE t # slot
      BY <1>20, <2>1, <2>2 DEF Roomy
    <2>3. CASE t = slot
      <3>1. Len(h.links[slot][lc]) \in Nat
        <4>1. slot \in Slots(h) /\ lc \in 1..Level(h, slot)
          BY <1>1, <1>20, SameNet
        <4> QED
          BY <1>20, <4>1, NetShape
      <3> QED
        BY <1>1, <1>2, <1>20, <2>3, <3>1, HnswAssumption DEF MaxLinks
    <2> QED
      BY <2>2, <2>3
  <1> QED
    BY <1>17, <1>20, <1>21


-----------------------------------------------------------------------------
(* The descent. *)

(* The links of the nodes `old` lead to those nodes. *)
Enclosed(g, old) ==
    /\ old \subseteq Slots(g)
    /\ \A l \in Nat \ {0} : Closed(g, l, Layer(g, l) \cap old)

LEMMA AllEnclosed ==
    ASSUME NEW g, Net(g)
    PROVE  Enclosed(g, Slots(g))
  <1>1. g.ids \in Seq(Ids) /\ Slots(g) = 1..Len(g.ids) /\ Len(g.ids) \in Nat
    BY GraphShape DEF Net, Graphs
  <1>2. ASSUME NEW l \in Nat \ {0}, NEW s \in Layer(g, l) \cap Slots(g)
        PROVE  g.links[s][l] \in Seq(Layer(g, l) \cap Slots(g))
    <2>1. s \in Slots(g) /\ l \in 1..Level(g, s)
      BY <1>2, NetShape DEF Layer
    <2>2. g.links[s][l] \in Seq(Layer(g, l) \ {s}) /\ Layer(g, l) \subseteq Slots(g)
      BY <2>1, NetShape
    <2> QED
      BY <2>2
  <1> QED
    BY <1>1, <1>2 DEF Enclosed, Closed

(* Old nodes are measured, and so are candidates with them. *)
LEMMA LayersFinite ==
    ASSUME NEW g, Net(g), NEW old, old \subseteq Slots(g), NEW l, NEW dist, Measured(dist, Slots(g))
    PROVE  /\ IsFiniteSet(Layer(g, l) \cap old) /\ Layer(g, l) \cap old \subseteq Int
           /\ Layer(g, l) \cap old \subseteq Slots(g) /\ Measured(dist, Layer(g, l) \cap old)
  <1>1. Layer(g, l) \cap old \subseteq Slots(g)
    OBVIOUS
  <1>2. IsFiniteSet(Slots(g)) /\ Slots(g) \subseteq Nat
    BY NetShape
  <1>3. IsFiniteSet(Layer(g, l) \cap old)
    BY <1>1, <1>2, FS_Subset
  <1> QED
    BY <1>1, <1>2, <1>3 DEF Measured

(* One layer of the descent. *)
Lower(g, dist, ep, l) == Nearest(SearchLayer(g, dist, {ep}, 1, l, Slots(g), NoBudget).results)[2]

LEMMA LowerFound ==
    ASSUME NEW g, Net(g), NEW old, Enclosed(g, old), NEW dist, Measured(dist, Slots(g)),
           NEW l \in Nat \ {0}, NEW ep \in Layer(g, l) \cap old
    PROVE  Lower(g, dist, ep, l) \in Layer(g, l) \cap old
  <1>1. PICK R, st : R = Layer(g, l) \cap old /\ st = SearchLayer(g, dist, {ep}, 1, l, Slots(g), NoBudget)
    OBVIOUS
  <1>2. IsFiniteSet(R) /\ R \subseteq Int /\ R \subseteq Slots(g) /\ Measured(dist, R)
    BY <1>1, LayersFinite DEF Enclosed
  <1>3. Closed(g, l, R)
    BY <1>1 DEF Enclosed
  <1>4. /\ st.results \in SUBSET Cands(dist, R \cap Slots(g))
        /\ {ep} \cap Slots(g) # {} => st.results # {}
    <2>1. Searchable(g, l, R, dist, {ep}, 1)
      BY <1>1, <1>2, <1>3 DEF Searchable
    <2>2. Found(st, R, dist, {ep}, 1, Slots(g), NoBudget)
      BY <1>1, <2>1, SearchLayerFinds
    <2> QED
      BY <2>2 DEF Found
  <1>5. R \cap Slots(g) = R /\ ep \in Slots(g)
    BY <1>1, <1>2
  <1>6. st.results \in SUBSET Cands(dist, R) /\ st.results # {}
    BY <1>4, <1>5
  <1>7. /\ IsFiniteSet(st.results) /\ st.results \subseteq Pairs
        /\ \A c \in Cands(dist, R) : c[2] \in R
    BY <1>2, <1>6, CandsFinite
  <1>8. Nearest(st.results) \in st.results
    BY <1>6, <1>7, NearestOf
  <1>9. Nearest(st.results)[2] \in R
    BY <1>6, <1>7, <1>8
  <1> QED
    BY <1>1, <1>9 DEF Lower

LEMMA Downwards ==
    ASSUME NEW from \in Nat, NEW to \in Nat \ {0}, from >= to
    PROVE  /\ from - to + 1 \in Nat \ {0} /\ Len(Downward(from, to)) = from - to + 1
           /\ DOMAIN Downward(from, to) = 1..(from - to + 1)
           /\ \A i \in 1..(from - to + 1) : Downward(from, to)[i] = from - i + 1 /\ from - i + 1 \in to..from
  <1>1. PICK n \in Nat \ {0} : n = from - to + 1
    OBVIOUS
  <1>2. Downward(from, to) = [i \in 1..n |-> from - i + 1]
    BY <1>1 DEF Downward
  <1> QED
    BY <1>1, <1>2

LEMMA LayersNest ==
    ASSUME NEW g, Net(g), NEW k \in Int, NEW l \in Int, k <= l
    PROVE  Layer(g, l) \subseteq Layer(g, k)
  <1>1. ASSUME NEW s \in Layer(g, l)
        PROVE  s \in Layer(g, k)
    <2>1. s \in Slots(g) /\ l <= Level(g, s) /\ Level(g, s) \in Int
      BY NetShape DEF Layer
    <2> QED
      BY <2>1 DEF Layer
  <1> QED
    BY <1>1

LEMMA DescendsFrom ==
    ASSUME NEW g, Net(g), NEW old, Enclosed(g, old), NEW dist, Measured(dist, Slots(g)),
           NEW from \in Nat, NEW to \in Nat \ {0}, from >= to, g.entry \in Layer(g, from) \cap old
    PROVE  Descend(g, dist, from, to) \in Layer(g, to) \cap old
  <1>1. PICK n, seq : n = from - to + 1 /\ seq = Downward(from, to)
    OBVIOUS
  <1>2. n \in Nat \ {0} /\ DOMAIN seq = 1..n /\ \A i \in 1..n : seq[i] = from - i + 1 /\ from - i + 1 \in to..from
    BY <1>1, Downwards
  <1> DEFINE D == 1..n
             W == [s \in SUBSET D |-> IF s = {} THEN Layer(g, from) \cap old
                                      ELSE Layer(g, from - Max(s) + 1) \cap old]
             Op(acc, s) == Lower(g, dist, acc, seq[Max(s)])
  <1>3. /\ IsFiniteSet(D) /\ Picks(Places(n), D)
        /\ \A s \in SUBSET D : s # {} =>
               /\ s \ {Max(s)} \in SUBSET D /\ Places(n)[s] = Max(s)
               /\ Max(s) \in D /\ Max(s) \in s
    BY <1>2, PlacesPick
  <1>4. g.entry \in W[{}]
    OBVIOUS
  <1>5. ASSUME NEW s \in SUBSET D, s # {}, NEW acc \in W[s \ {Max(s)}]
        PROVE  Op(acc, s) \in W[s]
    <2>0. Max(s) \in D /\ seq[Max(s)] = from - Max(s) + 1 /\ from - Max(s) + 1 \in to..from
      BY <1>2, <1>3, <1>5
    <2>1. PICK k \in D, l \in Nat \ {0} : k = Max(s) /\ l = from - k + 1 /\ l = seq[k] /\ l <= from
      BY <2>0
    <2>2. acc \in Layer(g, l) \cap old
      <3>1. PICK r : r = s \ {k} /\ r \in SUBSET D
        BY <1>3, <1>5, <2>1
      <3>2. CASE r = {}
        <4>1. Layer(g, from) \subseteq Layer(g, l)
          BY <2>1, LayersNest
        <4> QED
          BY <1>5, <2>1, <3>1, <3>2, <4>1
      <3>3. CASE r # {}
        <4>1. Max(r) \in r /\ Max(r) \in D
          BY <1>3, <3>1, <3>3
        <4>2. Max(r) <= k
          BY <1>2, <1>5, <2>1, <3>1, <4>1, MaxOf
        <4>3. PICK j \in Int : j = from - Max(r) + 1 /\ l <= j
          BY <2>1, <4>1, <4>2
        <4>4. Layer(g, j) \subseteq Layer(g, l)
          BY <2>1, <4>3, LayersNest
        <4>5. acc \in Layer(g, j) \cap old
          BY <1>5, <2>1, <3>1, <3>3, <4>3
        <4> QED
          BY <4>4, <4>5
      <3> QED
        BY <3>2, <3>3
    <2>3. Op(acc, s) \in Layer(g, l) \cap old
      BY <2>1, <2>2, LowerFound
    <2> QED
      BY <1>5, <2>1, <2>3
  <1>6. DOMAIN seq = D /\ \A s \in SUBSET D : s # {} => \A acc \in W[s \ {Max(s)}] : Op(acc, s) \in W[s]
    BY <1>2, <1>5
  <1> DEFINE pick == Places(n)
             All == UNION { W[s] : s \in SUBSET D }
             step == [p \in (SUBSET D) \X All |-> Op(p[2], p[1])]
             Solves(f) == f = [s \in SUBSET D |-> IF s = {} THEN g.entry ELSE Op(f[s \ {Max(s)}], s)]
  <1>7. /\ IsFiniteSet(D) /\ Picks(pick, D)
         /\ \A s \in SUBSET D : s # {} => s \ {Max(s)} \in SUBSET D /\ pick[s] = Max(s)
    BY <1>3
  <1> HIDE DEF Op, W, D, pick
  <1>8. ASSUME NEW s \in SUBSET D, s # {}, NEW acc \in W[s \ {Max(s)}]
         PROVE  step[<<s, acc>>] = Op(acc, s) /\ Op(acc, s) \in W[s]
    <2>1. acc \in All
      BY <1>7, <1>8
    <2>2. step[<<s, acc>>] = Op(acc, s)
      BY <2>1
    <2> QED
      BY <1>6, <1>8, <2>2
  <1> HIDE DEF step
  <1>9. MayBe(W, g.entry, pick, step, D)
    BY <1>4, <1>7, <1>8 DEF MayBe
  <1>10. PICK it : /\ it = [s \in SUBSET D |-> it[s]] /\ Made(it, g.entry, pick, step, D)
                   /\ \A s \in SUBSET D : it[s] \in W[s]
    BY <1>7, <1>9, FoldMade
  <1>11. Solves(it)
    <2>1. ASSUME NEW s \in SUBSET D
          PROVE  it[s] = IF s = {} THEN g.entry ELSE Op(it[s \ {Max(s)}], s)
      BY <1>7, <1>8, <1>10 DEF Made
    <2> QED
      BY <1>10, <2>1
  <1>12. PICK f : f = CHOOSE e : Solves(e)
    OBVIOUS
  <1>13. Solves(f)
    <2> HIDE DEF Solves
    <2> QED
      BY <1>11, <1>12
  <1>14. MadeWithin(f, W, g.entry, pick, step, D)
    <2>1. ASSUME NEW s \in SUBSET D, s # {}, f[s \ {pick[s]}] \in W[s \ {pick[s]}]
          PROVE  f[s] = step[<<s, f[s \ {pick[s]}]>>]
      <3>1. f[s] = Op(f[s \ {Max(s)}], s)
        BY <1>13, <2>1
      <3> HIDE DEF Solves
      <3> QED
        BY <1>7, <1>8, <2>1, <3>1
    <2>2. f[{}] = g.entry
      BY <1>13
    <2> QED
      BY <2>1, <2>2 DEF MadeWithin
  <1>15. f[D] \in W[D]
    BY <1>7, <1>9, <1>14, FoldStays
  <1> USE DEF D, Op
  <1>16. Descend(g, dist, from, to) = f[D]
    BY <1>1, <1>6, <1>12 DEF FoldLeft, MapThenFoldSet, Descend, Lower
  <1>17. D \in SUBSET D /\ D # {} /\ Max(D) = n
    <2>1. D \in SUBSET D /\ n \in D
      BY <1>2
    <2>2. Max(D) \in D /\ n <= Max(D)
      BY <1>2, <2>1, MaxOf
    <2> QED
      BY <1>2, <2>1, <2>2
  <1>18. W[D] = Layer(g, to) \cap old
    <2>1. from - n + 1 = to
      BY <1>1
    <2>2. W[D] = Layer(g, from - Max(D) + 1) \cap old
      <3> HIDE DEF D
      <3> QED
        BY <1>17 DEF W
    <2> QED
      BY <1>17, <2>1, <2>2
  <1> QED
    BY <1>15, <1>16, <1>18


-----------------------------------------------------------------------------
(* A new node takes its slot. *)

LEMMA Appended ==
    ASSUME NEW S, NEW q, q \in Seq(S), NEW x, x \in S
    PROVE  /\ Append(q, x) \in Seq(S) /\ Len(q) \in Nat /\ Len(Append(q, x)) = Len(q) + 1
           /\ Append(q, x)[Len(q) + 1] = x /\ \A i \in 1..Len(q) : Append(q, x)[i] = q[i]
  OBVIOUS

(* p is g with one more node, whose lists are empty. *)
Grown(p, g, id, v, level) ==
    /\ p \in Graphs /\ Len(g.ids) \in Nat /\ Len(p.ids) = Len(g.ids) + 1
    /\ p.ids[Len(g.ids) + 1] = id /\ p.data[Len(g.ids) + 1] = v /\ p.deleted[Len(g.ids) + 1] = FALSE
    /\ Level(p, Len(g.ids) + 1) = level
    /\ \A l \in 1..level : p.links[Len(g.ids) + 1][l] = <<>>
    /\ \A s \in Slots(g) : /\ p.ids[s] = g.ids[s] /\ p.data[s] = g.data[s] /\ p.deleted[s] = g.deleted[s]
                           /\ p.links[s] = g.links[s] /\ Level(p, s) = Level(g, s)
    /\ p.entry = g.entry /\ p.deleted_count = g.deleted_count
    /\ p.slot_of = [x \in DOMAIN g.slot_of \cup {id} |-> IF x = id THEN Len(g.ids) + 1 ELSE g.slot_of[x]]
    /\ Len(p.data) = Len(p.ids) /\ Len(p.links) = Len(p.ids) /\ Len(p.deleted) = Len(p.ids)

LEMMA PlacedGrown ==
    ASSUME NEW g, Net(g), NEW id \in Ids, NEW v \in Points, NEW level \in Nat \ {0}
    PROVE  Grown(Placed(g, id, v, level), g, id, v, level)
  <1>1. /\ g.ids \in Seq(Ids) /\ g.data \in Seq(Points) /\ g.links \in Seq(Seq(Seq(Nat)))
        /\ g.deleted \in Seq(BOOLEAN) /\ g.slot_of \in IdMaps /\ g \in Graphs /\ Even(g)
        /\ Len(g.data) = Len(g.ids) /\ Len(g.links) = Len(g.ids) /\ Len(g.deleted) = Len(g.ids)
    BY DEF Net, Graphs, Even
  <1>2. PICK p, n : p = Placed(g, id, v, level) /\ n = Len(g.ids)
    OBVIOUS
  <1>3. PICK none : none = [l \in 1..level |-> <<>>]
    OBVIOUS
  <1>4. PICK map : map = [x \in DOMAIN g.slot_of \cup {id} |-> IF x = id THEN n + 1 ELSE g.slot_of[x]]
    OBVIOUS
  <1>5. none \in Seq(Seq(Nat)) /\ Len(none) = level /\ \A l \in 1..level : none[l] = <<>>
    BY <1>3
  <1>6. PICK I, D, L, B : /\ I = Append(g.ids, id) /\ D = Append(g.data, v) /\ L = Append(g.links, none)
                          /\ B = Append(g.deleted, FALSE)
    OBVIOUS
  <1>7. /\ I \in Seq(Ids) /\ n \in Nat /\ Len(I) = n + 1 /\ I[n + 1] = id
        /\ \A i \in 1..n : I[i] = g.ids[i]
    BY <1>1, <1>2, <1>6, Appended
  <1>8. /\ D \in Seq(Points) /\ Len(D) = n + 1 /\ D[n + 1] = v
        /\ \A i \in 1..n : D[i] = g.data[i]
    BY <1>1, <1>2, <1>6, Appended
  <1>9. /\ L \in Seq(Seq(Seq(Nat))) /\ Len(L) = n + 1 /\ L[n + 1] = none
        /\ \A i \in 1..n : L[i] = g.links[i]
    <2>1. PICK T, q : T = Seq(Seq(Nat)) /\ q = g.links
      OBVIOUS
    <2>2. q \in Seq(T) /\ none \in T /\ Len(q) = n /\ L = Append(q, none)
      BY <1>1, <1>2, <1>5, <1>6, <2>1
    <2>3. L \in Seq(T) /\ Len(L) = n + 1 /\ L[n + 1] = none /\ \A i \in 1..n : L[i] = q[i]
      BY ONLY <2>2, Appended
    <2> QED
      BY <2>1, <2>3
  <1>10. /\ B \in Seq(BOOLEAN) /\ Len(B) = n + 1 /\ B[n + 1] = FALSE
         /\ \A i \in 1..n : B[i] = g.deleted[i]
    <2>1. PICK T, x, q : T = BOOLEAN /\ x = FALSE /\ q = g.deleted
      OBVIOUS
    <2>2. q \in Seq(T) /\ x \in T /\ Len(q) = n /\ B = Append(q, x)
      BY <1>1, <1>2, <1>6, <2>1
    <2>3. B \in Seq(T) /\ Len(B) = n + 1 /\ B[n + 1] = x /\ \A i \in 1..n : B[i] = q[i]
      BY ONLY <2>2, Appended
    <2> QED
      BY <2>1, <2>3
  <1>11. map \in IdMaps
    <2>1. DOMAIN g.slot_of \in SUBSET Ids /\ \A x \in DOMAIN g.slot_of : g.slot_of[x] \in Nat
      BY <1>1 DEF IdMaps
    <2>2. map \in [DOMAIN g.slot_of \cup {id} -> Nat] /\ DOMAIN g.slot_of \cup {id} \in SUBSET Ids
      BY <1>4, <1>7, <2>1
    <2> QED
      BY <2>2 DEF IdMaps
  <1>12. p = [g EXCEPT !.ids = I, !.data = D, !.deleted = B, !.slot_of = map, !.links = L]
    BY <1>2, <1>3, <1>4, <1>6 DEF Placed
  <1>13. /\ p \in Graphs /\ p.ids = I /\ p.data = D /\ p.deleted = B /\ p.slot_of = map /\ p.links = L
         /\ p.entry = g.entry /\ p.deleted_count = g.deleted_count
    BY ONLY <1>1, <1>7, <1>8, <1>9, <1>10, <1>11, <1>12 DEF Graphs
  <1>14. Slots(g) = 1..n
    BY <1>2 DEF Slots
  <1>15. \A s \in Slots(g) : /\ p.ids[s] = g.ids[s] /\ p.data[s] = g.data[s] /\ p.deleted[s] = g.deleted[s]
                             /\ p.links[s] = g.links[s] /\ Level(p, s) = Level(g, s)
    BY <1>7, <1>8, <1>9, <1>10, <1>13, <1>14 DEF Level
  <1>16. Level(p, n + 1) = level /\ \A l \in 1..level : p.links[n + 1][l] = <<>>
    BY <1>5, <1>9, <1>13 DEF Level
  <1>17. Grown(p, g, id, v, level)
    BY ONLY <1>2, <1>4, <1>7, <1>8, <1>9, <1>10, <1>13, <1>15, <1>16 DEF Grown
  <1> QED
    BY <1>2, <1>17

LEMMA GrownNet ==
    ASSUME NEW g, Net(g), NEW p, NEW id, NEW v, NEW level \in Nat \ {0}, Grown(p, g, id, v, level)
    PROVE  /\ Net(p) /\ Len(g.ids) + 1 \notin Slots(g) /\ Slots(p) = Slots(g) \cup {Len(g.ids) + 1}
           /\ \A l \in Nat \ {0} :
                  Layer(p, l) = IF l <= level THEN Layer(g, l) \cup {Len(g.ids) + 1} ELSE Layer(g, l)
           /\ Enclosed(p, Slots(g))
  <1>1. PICK n \in Nat : n = Len(g.ids) /\ Len(p.ids) = n + 1
    BY DEF Grown
  <1>2. Slots(g) = 1..n /\ Slots(p) = 1..(n + 1)
    BY <1>1 DEF Slots
  <1>3. n + 1 \notin Slots(g) /\ Slots(p) = Slots(g) \cup {n + 1}
    BY <1>2
  <1>4. /\ \A s \in Slots(g) : p.links[s] = g.links[s] /\ Level(p, s) = Level(g, s)
        /\ Level(p, n + 1) = level /\ \A l \in 1..level : p.links[n + 1][l] = <<>>
        /\ p \in Graphs /\ Len(p.data) = Len(p.ids) /\ Len(p.links) = Len(p.ids) /\ Len(p.deleted) = Len(p.ids)
    BY <1>1 DEF Grown
  <1>5. ASSUME NEW l \in Nat \ {0}
        PROVE  Layer(p, l) = IF l <= level THEN Layer(g, l) \cup {n + 1} ELSE Layer(g, l)
    BY <1>3, <1>4 DEF Layer
  <1>6. Even(p)
    <2>1. \A s \in Slots(p) : 1 <= Level(p, s)
      BY <1>3, <1>4, NetShape
    <2> QED
      BY <1>4, <2>1 DEF Even
  <1>7. Linked(p)
    <2> SUFFICES ASSUME NEW s \in Slots(p), NEW l \in 1..Level(p, s)
                 PROVE  p.links[s][l] \in Seq(Layer(p, l) \ {s}) /\ Distinct(p.links[s][l])
      BY DEF Linked
    <2>1. CASE s \in Slots(g)
      <3>1. l \in 1..Level(g, s) /\ l \in Nat \ {0} /\ p.links[s][l] = g.links[s][l]
        BY <1>4, <2>1, NetShape
      <3>2. g.links[s][l] \in Seq(Layer(g, l) \ {s}) /\ Distinct(g.links[s][l])
        BY <2>1, <3>1, NetShape
      <3>3. Layer(g, l) \ {s} \subseteq Layer(p, l) \ {s}
        BY <1>5, <3>1
      <3> QED
        BY <3>1, <3>2, <3>3
    <2>2. CASE s = n + 1
      <3>1. p.links[s][l] = <<>>
        BY <1>4, <2>2
      <3> QED
        BY <3>1 DEF Distinct
    <2> QED
      BY <1>3, <2>1, <2>2
  <1>8. Net(p)
    BY <1>4, <1>6, <1>7 DEF Net
  <1>9. Enclosed(p, Slots(g))
    <2> SUFFICES ASSUME NEW l \in Nat \ {0}
                 PROVE  Closed(p, l, Layer(p, l) \cap Slots(g))
      BY <1>3 DEF Enclosed
    <2>1. Layer(p, l) \cap Slots(g) = Layer(g, l)
      <3>1. Layer(g, l) \subseteq Slots(g)
        BY NetShape
      <3> QED
        BY <1>3, <1>5, <3>1
    <2>2. ASSUME NEW s \in Layer(g, l)
          PROVE  p.links[s][l] \in Seq(Layer(g, l))
      <3>1. s \in Slots(g) /\ l \in 1..Level(g, s)
        BY NetShape DEF Layer
      <3>2. g.links[s][l] \in Seq(Layer(g, l) \ {s}) /\ p.links[s] = g.links[s]
        BY <1>4, <3>1, NetShape
      <3> QED
        BY <3>2
    <2>3. Layer(g, l) \subseteq 1..(n + 1)
      BY <1>2, NetShape
    <2> QED
      BY <1>1, <2>1, <2>2, <2>3 DEF Closed
  <1> QED
    BY <1>1, <1>3, <1>5, <1>8, <1>9


-----------------------------------------------------------------------------
(* Linking a new node layer by layer. *)

(* Every list keeps its bound. *)
Bounded(g) == \A l \in Nat \ {0} : Roomy(g, l, {})

(* p is g with one more node, of which the layers `done` are linked; the   *)
(* next search starts from nodes that reach up to the layer `low`.         *)
Building(acc, p, g, done, low) ==
    /\ Net(acc.graph) /\ SameNodes(acc.graph, p)
    /\ \A t \in Slots(p) : \A l \in 1..Level(p, t) : l \notin done => acc.graph.links[t][l] = p.links[t][l]
    /\ M <= MMax0 /\ Bounded(p) => Bounded(acc.graph)
    /\ acc.eps \in SUBSET Layer(g, low)

LEMMA BoundedGrown ==
    ASSUME NEW g, Net(g), NEW p, NEW id, NEW v, NEW level \in Nat \ {0}, Grown(p, g, id, v, level), Bounded(g)
    PROVE  Bounded(p)
  <1> SUFFICES ASSUME NEW l \in Nat \ {0}, NEW t \in Layer(p, l)
               PROVE  Len(p.links[t][l]) <= MaxLinks(l)
    BY DEF Bounded, Roomy
  <1>1. t \in Slots(p) /\ l \in 1..Level(p, t)
    BY GrownNet, NetShape DEF Layer
  <1>2. MaxLinks(l) \in Nat
    BY HnswAssumption DEF MaxLinks
  <1>3. CASE t \in Slots(g)
    <2>1. p.links[t] = g.links[t] /\ Level(p, t) = Level(g, t)
      BY <1>3 DEF Grown
    <2>2. t \in Layer(g, l)
      BY <1>1, <1>3, <2>1, NetShape DEF Layer
    <2> QED
      BY <2>1, <2>2 DEF Bounded, Roomy
  <1>4. CASE t = Len(g.ids) + 1
    <2>1. p.links[t][l] = <<>>
      BY <1>1, <1>4 DEF Grown
    <2> QED
      BY <1>2, <2>1
  <1> QED
    BY <1>1, <1>3, <1>4, GrownNet

LEMMA LayerBuilt ==
    ASSUME NEW g, Net(g), NEW p, NEW id, NEW v, NEW level \in Nat \ {0}, Grown(p, g, id, v, level),
           NEW dist, Measured(dist, Slots(p)),
           NEW acc, NEW done, NEW low \in Int, Building(acc, p, g, done, low),
           NEW lc \in 1..level, lc \notin done, lc <= low
    PROVE  Building(LayerLinked(acc, Len(g.ids) + 1, dist, lc), p, g, done \cup {lc}, lc)
  <1>1. PICK a, slot, R : a = acc.graph /\ slot = Len(g.ids) + 1 /\ R = Layer(g, lc)
    OBVIOUS
  <1>2. /\ Net(a) /\ SameNodes(a, p) /\ acc.eps \in SUBSET Layer(g, low)
        /\ \A t \in Slots(p) : \A l \in 1..Level(p, t) : l \notin done => a.links[t][l] = p.links[t][l]
        /\ M <= MMax0 /\ Bounded(p) => Bounded(a)
    BY <1>1 DEF Building
  <1>3. Net(p) /\ slot \notin Slots(g) /\ Slots(p) = Slots(g) \cup {slot} /\ Enclosed(p, Slots(g))
        /\ Layer(p, lc) = R \cup {slot} /\ R \subseteq Slots(g)
    <2>1. Layer(p, lc) = R \cup {slot}
      <3>1. lc \in Nat \ {0} /\ lc <= level
        OBVIOUS
      <3> QED
        BY <1>1, <3>1, GrownNet
    <2> QED
      BY <1>1, <2>1, GrownNet, NetShape
  <1>4. Slots(a) = Slots(p) /\ Layer(a, lc) = R \cup {slot} /\ \A t \in Slots(p) : Level(a, t) = Level(p, t)
    BY <1>2, <1>3, SameNet
  <1>5. acc.eps \in SUBSET R
    BY <1>1, <1>2, LayersNest
  <1>6. \A t \in Slots(p) : lc <= Level(p, t) => a.links[t][lc] = p.links[t][lc]
    <2>1. \A t \in Slots(p) : Level(p, t) \in Nat
      BY <1>3, NetShape
    <2> QED
      BY <1>2, <2>1
  <1>7. IsFiniteSet(R) /\ R \subseteq Int /\ Measured(dist, R)
    <2>1. IsFiniteSet(R) /\ Slots(g) \subseteq Nat
      BY <1>1, NetShape
    <2> QED
      BY <1>3, <2>1 DEF Measured
  <1>8. Closed(a, lc, R)
    <2>1. Layer(p, lc) \cap Slots(g) = R
      BY <1>3
    <2>2. Closed(p, lc, R)
      BY <1>3, <2>1 DEF Enclosed
    <2>3. \A t \in R : t \in Slots(p) /\ lc <= Level(p, t)
      BY <1>3 DEF Layer
    <2>4. a.ids = p.ids
      BY <1>2 DEF SameNodes
    <2> QED
      BY <1>6, <2>2, <2>3, <2>4 DEF Closed
  <1>9. PICK st, cands : /\ st = SearchLayer(a, dist, acc.eps, EfConstruction, lc, Slots(a), NoBudget)
                         /\ cands = st.results
    OBVIOUS
  <1>10. cands \in SUBSET Cands(dist, R)
    <2>1. Searchable(a, lc, R, dist, acc.eps, EfConstruction)
      BY <1>5, <1>7, <1>8, HnswAssumption DEF Searchable
    <2>2. Found(st, R, dist, acc.eps, EfConstruction, Slots(a), NoBudget)
      BY <1>9, <2>1, SearchLayerFinds
    <2>3. R \cap Slots(a) = R
      BY <1>3, <1>4
    <2> QED
      BY <1>9, <2>2, <2>3 DEF Found
  <1>11. PICK nbs : nbs = SelectNeighbors(a, cands, M)
    OBVIOUS
  <1>12. nbs \in Seq(R) /\ Len(nbs) <= M /\ Distinct(nbs)
    <2>1. M \in Nat
      BY HnswAssumption
    <2> QED
      BY ONLY <1>7, <1>10, <1>11, <2>1, SelectionOf
  <1>13. p.links[slot][lc] = <<>> /\ slot \in Slots(p) /\ lc \in 1..Level(p, slot)
    BY <1>1, <1>3 DEF Grown
  <1>14. \A t \in R : slot \notin Range(a.links[t][lc])
    <2>1. \A t \in R : a.links[t][lc] \in Seq(R)
      BY <1>8 DEF Closed
    <2>2. \A q \in Seq(R) : slot \notin Range(q)
      BY <1>3 DEF Range
    <2> QED
      BY <2>1, <2>2
  <1>15. Linkable(a, slot, lc, nbs)
    <2>1. slot \in Slots(a) /\ lc \in 1..Level(a, slot) /\ a.links[slot][lc] = <<>>
      BY <1>4, <1>6, <1>13
    <2>2. slot \notin Range(<<>>)
      BY DEF Range
    <2>3. \A t \in Layer(a, lc) : slot \notin Range(a.links[t][lc])
      BY <1>4, <1>14, <2>1, <2>2
    <2>4. Layer(a, lc) \ {slot} = R
      BY <1>3, <1>4
    <2> QED
      BY <1>2, <1>12, <2>1, <2>3, <2>4 DEF Linkable
  <1>16. PICK h : h = LinkBothWays(a, slot, lc, nbs)
    OBVIOUS
  <1>17. /\ Net(h) /\ SameNodes(h, a) /\ Keeps(h, a, Slots(a), lc)
         /\ M <= MMax0 /\ Roomy(a, lc, {}) => Roomy(h, lc, {})
    BY <1>15, <1>16, LinksBothWays
  <1>18. PICK r : r = LayerLinked(acc, slot, dist, lc)
    OBVIOUS
  <1>19. r.graph = h /\ r.eps = SlotsOf(cands)
    BY <1>1, <1>9, <1>11, <1>16, <1>18 DEF LayerLinked
  <1>20. SameNodes(h, p)
    BY <1>2, <1>17, SameNodesBoth
  <1>21. \A t \in Slots(p) : \A l \in 1..Level(p, t) : l # lc => h.links[t][l] = a.links[t][l]
    BY <1>4, <1>17 DEF Keeps
  <1>22. \A t \in Slots(p) : \A l \in 1..Level(p, t) :
             l \notin done \cup {lc} => h.links[t][l] = p.links[t][l]
    BY <1>2, <1>21
  <1>23. ASSUME M <= MMax0, Bounded(p)
         PROVE  Bounded(h)
    <2>1. Bounded(a)
      BY <1>2, <1>23
    <2> SUFFICES ASSUME NEW l \in Nat \ {0}, NEW t \in Layer(h, l)
                 PROVE  Len(h.links[t][l]) <= MaxLinks(l)
      BY DEF Bounded, Roomy
    <2>2. t \in Layer(a, l) /\ t \in Slots(p) /\ l \in 1..Level(p, t)
      <3>1. Layer(h, l) = Layer(a, l)
        BY <1>2, <1>17, SameNet
      <3>2. t \in Slots(p) /\ l <= Level(p, t) /\ Level(p, t) \in Nat
        BY <1>3, <1>4, <3>1, NetShape DEF Layer
      <3> QED
        BY <3>1, <3>2
    <2>3. CASE l = lc
      <3>1. Roomy(a, lc, {})
        BY <2>1 DEF Bounded
      <3> QED
        BY <1>17, <1>23, <2>3, <3>1 DEF Roomy
    <2>4. CASE l # lc
      <3>1. h.links[t][l] = a.links[t][l]
        BY <1>21, <2>2, <2>4
      <3> QED
        BY <2>1, <2>2, <3>1 DEF Bounded, Roomy
    <2> QED
      BY <2>3, <2>4
  <1>24. SlotsOf(cands) \in SUBSET R
    <2>1. \A c \in Cands(dist, R) : c[2] \in R
      BY <1>7, CandsFinite
    <2> QED
      BY <1>10, <2>1 DEF SlotsOf
  <1>25. Building(r, p, g, done \cup {lc}, lc)
    BY <1>1, <1>17, <1>19, <1>20, <1>22, <1>23, <1>24 DEF Building
  <1> QED
    BY <1>1, <1>18, <1>25

(* All the layers from `top` down. *)
Built(p, slot, dist, ep, top) ==
    FoldLeft(LAMBDA acc, lc : LayerLinked(acc, slot, dist, lc), [graph |-> p, eps |-> {ep}], Downward(top, 1)).graph

LEMMA AllLayersBuilt ==
    ASSUME NEW g, Net(g), NEW p, NEW id, NEW v, NEW level \in Nat \ {0}, Grown(p, g, id, v, level),
           NEW dist, Measured(dist, Slots(p)), NEW top \in 1..level, NEW ep \in Layer(g, top),
           NEW slot, slot = Len(g.ids) + 1
    PROVE  LET h == Built(p, slot, dist, ep, top)
           IN  Net(h) /\ SameNodes(h, p) /\ (M <= MMax0 /\ Bounded(p) => Bounded(h))
  <1>1. PICK n, seq : n = top /\ seq = Downward(top, 1)
    OBVIOUS
  <1>2. n \in Nat \ {0} /\ DOMAIN seq = 1..n /\ \A i \in 1..n : seq[i] = top - i + 1 /\ top - i + 1 \in 1..top
    <2>1. PICK from, to : from = top /\ to = 1
      OBVIOUS
    <2>2. from \in Nat /\ to \in Nat \ {0} /\ from >= to /\ from - to + 1 = top
      BY <2>1
    <2>3. /\ from - to + 1 \in Nat \ {0} /\ DOMAIN Downward(from, to) = 1..(from - to + 1)
          /\ \A i \in 1..(from - to + 1) : Downward(from, to)[i] = from - i + 1 /\ from - i + 1 \in to..from
      BY <2>2, Downwards
    <2> QED
      BY <1>1, <2>1, <2>2, <2>3
  <1>3. Net(p) /\ p \in Graphs
    BY GrownNet DEF Net
  <1> DEFINE D == 1..n
             Done(s) == { top - i + 1 : i \in s }
             Low(s) == IF s = {} THEN top ELSE top - Max(s) + 1
             All0 == [graph : Graphs, eps : SUBSET Slots(g)]
             W == [s \in SUBSET D |-> { acc \in All0 : Building(acc, p, g, Done(s), Low(s)) }]
             Op(acc, s) == LayerLinked(acc, slot, dist, seq[Max(s)])
             base == [graph |-> p, eps |-> {ep}]
  <1>4. /\ IsFiniteSet(D) /\ Picks(Places(n), D)
        /\ \A s \in SUBSET D : s # {} =>
               /\ s \ {Max(s)} \in SUBSET D /\ Places(n)[s] = Max(s)
               /\ Max(s) \in D /\ Max(s) \in s
    BY <1>2, PlacesPick
  <1>5. base \in W[{}]
    <2>1. base.graph = p /\ base.eps = {ep} /\ SameNodes(p, p)
      BY DEF SameNodes
    <2>2. Building(base, p, g, Done({}), Low({}))
      BY <1>3, <2>1 DEF Building
    <2>3. base \in All0
      BY <1>3, NetShape
    <2> QED
      BY <2>2, <2>3
  <1>6. ASSUME NEW s \in SUBSET D, s # {}, NEW acc \in W[s \ {Max(s)}]
        PROVE  Op(acc, s) \in W[s]
    <2>0. Max(s) \in D /\ seq[Max(s)] = top - Max(s) + 1 /\ top - Max(s) + 1 \in 1..top
      BY <1>2, <1>4, <1>6
    <2>1. PICK k \in D, lc \in 1..level : k = Max(s) /\ lc = top - k + 1 /\ lc = seq[k] /\ lc <= top
      BY <2>0
    <2>2. PICK r : r = s \ {k} /\ r \in SUBSET D /\ k \notin r /\ s = r \cup {k}
      <3>1. k \in s /\ s \ {k} \in SUBSET D
        BY <1>4, <1>6, <2>1
      <3>2. k \notin s \ {k} /\ s = (s \ {k}) \cup {k}
        BY <3>1
      <3>3. PICK r : r = s \ {k}
        OBVIOUS
      <3> QED
        BY <3>1, <3>2, <3>3
    <2>3. acc \in All0 /\ Building(acc, p, g, Done(r), Low(r))
      BY <1>6, <2>1, <2>2
    <2>4. Done(s) = Done(r) \cup {lc} /\ lc \notin Done(r)
      <3>1. Done(s) = Done(r) \cup {lc}
        BY <2>1, <2>2
      <3>2. \A i \in r : i \in Int /\ i # k
        BY <2>2
      <3>3. lc \notin Done(r)
        BY <2>1, <3>2
      <3> QED
        BY <3>1, <3>3
    <2>5. Low(r) \in Int /\ lc <= Low(r)
      <3>1. CASE r = {}
        BY <2>1, <3>1
      <3>2. CASE r # {}
        <4>1. Max(r) \in r /\ Max(r) \in D
          BY <1>4, <2>2, <3>2
        <4>2. Max(r) <= k
          BY <1>2, <1>6, <2>1, <2>2, <4>1, MaxOf
        <4> QED
          BY <2>1, <3>2, <4>1, <4>2
      <3> QED
        BY <3>1, <3>2
    <2>6. Low(s) = lc
      BY <1>6, <2>1
    <2>7. PICK x, done, low : x = LayerLinked(acc, slot, dist, lc) /\ done = Done(r) /\ low = Low(r)
      OBVIOUS
    <2> HIDE DEF Done, Low, All0
    <2>8. Building(x, p, g, done \cup {lc}, lc)
      BY <2>3, <2>4, <2>5, <2>7, LayerBuilt
    <2>9. Building(x, p, g, Done(s), Low(s))
      BY <2>4, <2>6, <2>7, <2>8
    <2>10. x \in All0
      <3>1. x.graph \in Graphs /\ x.eps \in SUBSET Slots(g)
        BY <2>8, NetShape DEF Building, Net
      <3>2. x = [graph |-> x.graph, eps |-> x.eps]
        BY <2>7 DEF LayerLinked
      <3> QED
        BY <3>1, <3>2 DEF All0
    <2>11. x \in W[s]
      BY <2>9, <2>10
    <2> HIDE DEF W
    <2> QED
      BY <2>1, <2>7, <2>11
  <1>7. DOMAIN seq = D /\ \A s \in SUBSET D : s # {} => \A acc \in W[s \ {Max(s)}] : Op(acc, s) \in W[s]
    BY <1>2, <1>6
  <1>8. PICK first : first = base
    OBVIOUS
  <1>9. first \in W[{}]
    BY <1>5, <1>8
  <1> HIDE DEF base
  <1> DEFINE pick == Places(n)
             All == UNION { W[s] : s \in SUBSET D }
             step == [e \in (SUBSET D) \X All |-> Op(e[2], e[1])]
             Solves(f) == f = [s \in SUBSET D |-> IF s = {} THEN first ELSE Op(f[s \ {Max(s)}], s)]
  <1>10. /\ IsFiniteSet(D) /\ Picks(pick, D)
         /\ \A s \in SUBSET D : s # {} => s \ {Max(s)} \in SUBSET D /\ pick[s] = Max(s)
    BY <1>4
  <1> HIDE DEF Op, W, D, pick
  <1>11. ASSUME NEW s \in SUBSET D, s # {}, NEW acc \in W[s \ {Max(s)}]
         PROVE  step[<<s, acc>>] = Op(acc, s) /\ Op(acc, s) \in W[s]
    <2>1. acc \in All
      BY <1>10, <1>11
    <2>2. step[<<s, acc>>] = Op(acc, s)
      BY <2>1
    <2> QED
      BY <1>7, <1>11, <2>2
  <1> HIDE DEF step
  <1>12. MayBe(W, first, pick, step, D)
    BY <1>9, <1>10, <1>11 DEF MayBe
  <1>13. PICK it : /\ it = [s \in SUBSET D |-> it[s]] /\ Made(it, first, pick, step, D)
                   /\ \A s \in SUBSET D : it[s] \in W[s]
    BY <1>10, <1>12, FoldMade
  <1>14. Solves(it)
    <2>1. ASSUME NEW s \in SUBSET D
          PROVE  it[s] = IF s = {} THEN first ELSE Op(it[s \ {Max(s)}], s)
      BY <1>10, <1>11, <1>13 DEF Made
    <2> QED
      BY <1>13, <2>1
  <1>15. PICK f : f = CHOOSE e : Solves(e)
    OBVIOUS
  <1>16. Solves(f)
    <2> HIDE DEF Solves
    <2> QED
      BY <1>14, <1>15
  <1>17. MadeWithin(f, W, first, pick, step, D)
    <2>1. ASSUME NEW s \in SUBSET D, s # {}, f[s \ {pick[s]}] \in W[s \ {pick[s]}]
          PROVE  f[s] = step[<<s, f[s \ {pick[s]}]>>]
      <3>1. f[s] = Op(f[s \ {Max(s)}], s)
        BY <1>16, <2>1
      <3> HIDE DEF Solves
      <3> QED
        BY <1>10, <1>11, <2>1, <3>1
    <2>2. f[{}] = first
      BY <1>16
    <2> QED
      BY <2>1, <2>2 DEF MadeWithin
  <1>18. f[D] \in W[D]
    BY <1>10, <1>12, <1>17, FoldStays
  <1> USE DEF D, Op
  <1>19. FoldLeft(LAMBDA acc, lc : LayerLinked(acc, slot, dist, lc), first, seq) = f[D]
    BY <1>1, <1>7, <1>15 DEF FoldLeft, MapThenFoldSet
  <1>20. PICK out : out = f[D]
    OBVIOUS
  <1>21. Building(out, p, g, Done(D), Low(D))
    BY <1>18, <1>20 DEF W
  <1>22. Built(p, slot, dist, ep, top) = out.graph
    BY <1>1, <1>8, <1>19, <1>20 DEF Built, base
  <1> QED
    BY <1>21, <1>22 DEF Building


-----------------------------------------------------------------------------
(* An insert. *)

(* The entry point is as EntryTallest has it, of any graph. *)
TallEntry(g) ==
    IF g.entry = NoEntry THEN LiveSlots(g) = {}
    ELSE /\ g.entry \in LiveSlots(g)
         /\ \A s \in LiveSlots(g) : Level(g, s) <= Level(g, g.entry)

(* The id map is the inverse of the ids of the live slots. *)
Indexed(g) ==
    /\ g.slot_of \in [DOMAIN g.slot_of -> LiveSlots(g)]
    /\ \A id \in DOMAIN g.slot_of : g.ids[g.slot_of[id]] = id
    /\ \A s \in LiveSlots(g) : g.ids[s] \in DOMAIN g.slot_of /\ g.slot_of[g.ids[s]] = s
    /\ g.deleted_count = Len(g.ids) - Cardinality(LiveSlots(g))

Sound(g) == /\ Net(g) /\ Indexed(g) /\ TallEntry(g)
            /\ M <= MMax0 => Bounded(g)

(* The records an index holds, and a record more. *)
Records(g) == [id \in DOMAIN g.slot_of |-> g.data[g.slot_of[id]]]
With(r, id, v) == [x \in DOMAIN r \cup {id} |-> IF x = id THEN v ELSE r[x]]

LEMMA IndexedSame ==
    ASSUME NEW g, Indexed(g), NEW h, h.ids = g.ids, h.data = g.data, h.deleted = g.deleted,
           h.deleted_count = g.deleted_count, h.slot_of = g.slot_of
    PROVE  Indexed(h) /\ Records(h) = Records(g) /\ LiveSlots(h) = LiveSlots(g) /\ Slots(h) = Slots(g)
  BY DEF Indexed, Records, LiveSlots, Slots

LEMMA Entered ==
    ASSUME NEW g, Net(g), NEW e \in Nat, NEW h, h = [g EXCEPT !.entry = e]
    PROVE  /\ Net(h) /\ h.entry = e /\ h.links = g.links
           /\ h.ids = g.ids /\ h.data = g.data /\ h.deleted = g.deleted
           /\ h.deleted_count = g.deleted_count /\ h.slot_of = g.slot_of
           /\ \A s : Level(h, s) = Level(g, s)
           /\ Bounded(g) => Bounded(h)
  <1>1. g \in Graphs
    BY DEF Net
  <1>2. /\ h \in Graphs /\ h.entry = e /\ h.links = g.links
        /\ h.ids = g.ids /\ h.data = g.data /\ h.deleted = g.deleted
        /\ h.deleted_count = g.deleted_count /\ h.slot_of = g.slot_of
    BY <1>1 DEF Graphs
  <1>3. Slots(h) = Slots(g) /\ \A s : Level(h, s) = Level(g, s)
    BY <1>2 DEF Slots, Level
  <1>4. \A l : Layer(h, l) = Layer(g, l)
    BY <1>3 DEF Layer
  <1>5. Even(h) /\ Linked(h)
    <2>1. Even(h)
      BY <1>2, <1>3 DEF Net, Even
    <2>2. Linked(g)
      BY DEF Net
    <2>3. Linked(h)
      BY ONLY <1>2, <1>3, <1>4, <2>2 DEF Linked
    <2> QED
      BY <2>1, <2>3
  <1>6. Bounded(g) => Bounded(h)
    BY <1>2, <1>4 DEF Bounded, Roomy
  <1> QED
    BY <1>2, <1>3, <1>5, <1>6 DEF Net

LEMMA IndexedGrown ==
    ASSUME NEW g, Net(g), Indexed(g), NEW id \in Ids, id \notin DOMAIN g.slot_of,
           NEW p, NEW v, NEW level \in Nat \ {0}, Grown(p, g, id, v, level)
    PROVE  /\ Indexed(p) /\ Records(p) = With(Records(g), id, v)
           /\ LiveSlots(p) = LiveSlots(g) \cup {Len(g.ids) + 1}
  <1>1. PICK n \in Nat : n = Len(g.ids) /\ Len(p.ids) = n + 1
    BY DEF Grown
  <1>2. n + 1 \notin Slots(g) /\ Slots(p) = Slots(g) \cup {n + 1} /\ LiveSlots(g) \subseteq Slots(g)
        /\ IsFiniteSet(Slots(g))
    BY <1>1, GrownNet, NetShape DEF LiveSlots
  <1>3. /\ p.ids[n + 1] = id /\ p.data[n + 1] = v /\ p.deleted[n + 1] = FALSE
        /\ \A s \in Slots(g) : p.ids[s] = g.ids[s] /\ p.data[s] = g.data[s] /\ p.deleted[s] = g.deleted[s]
        /\ p.deleted_count = g.deleted_count
        /\ p.slot_of = [x \in DOMAIN g.slot_of \cup {id} |-> IF x = id THEN n + 1 ELSE g.slot_of[x]]
    BY <1>1 DEF Grown
  <1>4. LiveSlots(p) = LiveSlots(g) \cup {n + 1}
    BY <1>2, <1>3 DEF LiveSlots
  <1>5. \A x \in DOMAIN g.slot_of : g.slot_of[x] \in LiveSlots(g) /\ g.slot_of[x] \in Slots(g)
    BY <1>2 DEF Indexed
  <1>6. p.slot_of \in [DOMAIN p.slot_of -> LiveSlots(p)]
    BY <1>3, <1>4, <1>5
  <1>7. \A x \in DOMAIN p.slot_of : p.ids[p.slot_of[x]] = x
    BY <1>3, <1>5 DEF Indexed
  <1>8. \A s \in LiveSlots(p) : p.ids[s] \in DOMAIN p.slot_of /\ p.slot_of[p.ids[s]] = s
    <2> SUFFICES ASSUME NEW s \in LiveSlots(p)
                 PROVE  p.ids[s] \in DOMAIN p.slot_of /\ p.slot_of[p.ids[s]] = s
      OBVIOUS
    <2>1. CASE s = n + 1
      BY <1>3, <2>1
    <2>2. CASE s \in LiveSlots(g)
      <3>1. g.ids[s] \in DOMAIN g.slot_of /\ g.slot_of[g.ids[s]] = s /\ p.ids[s] = g.ids[s]
        BY <1>2, <1>3, <2>2 DEF Indexed
      <3> QED
        BY <1>3, <3>1
    <2> QED
      BY <1>4, <2>1, <2>2
  <1>9. p.deleted_count = Len(p.ids) - Cardinality(LiveSlots(p))
    <2>1. IsFiniteSet(LiveSlots(g)) /\ n + 1 \notin LiveSlots(g)
      BY <1>2, FS_Subset
    <2>2. Cardinality(LiveSlots(g) \cup {n + 1}) = Cardinality(LiveSlots(g)) + 1
      BY ONLY <2>1, FS_AddElement
    <2>3. Cardinality(LiveSlots(g)) \in Nat
      BY <2>1, FS_CardinalityType
    <2>4. g.deleted_count = n - Cardinality(LiveSlots(g))
      BY <1>1 DEF Indexed
    <2> QED
      BY <1>1, <1>3, <1>4, <2>2, <2>3, <2>4
  <1>10. Records(p) = With(Records(g), id, v)
    <2>1. \A x \in DOMAIN g.slot_of : x # id /\ p.slot_of[x] = g.slot_of[x] /\ p.data[g.slot_of[x]] = g.data[g.slot_of[x]]
      BY <1>3, <1>5
    <2>2. DOMAIN p.slot_of = DOMAIN g.slot_of \cup {id} /\ p.slot_of[id] = n + 1
      BY <1>3
    <2>3. DOMAIN Records(g) = DOMAIN g.slot_of /\ \A x \in DOMAIN g.slot_of : Records(g)[x] = g.data[g.slot_of[x]]
      BY DEF Records
    <2>4. PICK r, E : r = Records(g) /\ E = DOMAIN g.slot_of \cup {id}
      OBVIOUS
    <2>5. Records(p) = [x \in E |-> p.data[p.slot_of[x]]]
      BY <2>2, <2>4 DEF Records
    <2>6. With(r, id, v) = [x \in E |-> IF x = id THEN v ELSE r[x]]
      BY <2>3, <2>4 DEF With
    <2>7. ASSUME NEW x \in E
          PROVE  p.data[p.slot_of[x]] = IF x = id THEN v ELSE r[x]
      <3>1. CASE x = id
        BY <1>3, <2>2, <3>1
      <3>2. CASE x # id
        <4>1. x \in DOMAIN g.slot_of
          BY <2>4, <2>7, <3>2
        <4>2. p.data[p.slot_of[x]] = g.data[g.slot_of[x]]
          BY <2>1, <4>1
        <4>3. r[x] = g.data[g.slot_of[x]]
          BY <2>3, <2>4, <4>1
        <4> QED
          BY <3>2, <4>2, <4>3
      <3> QED
        BY <3>1, <3>2
    <2> QED
      BY <2>4, <2>5, <2>6, <2>7
  <1> QED
    BY <1>1, <1>4, <1>6, <1>7, <1>8, <1>9, <1>10 DEF Indexed

(* An insert in the terms of the lemmas. *)
LEMMA InsertedIs ==
    ASSUME NEW g, NEW id, NEW v, NEW level
    PROVE  LET p == Placed(g, id, v, level)
               slot == Len(g.ids) + 1
               top == Level(g, g.entry)
               dist == DistancesTo(p, v)
               h == Built(p, slot, dist, Descend(p, dist, top, level + 1), IF level < top THEN level ELSE top)
           IN  Inserted(g, id, v, level) =
                   IF g.entry = NoEntry THEN [p EXCEPT !.entry = slot]
                   ELSE [h EXCEPT !.entry = IF level > top THEN slot ELSE h.entry]
  BY DEF Inserted, Built

LEMMA DescendsNowhere ==
    ASSUME NEW g, NEW dist, NEW from \in Nat, NEW to \in Nat, from < to
    PROVE  Descend(g, dist, from, to) = g.entry
  <1>1. PICK seq : seq = Downward(from, to)
    OBVIOUS
  <1>2. DOMAIN seq = {}
    BY <1>1 DEF Downward
  <1> DEFINE Op(acc, s) == Nearest(SearchLayer(g, dist, {acc}, 1, seq[Max(s)], Slots(g), NoBudget).results)[2]
             Solves(f) == f = [s \in SUBSET {} |-> IF s = {} THEN g.entry ELSE Op(f[s \ {Max(s)}], s)]
  <1>3. Solves([s \in SUBSET {} |-> g.entry])
    <2> HIDE DEF Op
    <2> QED
      OBVIOUS
  <1>4. PICK f : f = CHOOSE e : Solves(e)
    OBVIOUS
  <1>5. Solves(f)
    <2> HIDE DEF Solves
    <2> QED
      BY <1>3, <1>4
  <1>6. f[{}] = g.entry
    <2> HIDE DEF Op
    <2> QED
      BY <1>5
  <1>7. Descend(g, dist, from, to) = f[{}]
    BY <1>1, <1>2, <1>4 DEF Descend, FoldLeft, MapThenFoldSet
  <1> QED
    BY <1>6, <1>7


(* An insert keeps an index sound and adds the record, and nothing else. *)
LEMMA InsertedSound ==
    ASSUME NEW g, Sound(g), NEW id \in Ids, id \notin DOMAIN g.slot_of, NEW v \in Points,
           NEW level \in Nat \ {0}
    PROVE  LET h == Inserted(g, id, v, level)
           IN  Sound(h) /\ Records(h) = With(Records(g), id, v)
  <1>1. Net(g) /\ Indexed(g) /\ TallEntry(g) /\ (M <= MMax0 => Bounded(g))
    BY DEF Sound
  <1>2. PICK p, slot, top, dist :
            p = Placed(g, id, v, level) /\ slot = Len(g.ids) + 1 /\ top = Level(g, g.entry) /\ dist = DistancesTo(p, v)
    OBVIOUS
  <1>3. Grown(p, g, id, v, level)
    BY <1>1, <1>2, PlacedGrown
  <1>4. /\ Net(p) /\ slot \notin Slots(g) /\ Slots(p) = Slots(g) \cup {slot} /\ Enclosed(p, Slots(g))
        /\ \A l \in Nat \ {0} : Layer(p, l) = IF l <= level THEN Layer(g, l) \cup {slot} ELSE Layer(g, l)
    BY <1>1, <1>2, <1>3, GrownNet
  <1>5. Indexed(p) /\ Records(p) = With(Records(g), id, v) /\ LiveSlots(p) = LiveSlots(g) \cup {slot}
    BY <1>1, <1>2, <1>3, IndexedGrown
  <1>6. M <= MMax0 => Bounded(p)
    BY <1>1, <1>3, BoundedGrown
  <1>7. slot \in Nat \ {0} /\ p.entry = g.entry /\ Level(p, slot) = level
        /\ \A s \in Slots(g) : Level(p, s) = Level(g, s) /\ Level(g, s) \in Nat \ {0}
    <2>1. Len(g.ids) \in Nat
      BY <1>3 DEF Grown
    <2> QED
      BY <1>1, <1>2, <1>3, <2>1, NetShape DEF Grown
  <1>8. Measured(dist, Slots(p))
    <2>1. \A s \in Slots(p) : p.data[s] \in Int
      BY <1>4, NetShape, RankingAssumption
    <2>2. v \in Int
      BY RankingAssumption
    <2>3. \A s \in Slots(p) : dist[s] = Distance(v, p.data[s])
      BY <1>2 DEF DistancesTo
    <2>4. \A s \in Slots(p) : Distance(v, p.data[s]) \in Int
      BY <2>1, <2>2 DEF Distance
    <2> QED
      BY <2>3, <2>4 DEF Measured
  <1>9. LiveSlots(g) \subseteq Slots(g) /\ g.entry \in Nat
    BY <1>1 DEF LiveSlots, Net, Graphs
  <1>10. PICK out : out = Inserted(g, id, v, level)
    OBVIOUS
  <1>11. CASE g.entry = NoEntry
    <2>1. out = [p EXCEPT !.entry = slot]
      BY <1>2, <1>10, <1>11, InsertedIs
    <2>2. /\ Net(out) /\ out.entry = slot /\ out.ids = p.ids /\ out.data = p.data /\ out.deleted = p.deleted
          /\ out.deleted_count = p.deleted_count /\ out.slot_of = p.slot_of
          /\ \A s : Level(out, s) = Level(p, s)
          /\ Bounded(p) => Bounded(out)
      BY <1>4, <1>7, <2>1, Entered
    <2>3. Indexed(out) /\ Records(out) = Records(p) /\ LiveSlots(out) = LiveSlots(p)
      BY <1>5, <2>2, IndexedSame
    <2>4. LiveSlots(out) = {slot}
      BY <1>1, <1>5, <1>11, <2>3 DEF TallEntry
    <2>5. TallEntry(out)
      <3>1. out.entry # NoEntry
        BY <1>7, <2>2 DEF NoEntry
      <3> QED
        BY <1>7, <2>2, <2>4, <3>1 DEF TallEntry
    <2> QED
      BY <1>5, <1>6, <1>10, <2>2, <2>3, <2>5 DEF Sound
  <1>12. CASE g.entry # NoEntry
    <2>1. g.entry \in LiveSlots(g) /\ g.entry \in Slots(g) /\ top \in Nat \ {0}
          /\ \A s \in LiveSlots(g) : Level(g, s) <= top
      BY <1>1, <1>2, <1>7, <1>9, <1>12 DEF TallEntry
    <2>2. PICK ep, low : ep = Descend(p, dist, top, level + 1) /\ low = IF level < top THEN level ELSE top
      OBVIOUS
    <2>3. low \in 1..level /\ ep \in Layer(g, low)
      <3>1. CASE level < top
        <4>1. PICK to : to = level + 1
          OBVIOUS
        <4>2. to \in Nat \ {0} /\ top >= to /\ ~(to <= level) /\ level <= to
          BY <2>1, <3>1, <4>1
        <4>3. p.entry \in Layer(p, top) \cap Slots(g)
          <5>1. p.entry \in Slots(p) /\ p.entry \in Slots(g) /\ Level(p, p.entry) = top
            BY <1>2, <1>4, <1>7, <2>1
          <5>2. top <= top
            BY <2>1
          <5> QED
            BY <5>1, <5>2 DEF Layer
        <4>4. Descend(p, dist, top, to) \in Layer(p, to) \cap Slots(g)
          BY <1>4, <1>8, <2>1, <4>2, <4>3, DescendsFrom
        <4>5. ep \in Layer(g, to)
          BY <1>4, <2>2, <4>1, <4>2, <4>4
        <4>6. Layer(g, to) \subseteq Layer(g, level)
          BY <1>1, <4>2, LayersNest
        <4> QED
          BY <2>2, <3>1, <4>5, <4>6
      <3>2. CASE ~(level < top)
        <4>1. low = top /\ low \in 1..level
          BY <2>1, <2>2, <3>2
        <4>2. PICK to : to = level + 1
          OBVIOUS
        <4>3. to \in Nat /\ top < to
          BY <2>1, <3>2, <4>2
        <4>4. Descend(p, dist, top, to) = p.entry
          BY <2>1, <4>3, DescendsNowhere
        <4>5. g.entry \in Layer(g, low)
          BY <1>2, <2>1, <4>1 DEF Layer
        <4> QED
          BY <1>7, <2>2, <4>1, <4>2, <4>4, <4>5
      <3> QED
        BY <3>1, <3>2
    <2>4. PICK h : h = Built(p, slot, dist, ep, low)
      OBVIOUS
    <2>5. Net(h) /\ SameNodes(h, p) /\ (M <= MMax0 /\ Bounded(p) => Bounded(h))
      BY <1>1, <1>2, <1>3, <1>8, <2>3, <2>4, AllLayersBuilt
    <2>6. /\ h.ids = p.ids /\ h.data = p.data /\ h.deleted = p.deleted /\ h.entry = p.entry
          /\ h.deleted_count = p.deleted_count /\ h.slot_of = p.slot_of
          /\ \A s \in Slots(p) : Level(h, s) = Level(p, s)
      BY <2>5 DEF SameNodes
    <2>7. PICK e : e = IF level > top THEN slot ELSE h.entry
      OBVIOUS
    <2>8. e \in Nat
      BY <1>7, <1>9, <2>6, <2>7
    <2>9. out = [h EXCEPT !.entry = e]
      BY <1>2, <1>10, <1>12, <2>2, <2>4, <2>7, InsertedIs
    <2>10. /\ Net(out) /\ out.entry = e /\ out.ids = h.ids /\ out.data = h.data /\ out.deleted = h.deleted
           /\ out.deleted_count = h.deleted_count /\ out.slot_of = h.slot_of
           /\ \A s : Level(out, s) = Level(h, s)
           /\ Bounded(h) => Bounded(out)
      BY <2>5, <2>8, <2>9, Entered
    <2>11. Indexed(out) /\ Records(out) = Records(p) /\ LiveSlots(out) = LiveSlots(p)
      <3>1. /\ out.ids = p.ids /\ out.data = p.data /\ out.deleted = p.deleted
            /\ out.deleted_count = p.deleted_count /\ out.slot_of = p.slot_of
        BY <2>6, <2>10
      <3> QED
        BY <1>5, <3>1, IndexedSame
    <2>12. \A s \in Slots(p) : Level(out, s) = Level(p, s)
      BY <2>6, <2>10
    <2>13. TallEntry(out)
      <3>1. LiveSlots(out) \subseteq Slots(p) /\ slot \in LiveSlots(out) /\ g.entry \in LiveSlots(out)
        BY <1>4, <1>5, <1>9, <2>1, <2>11
      <3>2. \A s \in LiveSlots(out) : s = slot \/ s \in LiveSlots(g)
        BY <1>5, <2>11
      <3>3. Level(out, slot) = level /\ \A s \in LiveSlots(g) : Level(out, s) = Level(g, s) /\ Level(g, s) \in Nat
        BY <1>4, <1>7, <1>9, <2>12
      <3>4. e # NoEntry /\ e \in LiveSlots(out) /\ \A s \in LiveSlots(out) : Level(out, s) <= Level(out, e)
        <4>1. CASE level > top
          <5>1. e = slot
            BY <2>7, <4>1
          <5>2. \A s \in LiveSlots(out) : Level(out, s) <= level
            BY <2>1, <3>2, <3>3, <4>1
          <5> QED
            BY <1>7, <3>1, <3>3, <5>1, <5>2 DEF NoEntry
        <4>2. CASE ~(level > top)
          <5>1. e = g.entry
            BY <1>7, <2>6, <2>7, <4>2
          <5>2. Level(out, e) = top
            BY <1>2, <2>1, <3>3, <5>1
          <5>3. \A s \in LiveSlots(out) : Level(out, s) <= top
            BY <2>1, <3>2, <3>3, <4>2
          <5> QED
            BY <1>12, <3>1, <5>1, <5>2, <5>3
        <4> QED
          BY <4>1, <4>2
      <3> QED
        BY <2>10, <3>4 DEF TallEntry
    <2> QED
      BY <1>5, <1>6, <1>10, <2>5, <2>10, <2>11, <2>13 DEF Sound
  <1> QED
    BY <1>11, <1>12


-----------------------------------------------------------------------------
(* A delete. *)

Without(r, id) == [x \in DOMAIN r \ {id} |-> r[x]]

(* Of some nodes one is the last of the highest. *)
LEMMA LastOfHighest ==
    ASSUME NEW g, NEW S, IsFiniteSet(S), S # {}, S \subseteq Nat, \A s \in S : Level(g, s) \in Nat
    PROVE  \E s \in S : \A t \in S \ {s} :
               Level(g, t) < Level(g, s) \/ (Level(g, t) = Level(g, s) /\ t < s)
  <1>1. PICK C : C = { <<Level(g, s), s>> : s \in S }
    OBVIOUS
  <1>2. IsFiniteSet(C) /\ C \subseteq Pairs /\ C # {}
    <2>1. PICK f : f = [s \in S |-> Level(g, s)]
      OBVIOUS
    <2>2. Measured(f, S) /\ S \subseteq Int
      BY <2>1 DEF Measured
    <2>3. IsFiniteSet(Cands(f, S)) /\ Cands(f, S) \subseteq Pairs
      BY <2>2, CandsFinite
    <2>4. Cands(f, S) = C
      BY <1>1, <2>1 DEF Cands
    <2> QED
      BY <1>1, <2>3, <2>4
  <1>3. Farthest(C) \in C /\ \A y \in C \ {Farthest(C)} : Before(y, Farthest(C))
    BY <1>2, FarthestOf
  <1>4. PICK s \in S : Farthest(C) = <<Level(g, s), s>>
    BY <1>1, <1>3
  <1>5. ASSUME NEW t \in S \ {s}
        PROVE  Level(g, t) < Level(g, s) \/ (Level(g, t) = Level(g, s) /\ t < s)
    <2>1. <<Level(g, t), t>> \in C \ {Farthest(C)}
      BY <1>1, <1>4
    <2>2. Before(<<Level(g, t), t>>, <<Level(g, s), s>>)
      BY <1>3, <1>4, <2>1
    <2> QED
      BY <2>2 DEF Before
  <1> QED
    BY <1>5

LEMMA NewEntryTall ==
    ASSUME NEW g, Net(g), NEW e, e = NewEntry(g)
    PROVE  /\ e \in Nat
           /\ (e = NoEntry /\ LiveSlots(g) = {}) \/ (e # NoEntry /\ e \in LiveSlots(g))
           /\ \A s \in LiveSlots(g) : Level(g, s) <= Level(g, e)
  <1>1. LiveSlots(g) \subseteq Slots(g) /\ Slots(g) \subseteq Nat /\ IsFiniteSet(Slots(g))
        /\ \A s \in Slots(g) : Level(g, s) \in Nat /\ s # 0
    BY NetShape DEF LiveSlots, Slots
  <1>2. CASE LiveSlots(g) = {}
    BY <1>2 DEF NewEntry, NoEntry
  <1>3. CASE LiveSlots(g) # {}
    <2>1. PICK S : S = LiveSlots(g)
      OBVIOUS
    <2>2. IsFiniteSet(S) /\ S # {} /\ S \subseteq Nat /\ \A s \in S : Level(g, s) \in Nat /\ s # 0
      BY <1>1, <1>3, <2>1, FS_Subset
    <2>3. \E s \in S : \A t \in S \ {s} :
              Level(g, t) < Level(g, s) \/ (Level(g, t) = Level(g, s) /\ t < s)
      BY <2>2, LastOfHighest
    <2>4. e \in S /\ \A t \in S \ {e} :
              Level(g, t) < Level(g, e) \/ (Level(g, t) = Level(g, e) /\ t < e)
      BY <1>3, <2>1, <2>3 DEF NewEntry
    <2> QED
      BY <2>1, <2>2, <2>4 DEF NoEntry
  <1> QED
    BY <1>2, <1>3

(* The slot of a record is marked, and its id forgotten. *)
Marked(g, id) == [g EXCEPT !.slot_of = [x \in DOMAIN @ \ {id} |-> @[x]],
                           !.deleted[g.slot_of[id]] = TRUE, !.deleted_count = @ + 1]

LEMMA MarkedSound ==
    ASSUME NEW g, Net(g), Indexed(g), NEW id \in DOMAIN g.slot_of, NEW h, h = Marked(g, id)
    PROVE  /\ Net(h) /\ Indexed(h) /\ (Bounded(g) => Bounded(h))
           /\ Records(h) = Without(Records(g), id) /\ h.entry = g.entry
           /\ LiveSlots(h) = LiveSlots(g) \ {g.slot_of[id]} /\ g.slot_of[id] \in LiveSlots(g)
           /\ \A s : Level(h, s) = Level(g, s)
  <1>1. PICK slot, map, B, n : /\ slot = g.slot_of[id] /\ map = [x \in DOMAIN g.slot_of \ {id} |-> g.slot_of[x]]
                               /\ B = [g.deleted EXCEPT ![slot] = TRUE] /\ n = g.deleted_count + 1
    OBVIOUS
  <1>2. g \in Graphs /\ Even(g) /\ Linked(g) /\ slot \in LiveSlots(g) /\ slot \in Slots(g)
    BY <1>1 DEF Net, Indexed, LiveSlots
  <1>3. map \in IdMaps
    <2>1. DOMAIN g.slot_of \in SUBSET Ids /\ \A x \in DOMAIN g.slot_of : g.slot_of[x] \in Nat
      BY <1>2 DEF Graphs, IdMaps
    <2>2. map \in [DOMAIN g.slot_of \ {id} -> Nat] /\ DOMAIN g.slot_of \ {id} \in SUBSET Ids
      BY <1>1, <2>1
    <2> QED
      BY <2>2 DEF IdMaps
  <1>4. /\ B \in Seq(BOOLEAN) /\ Len(B) = Len(g.deleted) /\ B[slot] = TRUE
        /\ \A s \in Slots(g) : s # slot => B[s] = g.deleted[s]
    <2>1. PICK T, x, L : T = BOOLEAN /\ x = TRUE /\ L = g.deleted
      OBVIOUS
    <2>2. L \in Seq(T) /\ slot \in 1..Len(L) /\ x \in T /\ B = [L EXCEPT ![slot] = x] /\ Slots(g) = 1..Len(L)
      BY <1>1, <1>2, <2>1 DEF Graphs, Even, Slots
    <2>3. /\ B \in Seq(T) /\ Len(B) = Len(L) /\ B[slot] = x
          /\ \A s \in 1..Len(L) : s # slot => B[s] = L[s]
      BY ONLY <2>2, ExceptSeq
    <2> QED
      BY <2>1, <2>2, <2>3
  <1>5. n \in Int
    BY <1>1, <1>2 DEF Graphs
  <1>6. h = [g EXCEPT !.slot_of = map, !.deleted = B, !.deleted_count = n]
    BY <1>1 DEF Marked
  <1>7. /\ h \in Graphs /\ h.ids = g.ids /\ h.data = g.data /\ h.links = g.links /\ h.entry = g.entry
        /\ h.slot_of = map /\ h.deleted = B /\ h.deleted_count = n
    BY ONLY <1>2, <1>3, <1>4, <1>5, <1>6 DEF Graphs
  <1>8. Slots(h) = Slots(g) /\ \A s : Level(h, s) = Level(g, s)
    BY <1>7 DEF Slots, Level
  <1>9. \A l : Layer(h, l) = Layer(g, l)
    BY <1>8 DEF Layer
  <1>10. Net(h) /\ (Bounded(g) => Bounded(h))
    <2>1. Even(h)
      BY <1>2, <1>4, <1>7, <1>8 DEF Even
    <2>2. Linked(h)
      BY <1>2, <1>7, <1>8, <1>9 DEF Linked
    <2> QED
      BY <1>7, <1>9, <2>1, <2>2 DEF Net, Bounded, Roomy
  <1>11. LiveSlots(h) = LiveSlots(g) \ {slot}
    BY <1>4, <1>7, <1>8 DEF LiveSlots
  <1>12. DOMAIN map = DOMAIN g.slot_of \ {id} /\ \A x \in DOMAIN map : map[x] = g.slot_of[x] /\ map[x] # slot
    BY <1>1 DEF Indexed
  <1>13. map \in [DOMAIN map -> LiveSlots(h)]
    BY <1>1, <1>11, <1>12 DEF Indexed
  <1>14. \A x \in DOMAIN map : h.ids[map[x]] = x
    BY <1>7, <1>12 DEF Indexed
  <1>15. \A s \in LiveSlots(h) : h.ids[s] \in DOMAIN map /\ map[h.ids[s]] = s
    <2> SUFFICES ASSUME NEW s \in LiveSlots(g), s # slot
                 PROVE  g.ids[s] \in DOMAIN map /\ map[g.ids[s]] = s
      BY <1>7, <1>11
    <2>1. g.ids[s] \in DOMAIN g.slot_of /\ g.slot_of[g.ids[s]] = s
      BY DEF Indexed
    <2> QED
      BY <1>1, <1>12, <2>1
  <1>16. n = Len(h.ids) - Cardinality(LiveSlots(h))
    <2>1. IsFiniteSet(LiveSlots(g)) /\ Len(g.ids) \in Nat
      <3>1. LiveSlots(g) \subseteq Slots(g)
        BY DEF LiveSlots
      <3>2. IsFiniteSet(Slots(g)) /\ Len(g.ids) \in Nat
        BY <1>2, GraphShape
      <3> QED
        BY <3>1, <3>2, FS_Subset
    <2>2. PICK S : S = LiveSlots(g)
      OBVIOUS
    <2>3. Cardinality(S \ {slot}) = Cardinality(S) - 1 /\ Cardinality(S) \in Nat
      BY ONLY <1>2, <2>1, <2>2, FS_RemoveElement, FS_CardinalityType
    <2>4. g.deleted_count = Len(g.ids) - Cardinality(S)
      BY <2>2 DEF Indexed
    <2> QED
      BY <1>1, <1>7, <1>11, <2>1, <2>2, <2>3, <2>4
  <1>17. Indexed(h)
    BY <1>7, <1>13, <1>14, <1>15, <1>16 DEF Indexed
  <1>18. Records(h) = Without(Records(g), id)
    <2>1. Records(h) = [x \in DOMAIN g.slot_of \ {id} |-> g.data[g.slot_of[x]]]
      BY <1>7, <1>12 DEF Records
    <2> QED
      BY <2>1 DEF Records, Without
  <1> QED
    BY <1>1, <1>2, <1>7, <1>8, <1>10, <1>11, <1>17, <1>18

(* A delete keeps an index sound and removes the record, and nothing else. *)
LEMMA TombstonedSound ==
    ASSUME NEW g, Sound(g), NEW id \in DOMAIN g.slot_of
    PROVE  LET h == Tombstoned(g, id)
           IN  Sound(h) /\ Records(h) = Without(Records(g), id)
  <1>1. Net(g) /\ Indexed(g) /\ TallEntry(g) /\ (M <= MMax0 => Bounded(g))
    BY DEF Sound
  <1>2. PICK m, slot, h : m = Marked(g, id) /\ slot = g.slot_of[id] /\ h = Tombstoned(g, id)
    OBVIOUS
  <1>3. /\ Net(m) /\ Indexed(m) /\ (M <= MMax0 => Bounded(m))
        /\ Records(m) = Without(Records(g), id) /\ m.entry = g.entry
        /\ LiveSlots(m) = LiveSlots(g) \ {slot} /\ slot \in LiveSlots(g)
        /\ \A s : Level(m, s) = Level(g, s)
    BY <1>1, <1>2, MarkedSound
  <1>4. h = IF g.entry = slot THEN [m EXCEPT !.entry = NewEntry(m)] ELSE m
    BY <1>2 DEF Tombstoned, Marked
  <1>5. CASE g.entry # slot
    <2>1. g.entry # NoEntry
      BY <1>1, <1>3 DEF TallEntry
    <2>2. TallEntry(m)
      BY <1>1, <1>3, <1>5, <2>1 DEF TallEntry
    <2> QED
      BY <1>2, <1>3, <1>4, <1>5, <2>2 DEF Sound
  <1>6. CASE g.entry = slot
    <2>1. PICK e : e = NewEntry(m)
      OBVIOUS
    <2>2. /\ e \in Nat
          /\ (e = NoEntry /\ LiveSlots(m) = {}) \/ (e # NoEntry /\ e \in LiveSlots(m))
          /\ \A s \in LiveSlots(m) : Level(m, s) <= Level(m, e)
      BY <1>3, <2>1, NewEntryTall
    <2>3. h = [m EXCEPT !.entry = e]
      BY <1>4, <1>6, <2>1
    <2>4. /\ Net(h) /\ h.entry = e /\ h.ids = m.ids /\ h.data = m.data /\ h.deleted = m.deleted
          /\ h.deleted_count = m.deleted_count /\ h.slot_of = m.slot_of
          /\ \A s : Level(h, s) = Level(m, s)
          /\ Bounded(m) => Bounded(h)
      BY <1>3, <2>2, <2>3, Entered
    <2>5. Indexed(h) /\ Records(h) = Records(m) /\ LiveSlots(h) = LiveSlots(m)
      BY <1>3, <2>4, IndexedSame
    <2>6. TallEntry(h)
      BY <2>2, <2>4, <2>5 DEF TallEntry
    <2> QED
      BY <1>2, <1>3, <2>4, <2>5, <2>6 DEF Sound
  <1> QED
    BY <1>5, <1>6


-----------------------------------------------------------------------------
(* A compaction. *)

LEMMA EmptySound == Sound(EmptyIndex) /\ DOMAIN Records(EmptyIndex) = {}
  <1>1. PICK g : g = EmptyIndex
    OBVIOUS
  <1>2. /\ g.ids = <<>> /\ g.data = <<>> /\ g.links = <<>> /\ g.deleted = <<>>
        /\ DOMAIN g.slot_of = {} /\ g.entry = NoEntry /\ g.deleted_count = 0
    BY <1>1 DEF EmptyIndex
  <1>3. g.slot_of \in IdMaps
    <2>1. g.slot_of \in [{} -> Nat] /\ {} \in SUBSET Ids
      BY <1>1 DEF EmptyIndex
    <2> QED
      BY <2>1 DEF IdMaps
  <1>4. g \in Graphs
    <2>1. g.ids \in Seq(Ids) /\ g.data \in Seq(Points) /\ g.links \in Seq(Seq(Seq(Nat)))
          /\ g.deleted \in Seq(BOOLEAN) /\ g.entry \in Nat /\ g.deleted_count \in Int
      BY <1>2 DEF NoEntry
    <2>2. g = [ids |-> g.ids, data |-> g.data, slot_of |-> g.slot_of, links |-> g.links,
               entry |-> g.entry, deleted |-> g.deleted, deleted_count |-> g.deleted_count]
      BY <1>1 DEF EmptyIndex
    <2> QED
      BY <1>3, <2>1, <2>2 DEF Graphs
  <1>5. Slots(g) = {} /\ LiveSlots(g) = {} /\ \A l : Layer(g, l) = {}
    BY <1>2 DEF Slots, LiveSlots, Layer
  <1>6. Net(g) /\ Bounded(g) /\ TallEntry(g)
    BY <1>2, <1>4, <1>5 DEF Net, Even, Linked, Bounded, Roomy, TallEntry
  <1>7. Indexed(g)
    <2>1. Len(g.ids) = 0 /\ Cardinality({}) = 0
      BY <1>2, FS_EmptySet
    <2>2. g.slot_of \in [DOMAIN g.slot_of -> LiveSlots(g)]
      BY <1>1, <1>2, <1>5 DEF EmptyIndex
    <2> QED
      BY <1>2, <1>5, <2>1, <2>2 DEF Indexed
  <1> QED
    BY <1>1, <1>2, <1>6, <1>7 DEF Sound, Records

(* The records of some of the slots. *)
Chosen(g, s) == [x \in { g.ids[t] : t \in s } |-> g.data[g.slot_of[x]]]

LEMMA ChosenMore ==
    ASSUME NEW g, Sound(g), NEW r, NEW m, r \subseteq LiveSlots(g), m \in LiveSlots(g), m \notin r,
           NEW h, Sound(h), Records(h) = Chosen(g, r), NEW level \in Nat \ {0}
    PROVE  LET f == Inserted(h, g.ids[m], g.data[m], level)
           IN  Sound(f) /\ Records(f) = Chosen(g, r \cup {m})
  <1>1. PICK id, v, f : id = g.ids[m] /\ v = g.data[m] /\ f = Inserted(h, id, v, level)
    OBVIOUS
  <1>2. Net(g) /\ Indexed(g) /\ m \in Slots(g)
    BY DEF Sound, LiveSlots
  <1>3. id \in Ids /\ v \in Points
    BY <1>1, <1>2, GraphShape DEF Net
  <1>4. \A t \in LiveSlots(g) : g.slot_of[g.ids[t]] = t
    BY <1>2 DEF Indexed
  <1>5. \A t \in r : g.ids[t] # id
    BY <1>1, <1>4
  <1>6. DOMAIN h.slot_of = { g.ids[t] : t \in r }
    <2>1. DOMAIN Records(h) = DOMAIN h.slot_of
      BY DEF Records
    <2>2. DOMAIN Chosen(g, r) = { g.ids[t] : t \in r }
      BY DEF Chosen
    <2> QED
      BY <2>1, <2>2
  <1>7. id \notin DOMAIN h.slot_of
    BY <1>5, <1>6
  <1>8. Sound(f) /\ Records(f) = With(Records(h), id, v)
    BY <1>1, <1>3, <1>7, InsertedSound
  <1>9. With(Chosen(g, r), id, v) = Chosen(g, r \cup {m})
    <2>1. { g.ids[t] : t \in r } \cup {id} = { g.ids[t] : t \in r \cup {m} }
      BY <1>1
    <2>2. g.data[g.slot_of[id]] = v
      BY <1>1, <1>4
    <2>3. PICK E : E = { g.ids[t] : t \in r \cup {m} }
      OBVIOUS
    <2>4. PICK c : c = Chosen(g, r)
      OBVIOUS
    <2>5. DOMAIN c \cup {id} = E /\ \A x \in DOMAIN c : c[x] = g.data[g.slot_of[x]]
      BY <2>1, <2>3, <2>4 DEF Chosen
    <2>6. \A x \in E : (IF x = id THEN v ELSE c[x]) = g.data[g.slot_of[x]]
      BY <2>2, <2>5
    <2>7. With(c, id, v) = [x \in E |-> g.data[g.slot_of[x]]]
      BY <2>5, <2>6 DEF With
    <2> QED
      BY <2>3, <2>4, <2>7 DEF Chosen
  <1> QED
    BY <1>1, <1>8, <1>9

(* A compaction keeps an index sound and its records. *)
LEMMA CompactedSound ==
    ASSUME NEW g, Sound(g), NEW levels, levels \in [LiveSlots(g) -> LevelDrawn]
    PROVE  LET h == Compacted(g, levels)
           IN  Sound(h) /\ Records(h) = Records(g)
  <1>1. PICK n \in Nat : n = Len(g.ids) /\ Slots(g) = 1..n
    <2>1. Len(g.ids) \in Nat
      BY GraphShape DEF Sound, Net
    <2> QED
      BY <2>1 DEF Slots
  <1> DEFINE D == LiveSlots(g)
             W == [s \in SUBSET D |-> { h \in Graphs : Sound(h) /\ Records(h) = Chosen(g, s) }]
             Op(acc, s) == Inserted(acc, g.ids[Max(s)], g.data[Max(s)], levels[Max(s)])
  <1>2. /\ IsFiniteSet(D) /\ Picks([s \in SUBSET D |-> Max(s)], D)
        /\ \A s \in SUBSET D : s # {} =>
               /\ s \ {Max(s)} \in SUBSET D /\ [t \in SUBSET D |-> Max(t)][s] = Max(s)
               /\ Max(s) \in D /\ Max(s) \in s
    <2>1. D \subseteq 1..n
      BY <1>1 DEF LiveSlots
    <2>2. IsFiniteSet(1..n)
      BY PlacesPick
    <2>3. \A s \in SUBSET D : s # {} => Max(s) \in s
      BY <2>1, MaxOf
    <2> QED
      BY <2>1, <2>2, <2>3, FS_Subset DEF Picks
  <1>3. PICK first : first = EmptyIndex
    OBVIOUS
  <1>4. first \in W[{}]
    <2>1. Sound(first) /\ DOMAIN Records(first) = {}
      BY <1>3, EmptySound
    <2>2. Records(first) = Chosen(g, {})
      <3>1. Records(first) = [x \in {} |-> first.data[first.slot_of[x]]]
        BY <2>1 DEF Records
      <3>2. Chosen(g, {}) = [x \in {} |-> g.data[g.slot_of[x]]]
        BY DEF Chosen
      <3> QED
        BY <3>1, <3>2
    <2>3. first \in Graphs
      BY <2>1 DEF Sound, Net
    <2> QED
      BY <2>1, <2>2, <2>3
  <1>5. ASSUME NEW s \in SUBSET D, s # {}, NEW acc \in W[s \ {Max(s)}]
        PROVE  Op(acc, s) \in W[s]
    <2>1. PICK m, r : m = Max(s) /\ r = s \ {m}
      OBVIOUS
    <2>2. m \in D /\ m \in s /\ r \in SUBSET D /\ m \notin r /\ r \cup {m} = s
      BY <1>2, <1>5, <2>1
    <2>3. Sound(acc) /\ Records(acc) = Chosen(g, r)
      BY <2>1, <2>2
    <2>4. levels[m] \in Nat \ {0}
      BY <2>2, HnswAssumption DEF LevelDrawn
    <2>5. PICK f : f = Inserted(acc, g.ids[m], g.data[m], levels[m])
      OBVIOUS
    <2>6. Sound(f) /\ Records(f) = Chosen(g, s)
      <3>1. Sound(f) /\ Records(f) = Chosen(g, r \cup {m})
        BY <2>2, <2>3, <2>4, <2>5, ChosenMore
      <3> QED
        BY <2>2, <3>1
    <2>7. f \in Graphs
      BY <2>6 DEF Sound, Net
    <2>8. f \in W[s]
      BY <2>6, <2>7
    <2> HIDE DEF W
    <2> QED
      BY <2>1, <2>5, <2>8
  <1>6. \A s \in SUBSET D : s # {} => \A acc \in W[s \ {Max(s)}] : Op(acc, s) \in W[s]
    BY <1>5
  <1> DEFINE pick == [s \in SUBSET D |-> Max(s)]
             All == UNION { W[s] : s \in SUBSET D }
             step == [p \in (SUBSET D) \X All |-> Op(p[2], p[1])]
             Solves(f) == f = [s \in SUBSET D |-> IF s = {} THEN first ELSE Op(f[s \ {Max(s)}], s)]
  <1>7. /\ IsFiniteSet(D) /\ Picks(pick, D)
         /\ \A s \in SUBSET D : s # {} => s \ {Max(s)} \in SUBSET D /\ pick[s] = Max(s)
    BY <1>2
  <1> HIDE DEF Op, W, D, pick
  <1>8. ASSUME NEW s \in SUBSET D, s # {}, NEW acc \in W[s \ {Max(s)}]
         PROVE  step[<<s, acc>>] = Op(acc, s) /\ Op(acc, s) \in W[s]
    <2>1. acc \in All
      BY <1>7, <1>8
    <2>2. step[<<s, acc>>] = Op(acc, s)
      BY <2>1
    <2> QED
      BY <1>6, <1>8, <2>2
  <1> HIDE DEF step
  <1>9. MayBe(W, first, pick, step, D)
    BY <1>4, <1>7, <1>8 DEF MayBe
  <1>10. PICK it : /\ it = [s \in SUBSET D |-> it[s]] /\ Made(it, first, pick, step, D)
                   /\ \A s \in SUBSET D : it[s] \in W[s]
    BY <1>7, <1>9, FoldMade
  <1>11. Solves(it)
    <2>1. ASSUME NEW s \in SUBSET D
          PROVE  it[s] = IF s = {} THEN first ELSE Op(it[s \ {Max(s)}], s)
      BY <1>7, <1>8, <1>10 DEF Made
    <2> QED
      BY <1>10, <2>1
  <1>12. PICK f : f = CHOOSE e : Solves(e)
    OBVIOUS
  <1>13. Solves(f)
    <2> HIDE DEF Solves
    <2> QED
      BY <1>11, <1>12
  <1>14. MadeWithin(f, W, first, pick, step, D)
    <2>1. ASSUME NEW s \in SUBSET D, s # {}, f[s \ {pick[s]}] \in W[s \ {pick[s]}]
          PROVE  f[s] = step[<<s, f[s \ {pick[s]}]>>]
      <3>1. f[s] = Op(f[s \ {Max(s)}], s)
        BY <1>13, <2>1
      <3> HIDE DEF Solves
      <3> QED
        BY <1>7, <1>8, <2>1, <3>1
    <2>2. f[{}] = first
      BY <1>13
    <2> QED
      BY <2>1, <2>2 DEF MadeWithin
  <1>15. f[D] \in W[D]
    BY <1>7, <1>9, <1>14, FoldStays
  <1> USE DEF D, Op
  <1>16. Compacted(g, levels) = f[D]
    BY <1>3, <1>12 DEF FoldLeft, MapThenFoldSet, Compacted
  <1>17. PICK out : out = f[D]
    OBVIOUS
  <1>18. Sound(out) /\ Records(out) = Chosen(g, D)
    BY <1>15, <1>17 DEF W
  <1>19. Chosen(g, D) = Records(g)
    <2>1. Indexed(g)
      BY DEF Sound
    <2>2. { g.ids[t] : t \in LiveSlots(g) } = DOMAIN g.slot_of
      BY <2>1 DEF Indexed
    <2> QED
      BY <2>2 DEF Chosen, Records
  <1> QED
    BY <1>16, <1>17, <1>18, <1>19


-----------------------------------------------------------------------------
(* The HNSW index, beside the linear-scan index. *)

(* The graph is sound and holds the records the other index does. *)
HnswInv == Sound(hnsw) /\ Records(hnsw) = Entries

LEMMA HnswDeleted ==
    ASSUME HnswInv, SlotsInStep, NEW id \in Ids, BFDelete(id), HnswDelete(id)
    PROVE  HnswInv'
  <1>1. Sound(hnsw) /\ Records(hnsw) = Entries
    BY DEF HnswInv
  <1>2. DOMAIN hnsw.slot_of = DOMAIN slot_of
    BY <1>1 DEF Records, Entries
  <1>3. CASE id \notin DOMAIN slot_of
    <2>1. UNCHANGED Entries
      BY <1>3, DeleteImplements
    <2>2. UNCHANGED hnsw
      BY <1>2, <1>3 DEF HnswDelete
    <2> QED
      BY <1>1, <2>1, <2>2 DEF HnswInv
  <1>4. CASE id \in DOMAIN slot_of
    <2>1. Entries' = Without(Entries, id)
      <3>1. Map!MapDelete(id)
        BY <1>4, DeleteImplements
      <3> QED
        BY <3>1 DEF Map!MapDelete, Map!MapPresent, Without
    <2>2. PICK m : m = Tombstoned(hnsw, id)
      OBVIOUS
    <2>3. Sound(m) /\ Records(m) = Without(Entries, id)
      BY <1>1, <1>2, <1>4, <2>2, TombstonedSound
    <2>4. CASE NeedsCompaction(m)
      <3>1. PICK levels \in [LiveSlots(m) -> LevelDrawn] : hnsw' = Compacted(m, levels)
        BY <1>2, <1>4, <2>2, <2>4 DEF HnswDelete
      <3>2. PICK h : h = Compacted(m, levels)
        OBVIOUS
      <3>3. Sound(h) /\ Records(h) = Records(m)
        BY <2>3, <3>2, CompactedSound
      <3> QED
        BY <2>1, <2>3, <3>1, <3>2, <3>3 DEF HnswInv
    <2>5. CASE ~NeedsCompaction(m)
      <3>1. hnsw' = m
        BY <1>2, <1>4, <2>2, <2>5 DEF HnswDelete
      <3> QED
        BY <2>1, <2>3, <3>1 DEF HnswInv
    <2> QED
      BY <2>4, <2>5
  <1> QED
    BY <1>3, <1>4

LEMMA HnswInserted ==
    ASSUME HnswInv, SlotsInStep, NEW id \in Ids, NEW v \in Points, BFInsert(id, v), HnswInsert(id, v)
    PROVE  HnswInv'
  <1>1. Sound(hnsw) /\ Records(hnsw) = Entries
    BY DEF HnswInv
  <1>2. DOMAIN hnsw.slot_of = DOMAIN slot_of
    BY <1>1 DEF Records, Entries
  <1>3. CASE id \in DOMAIN slot_of
    <2>1. UNCHANGED Entries
      BY <1>3, InsertImplements
    <2>2. UNCHANGED hnsw
      BY <1>2, <1>3 DEF HnswInsert
    <2> QED
      BY <1>1, <2>1, <2>2 DEF HnswInv
  <1>4. CASE id \notin DOMAIN slot_of
    <2>1. Entries' = With(Entries, id, v)
      <3>1. Map!MapInsert(id, v)
        BY <1>4, InsertImplements
      <3> QED
        BY <3>1 DEF Map!MapInsert, Map!MapPresent, With
    <2>2. PICK level \in LevelDrawn : hnsw' = Inserted(hnsw, id, v, level)
      BY <1>2, <1>4 DEF HnswInsert
    <2>3. level \in Nat \ {0}
      BY HnswAssumption DEF LevelDrawn
    <2>4. PICK h : h = Inserted(hnsw, id, v, level)
      OBVIOUS
    <2>5. Sound(h) /\ Records(h) = With(Entries, id, v)
      BY <1>1, <1>2, <1>4, <2>3, <2>4, InsertedSound
    <2> QED
      BY <2>1, <2>2, <2>4, <2>5 DEF HnswInv
  <1> QED
    BY <1>3, <1>4

LEMMA HnswHolds == Spec => []HnswInv
  <1>1. Init => HnswInv
    <2> SUFFICES ASSUME Init
                 PROVE  HnswInv
      OBVIOUS
    <2>1. hnsw = EmptyIndex /\ DOMAIN slot_of = {}
      BY DEF Init, HnswInit, BFInit
    <2>2. Sound(hnsw) /\ DOMAIN Records(hnsw) = {}
      BY <2>1, EmptySound
    <2>3. Records(hnsw) = Entries
      <3>1. Records(hnsw) = [x \in {} |-> hnsw.data[hnsw.slot_of[x]]]
        BY <2>2 DEF Records
      <3>2. Entries = [x \in {} |-> data[slot_of[x]]]
        BY <2>1 DEF Entries
      <3> QED
        BY <3>1, <3>2
    <2> QED
      BY <2>2, <2>3 DEF HnswInv
  <1>2. HnswInv /\ SlotsInStep /\ [Next]_indexVars => HnswInv'
    <2> SUFFICES ASSUME HnswInv, SlotsInStep, [Next]_indexVars
                 PROVE  HnswInv'
      OBVIOUS
    <2>1. CASE UNCHANGED indexVars
      <3>1. UNCHANGED hnsw /\ UNCHANGED Entries
        BY <2>1 DEF indexVars, bfVars, Entries
      <3> QED
        BY <3>1 DEF HnswInv
    <2>2. ASSUME NEW id \in Ids, Delete(id)
          PROVE  HnswInv'
      BY <2>2, HnswDeleted DEF Delete
    <2>3. ASSUME NEW id \in Ids, NEW v \in VectorsOf[id], Insert(id, v)
          PROVE  HnswInv'
      <3>1. v \in Points
        BY IndexesAssumption
      <3> QED
        BY <2>3, <3>1, HnswInserted DEF Insert
    <2> QED
      BY <2>1, <2>2, <2>3 DEF Next
  <1> QED
    BY <1>1, <1>2, ScanBeside, InStep, PTL DEF Spec

(* The entry point is always a live node of the highest live level, and is *)
(* missing only when nothing is alive, whatever node a delete or a         *)
(* compaction takes away.                                                  *)
THEOREM EntryStaysTallest == Spec => []EntryTallest
  <1>1. HnswInv => EntryTallest
    BY DEF HnswInv, Sound, TallEntry, EntryTallest
  <1> QED
    BY <1>1, HnswHolds, PTL

(* The HNSW index always holds the records the linear-scan index holds,    *)
(* and counts its tombstones right.                                        *)
THEOREM GraphHoldsRecords == Spec => []HnswAgrees
  <1>1. HnswInv => HnswAgrees
    <2> SUFFICES ASSUME HnswInv
                 PROVE  HnswAgrees
      OBVIOUS
    <2>1. Indexed(hnsw) /\ Records(hnsw) = Entries
      BY DEF HnswInv, Sound
    <2>2. DOMAIN hnsw.slot_of = Present /\ \A id \in Present : hnsw.data[hnsw.slot_of[id]] = Entries[id]
      BY <2>1 DEF Records, Entries, Present
    <2>3. Range(hnsw.slot_of) = LiveSlots(hnsw)
      BY <2>1 DEF Indexed, Range
    <2> QED
      BY <2>1, <2>2, <2>3 DEF HnswAgrees, Indexed
  <1> QED
    BY <1>1, HnswHolds, PTL

(* Any state of the index, saved, passes the checks of loading and comes   *)
(* back as it was.                                                         *)
THEOREM SavedIsRestored == Spec => []LoadRestores
  <1>1. HnswInv => LoadRestores
    <2> SUFFICES ASSUME HnswInv
                 PROVE  LoadRestores
      OBVIOUS
    <2>1. Net(hnsw) /\ hnsw \in Graphs /\ Even(hnsw) /\ Indexed(hnsw) /\ TallEntry(hnsw)
      BY DEF HnswInv, Sound, Net
    <2>2. PICK body, live : body = Body(hnsw) /\ live = LiveSlots(hnsw)
      OBVIOUS
    <2>3. /\ body.ids = hnsw.ids /\ body.data = hnsw.data /\ body.links = hnsw.links
          /\ body.entry = hnsw.entry /\ body.deleted = hnsw.deleted /\ LiveIn(body) = live
      BY <2>2 DEF Body, LiveIn, LiveSlots, Slots
    <2>4. Slots(hnsw) = 1..Len(hnsw.ids) /\ live \subseteq Slots(hnsw) /\ Slots(hnsw) \subseteq Nat
      BY <2>2, NetShape, <2>1 DEF Slots, LiveSlots
    <2>5. ASSUME NEW s \in Slots(hnsw)
          PROVE  /\ hnsw.links[s] # <<>>
                 /\ \A l \in DOMAIN hnsw.links[s] : Range(hnsw.links[s][l]) \subseteq Slots(hnsw)
      <3>1. hnsw.links[s] \in Seq(Seq(Nat)) /\ Level(hnsw, s) = Len(hnsw.links[s]) /\ Level(hnsw, s) \in Nat
            /\ 1 <= Level(hnsw, s)
        BY <2>1, GraphShape
      <3>2. DOMAIN hnsw.links[s] = 1..Level(hnsw, s) /\ hnsw.links[s] # <<>>
        BY <3>1
      <3>3. ASSUME NEW l \in 1..Level(hnsw, s)
            PROVE  Range(hnsw.links[s][l]) \subseteq Slots(hnsw)
        <4>1. PICK q, S : q = hnsw.links[s][l] /\ S = Layer(hnsw, l) \ {s}
          OBVIOUS
        <4>2. q \in Seq(S) /\ S \subseteq Slots(hnsw)
          BY <2>1, <4>1, NetShape
        <4> QED
          BY <4>1, <4>2 DEF Range
      <3> QED
        BY <3>2, <3>3
    <2>6. \A s, t \in live : hnsw.ids[s] = hnsw.ids[t] => s = t
      BY <2>1, <2>2 DEF Indexed
    <2>7. Accepted(body)
      <3>1. IF body.entry = NoEntry THEN LiveIn(body) = {} ELSE body.entry <= Len(body.ids)
        <4>1. CASE hnsw.entry = NoEntry
          BY <2>1, <2>2, <2>3, <4>1 DEF TallEntry
        <4>2. CASE hnsw.entry # NoEntry
          <5>1. hnsw.entry \in 1..Len(hnsw.ids)
            BY <2>1, <2>2, <2>4, <4>2 DEF TallEntry
          <5> QED
            BY <2>3, <4>2, <5>1
        <4> QED
          BY <4>1, <4>2
      <3> QED
        BY <2>1, <2>3, <2>4, <2>5, <2>6, <3>1 DEF Accepted, Even
    <2>8. Rebuilt(body) = hnsw
      <3>1. PICK map : map = [id \in { body.ids[s] : s \in LiveIn(body) } |->
                                 CHOOSE s \in LiveIn(body) : body.ids[s] = id]
        OBVIOUS
      <3>2. { body.ids[s] : s \in live } = DOMAIN hnsw.slot_of
        BY <2>1, <2>2, <2>3 DEF Indexed
      <3>3. \A id \in DOMAIN hnsw.slot_of : (CHOOSE s \in live : hnsw.ids[s] = id) = hnsw.slot_of[id]
        <4> TAKE id \in DOMAIN hnsw.slot_of
        <4>1. hnsw.slot_of[id] \in live /\ hnsw.ids[hnsw.slot_of[id]] = id
          BY <2>1, <2>2 DEF Indexed
        <4> QED
          BY <2>6, <4>1
      <3>4. map = [id \in DOMAIN hnsw.slot_of |-> hnsw.slot_of[id]]
        BY <2>3, <3>1, <3>2, <3>3
      <3>5. map = hnsw.slot_of
        BY <2>1, <3>4 DEF Indexed
      <3>6. hnsw.deleted_count = Len(body.ids) - Cardinality(LiveIn(body))
        BY <2>1, <2>2, <2>3 DEF Indexed
      <3>7. Rebuilt(body) = [ids |-> hnsw.ids, data |-> hnsw.data, links |-> hnsw.links, entry |-> hnsw.entry,
                             deleted |-> hnsw.deleted, deleted_count |-> hnsw.deleted_count,
                             slot_of |-> hnsw.slot_of]
        BY <2>3, <3>1, <3>5, <3>6 DEF Rebuilt
      <3>8. hnsw = [ids |-> hnsw.ids, data |-> hnsw.data, slot_of |-> hnsw.slot_of, links |-> hnsw.links,
                    entry |-> hnsw.entry, deleted |-> hnsw.deleted, deleted_count |-> hnsw.deleted_count]
        BY <2>1 DEF Graphs
      <3> QED
        BY <3>7, <3>8
    <2> QED
      BY <2>2, <2>7, <2>8 DEF LoadRestores
  <1> QED
    BY <1>1, HnswHolds, PTL


LEMMA DistinctSize ==
    ASSUME NEW S, NEW q \in Seq(S), Distinct(q)
    PROVE  Cardinality(Range(q)) = Len(q)
  <1>1. PICK n \in Nat : n = Len(q) /\ DOMAIN q = 1..n /\ q \in [1..n -> S]
    OBVIOUS
  <1>2. PICK T : T = Range(q)
    OBVIOUS
  <1>3. q \in [1..n -> T] /\ \A y \in T : \E i \in 1..n : q[i] = y
    BY <1>1, <1>2 DEF Range
  <1>4. \A i, j \in 1..n : q[i] = q[j] => i = j
    BY <1>1 DEF Distinct
  <1>5. ExistsBijection(1..n, T)
    BY ONLY <1>3, <1>4 DEF ExistsBijection, Bijection, Injection, Surjection, IsInjective
  <1>6. 1 \in Int /\ n \in Int /\ (IF 1 > n THEN 0 ELSE n - 1 + 1) = n
    OBVIOUS
  <1>7. IsFiniteSet(1..n) /\ Cardinality(1..n) = n
    BY <1>6, FS_Interval
  <1>8. Cardinality(T) = Cardinality(1..n)
    BY ONLY <1>5, <1>7, FS_Bijection
  <1> QED
    BY <1>1, <1>2, <1>7, <1>8

(* As long as the base layer may have as many links as a node is given     *)
(* when it is inserted (the defaults and the comment on m_max0 allow twice *)
(* as many; nothing checks other parameters), every list of every node     *)
(* keeps its bound, names no node twice nor its owner, and only nodes that *)
(* reach the layer.                                                        *)
THEOREM GraphStaysWellFormed ==
    ASSUME M <= MMax0
    PROVE  Spec => []GraphWellFormed
  <1>1. HnswInv => GraphWellFormed
    <2> SUFFICES ASSUME HnswInv, NEW s \in Slots(hnsw), NEW l \in 1..Level(hnsw, s)
                 PROVE  /\ Len(hnsw.links[s][l]) <= IF l = 1 THEN MMax0 ELSE M
                        /\ Cardinality(Range(hnsw.links[s][l])) = Len(hnsw.links[s][l])
                        /\ \A nb \in Range(hnsw.links[s][l]) : nb # s /\ l <= Level(hnsw, nb)
      BY DEF GraphWellFormed
    <2>1. Net(hnsw) /\ Bounded(hnsw)
      BY DEF HnswInv, Sound
    <2>2. PICK list, S : list = hnsw.links[s][l] /\ S = Layer(hnsw, l) \ {s}
      OBVIOUS
    <2>3. s \in Layer(hnsw, l) /\ list \in Seq(S) /\ Distinct(list)
      BY <2>1, <2>2, NetShape
    <2>4. Len(list) <= IF l = 1 THEN MMax0 ELSE M
      BY <2>1, <2>2, <2>3 DEF Bounded, Roomy, MaxLinks
    <2>5. Cardinality(Range(list)) = Len(list)
      BY <2>3, DistinctSize
    <2>6. \A nb \in Range(list) : nb # s /\ l <= Level(hnsw, nb)
      <3>1. \A nb \in Range(list) : nb \in S
        BY <2>3 DEF Range
      <3> QED
        BY <2>2, <3>1 DEF Layer
    <2> QED
      BY <2>2, <2>4, <2>5, <2>6
  <1> QED
    BY <1>1, HnswHolds, PTL

-----------------------------------------------------------------------------
(* Answers. *)

UpTo(n, k) == IF n < k THEN n ELSE k

(* a lists the k nearest candidates, or all of them. *)
LEMMA NearestInOrder ==
    ASSUME NEW C, IsFiniteSet(C), C \subseteq Pairs, NEW k \in Nat, NEW a, a = InOrder(TopK(C, k))
    PROVE  /\ a \in Seq(C) /\ Len(a) = UpTo(Cardinality(C), k) /\ Len(a) \in Nat /\ Len(a) <= k
           /\ \A i, j \in 1..Len(a) : i < j => Before(a[i], a[j])
  <1>1. PICK top : top = TopK(C, k)
    OBVIOUS
  <1>2. top \subseteq C /\ (Cardinality(top) = k \/ (top = C /\ Cardinality(top) < k))
    BY <1>1, TopKIsTop DEF IsTop
  <1>3. /\ IsFiniteSet(top) /\ top \subseteq Pairs /\ Cardinality(top) <= Cardinality(C)
        /\ Cardinality(C) \in Nat /\ Cardinality(top) \in Nat
    BY <1>2, FS_Subset, FS_CardinalityType
  <1>4. a \in Seq(top) /\ Len(a) = Cardinality(top) /\ \A i, j \in 1..Len(a) : i < j => Before(a[i], a[j])
    BY <1>1, <1>3, InOrderSorted DEF Sorted
  <1>5. Cardinality(top) = UpTo(Cardinality(C), k)
    BY <1>2, <1>3 DEF UpTo
  <1>6. a \in Seq(C)
    BY <1>2, <1>4
  <1> QED
    BY <1>2, <1>3, <1>4, <1>5, <1>6

LEMMA InOrderAnswers ==
    ASSUME NEW C, IsFiniteSet(C), C \subseteq Pairs, NEW k \in Nat, NEW a, a = InOrder(TopK(C, k))
    PROVE  IsAnswer(a, C, k) /\ Len(a) = UpTo(Cardinality(C), k)
  <1>1. /\ a \in Seq(C) /\ Len(a) = UpTo(Cardinality(C), k) /\ Len(a) <= k
        /\ \A i, j \in 1..Len(a) : i < j => Before(a[i], a[j])
    BY NearestInOrder
  <1>2. Range(a) \subseteq C /\ DOMAIN a = 1..Len(a) /\ \A i \in 1..Len(a) : a[i] \in Pairs
    BY <1>1 DEF Range
  <1>3. \A x, y \in Pairs : Before(x, y) => x[1] <= y[1] /\ x # y
    BY DEF Before, Pairs
  <1>4. \A i, j \in DOMAIN a : i < j => a[i][1] <= a[j][1] /\ a[i] # a[j]
    BY <1>1, <1>2, <1>3
  <1> QED
    BY <1>1, <1>2, <1>4 DEF IsAnswer

(* Slots with ids of their own, and what an answer says of them. *)
Named(g, dist, S) ==
    /\ IsFiniteSet(S) /\ S \subseteq Int /\ Measured(dist, S)
    /\ \A s, t \in S : g.ids[s] = g.ids[t] => s = t

Listed(g, dist, S) == { <<dist[s], g.ids[s]>> : s \in S }

(* The ids of the slots found, in order. *)
LEMMA AnswerOf ==
    ASSUME NEW g, NEW S, NEW dist, Named(g, dist, S), NEW C \in SUBSET Cands(dist, S), NEW k \in Nat
    PROVE  /\ IsAnswer(Answer(g, C, k), Listed(g, dist, S), k)
           /\ Len(Answer(g, C, k)) = UpTo(Cardinality(C), k)
  <1> PICK a : a = Answer(g, C, k)
    OBVIOUS
  <1> USE DEF Named
  <1>1. /\ IsFiniteSet(C) /\ C \subseteq Pairs
        /\ \A c \in C : c[2] \in S /\ c = <<dist[c[2]], c[2]>>
    BY CandsFinite
  <1>2. PICK b : b = InOrder(TopK(C, k))
    OBVIOUS
  <1>3. /\ b \in Seq(C) /\ Len(b) = UpTo(Cardinality(C), k) /\ Len(b) \in Nat /\ Len(b) <= k
        /\ \A i, j \in 1..Len(b) : i < j => Before(b[i], b[j])
    BY <1>1, <1>2, NearestInOrder
  <1>4. PICK n \in Nat : n = Len(b) /\ DOMAIN b = 1..n
    BY <1>3
  <1>5. a = [i \in 1..n |-> <<b[i][1], g.ids[b[i][2]]>>]
    BY <1>2, <1>4 DEF Answer
  <1>6. DOMAIN a = 1..n /\ Len(a) = n
    BY <1>5
  <1>7. \A i \in 1..n : b[i][2] \in S /\ a[i] = <<dist[b[i][2]], g.ids[b[i][2]]>> /\ b[i] = <<dist[b[i][2]], b[i][2]>>
    <2> TAKE i \in 1..n
    <2>1. b[i] \in C
      BY <1>3, <1>4
    <2>2. b[i][2] \in S /\ b[i] = <<dist[b[i][2]], b[i][2]>> /\ b[i][1] = dist[b[i][2]]
      BY <1>1, <2>1
    <2> QED
      BY <1>5, <2>2
  <1>8. Range(a) \subseteq Listed(g, dist, S)
    <2>1. PICK T : T = Listed(g, dist, S)
      OBVIOUS
    <2>2. \A i \in 1..n : a[i] \in T
      BY <1>7, <2>1 DEF Listed
    <2> QED
      BY <1>6, <2>1, <2>2 DEF Range
  <1>9. ASSUME NEW i \in 1..n, NEW j \in 1..n, i < j
        PROVE  a[i][1] <= a[j][1] /\ a[i] # a[j]
    <2>1. PICK s \in S, t \in S : s = b[i][2] /\ t = b[j][2]
      BY <1>7
    <2>2. b[i] = <<dist[s], s>> /\ b[j] = <<dist[t], t>> /\ a[i] = <<dist[s], g.ids[s]>> /\ a[j] = <<dist[t], g.ids[t]>>
      BY <1>7, <2>1
    <2>3. Before(<<dist[s], s>>, <<dist[t], t>>)
      BY <1>3, <1>4, <1>9, <2>2
    <2>4. dist[s] < dist[t] \/ (dist[s] = dist[t] /\ s < t)
      BY <2>3 DEF Before
    <2>5. dist[s] \in Int /\ dist[t] \in Int /\ s \in Int /\ t \in Int
      BY DEF Measured
    <2>6. dist[s] <= dist[t] /\ s # t
      BY <2>4, <2>5
    <2>7. g.ids[s] # g.ids[t]
      BY <2>6
    <2> QED
      BY <2>2, <2>6, <2>7
  <1> QED
    BY <1>3, <1>4, <1>6, <1>8, <1>9 DEF IsAnswer


(* A search of the base layer finds admissible slots, ends for a reason    *)
(* the code has and, where every slot is admissible, finds one.            *)
LEMMA BaseFound ==
    ASSUME NEW g, Sound(g), g.entry # NoEntry, NEW q \in Points, NEW k \in Nat, NEW ef \in Nat \ {0},
           NEW admissible, NEW budget, NEW st, st = BaseSearch(g, q, k, ef, admissible, budget)
    PROVE  /\ st.results \in SUBSET Cands(DistancesTo(g, q), Slots(g) \cap admissible)
           /\ Finished(st, WiderOf(ef, k), budget)
           /\ Slots(g) \subseteq admissible => st.results # {}
           /\ Level(g, g.entry) = 1 /\ LiveSlots(g) \subseteq admissible => st.results # {}
  <1>1. Net(g) /\ TallEntry(g) /\ g.entry \in Slots(g) /\ g.entry \in LiveSlots(g)
    BY DEF Sound, TallEntry, LiveSlots
  <1>2. PICK dist, top, ep : /\ dist = DistancesTo(g, q) /\ top = Level(g, g.entry)
                             /\ ep = Descend(g, dist, top, 2)
    OBVIOUS
  <1>3. Measured(dist, Slots(g))
    <2>1. \A s \in Slots(g) : g.data[s] \in Int
      BY <1>1, NetShape, RankingAssumption
    <2>2. q \in Int
      BY RankingAssumption
    <2>3. \A s \in Slots(g) : dist[s] = Distance(q, g.data[s])
      BY <1>2 DEF DistancesTo
    <2>4. \A s \in Slots(g) : Distance(q, g.data[s]) \in Int
      BY <2>1, <2>2 DEF Distance
    <2> QED
      BY <2>3, <2>4 DEF Measured
  <1>4. /\ Layer(g, 1) = Slots(g) /\ IsFiniteSet(Slots(g)) /\ Slots(g) \subseteq Int
        /\ top \in Nat \ {0} /\ g.entry \in Layer(g, top) /\ Enclosed(g, Slots(g))
    <2>1. \A s \in Slots(g) : Level(g, s) \in Nat \ {0}
      BY <1>1, NetShape
    <2>2. Layer(g, 1) = Slots(g) /\ g.entry \in Layer(g, top) /\ top \in Nat \ {0}
      BY <1>1, <1>2, <2>1 DEF Layer
    <2>3. IsFiniteSet(Slots(g)) /\ Slots(g) \subseteq Int
      BY <1>1, NetShape
    <2> QED
      BY <1>1, <2>2, <2>3, AllEnclosed
  <1>5. ep \in Slots(g)
    <2>1. PICK two : two = 2
      OBVIOUS
    <2>2. two \in Nat \ {0} /\ ep = Descend(g, dist, top, two)
      BY <1>2, <2>1
    <2>3. CASE top >= two
      <3>1. g.entry \in Layer(g, top) \cap Slots(g) /\ top \in Nat
        BY <1>1, <1>4
      <3>2. Descend(g, dist, top, two) \in Layer(g, two) \cap Slots(g)
        BY <1>1, <1>3, <1>4, <2>2, <2>3, <3>1, DescendsFrom
      <3> QED
        BY <2>2, <3>2
    <2>4. CASE top < two
      <3>1. Descend(g, dist, top, two) = g.entry
        BY <1>4, <2>2, <2>4, DescendsNowhere
      <3> QED
        BY <1>1, <2>2, <3>1
    <2> QED
      BY <1>4, <2>2, <2>3, <2>4
  <1>6. PICK wide \in Nat \ {0} : wide = WiderOf(ef, k)
    BY DEF WiderOf
  <1>7. Closed(g, 1, Slots(g))
    <2>1. Closed(g, 1, Layer(g, 1) \cap Slots(g))
      BY <1>4 DEF Enclosed
    <2> QED
      BY <1>4, <2>1
  <1>8. Searchable(g, 1, Slots(g), dist, {ep}, wide)
    BY <1>3, <1>4, <1>5, <1>6, <1>7 DEF Searchable
  <1>9. st = SearchLayer(g, dist, {ep}, wide, 1, admissible, budget)
    BY <1>2, <1>6 DEF BaseSearch
  <1>10. Found(st, Slots(g), dist, {ep}, wide, admissible, budget)
    BY <1>8, <1>9, SearchLayerFinds
  <1>11. top = 1 => ep = g.entry
    <2>1. PICK two : two = 2
      OBVIOUS
    <2>2. ep = Descend(g, dist, top, two)
      BY <1>2, <2>1
    <2> QED
      BY <1>4, <2>1, <2>2, DescendsNowhere
  <1>12. top = 1 /\ LiveSlots(g) \subseteq admissible => st.results # {}
    BY <1>1, <1>10, <1>11 DEF Found
  <1> QED
    BY <1>2, <1>5, <1>6, <1>10, <1>12 DEF Found

(* Slots of live records, and the records. *)
LEMMA RecordsOf ==
    ASSUME HnswInv, NEW q \in Points, NEW allowed, NEW S, S = { s \in LiveSlots(hnsw) : hnsw.ids[s] \in allowed }
    PROVE  /\ Named(hnsw, DistancesTo(hnsw, q), S) /\ S \subseteq Slots(hnsw)
           /\ Listed(hnsw, DistancesTo(hnsw, q), S) = Ranked(q, allowed \cap Present)
           /\ Cardinality(S) = Cardinality(allowed \cap Present)
  <1>1. Net(hnsw) /\ Indexed(hnsw) /\ Records(hnsw) = Entries
    BY DEF HnswInv, Sound
  <1>2. S \subseteq Slots(hnsw) /\ S \subseteq LiveSlots(hnsw)
    BY DEF LiveSlots
  <1>3. IsFiniteSet(S) /\ S \subseteq Int
    <2>1. IsFiniteSet(Slots(hnsw)) /\ Slots(hnsw) \subseteq Int
      BY <1>1, NetShape
    <2> QED
      BY <1>2, <2>1, FS_Subset
  <1>4. PICK dist : dist = DistancesTo(hnsw, q)
    OBVIOUS
  <1>5. \A s \in Slots(hnsw) : dist[s] = Distance(q, hnsw.data[s])
    BY <1>4 DEF DistancesTo
  <1>6. Measured(dist, S)
    <2>1. \A s \in S : hnsw.data[s] \in Int
      BY <1>1, <1>2, NetShape, RankingAssumption
    <2>2. q \in Int
      BY RankingAssumption
    <2>3. \A s \in S : Distance(q, hnsw.data[s]) \in Int
      BY <2>1, <2>2 DEF Distance
    <2> QED
      BY <1>2, <1>5, <2>3 DEF Measured
  <1>7. \A s \in LiveSlots(hnsw) : hnsw.ids[s] \in DOMAIN hnsw.slot_of /\ hnsw.slot_of[hnsw.ids[s]] = s
    BY <1>1 DEF Indexed
  <1>8. \A id \in DOMAIN hnsw.slot_of : hnsw.slot_of[id] \in LiveSlots(hnsw) /\ hnsw.ids[hnsw.slot_of[id]] = id
    BY <1>1 DEF Indexed
  <1>9. DOMAIN hnsw.slot_of = Present /\ \A id \in Present : Entries[id] = hnsw.data[hnsw.slot_of[id]]
    BY <1>1 DEF Records, Entries, Present
  <1>10. PICK P : P = allowed \cap Present
    OBVIOUS
  <1>11. /\ \A s \in S : hnsw.ids[s] \in P /\ hnsw.slot_of[hnsw.ids[s]] = s
         /\ \A id \in P : hnsw.slot_of[id] \in S /\ hnsw.ids[hnsw.slot_of[id]] = id
    BY <1>2, <1>7, <1>8, <1>9, <1>10
  <1>12. Listed(hnsw, dist, S) = Ranked(q, P)
    <2>1. \A s \in S : dist[s] = Distance(q, Entries[hnsw.ids[s]])
      BY <1>2, <1>5, <1>9, <1>10, <1>11
    <2>2. Ranked(q, P) = { <<Distance(q, Entries[id]), id>> : id \in P }
      BY DEF Ranked
    <2>3. ASSUME NEW s \in S
          PROVE  <<dist[s], hnsw.ids[s]>> \in Ranked(q, P)
      BY <1>11, <2>1, <2>2
    <2>4. ASSUME NEW id \in P
          PROVE  \E s \in S : <<Distance(q, Entries[id]), id>> = <<dist[s], hnsw.ids[s]>>
      <3>1. PICK s \in S : s = hnsw.slot_of[id] /\ hnsw.ids[s] = id
        BY <1>11
      <3>2. dist[s] = Distance(q, Entries[id])
        BY <2>1, <3>1
      <3> QED
        BY <3>1, <3>2
    <2> QED
      BY <2>2, <2>3, <2>4 DEF Listed
  <1>13. Cardinality(S) = Cardinality(P)
    <2>1. PICK f : f = [s \in S |-> hnsw.ids[s]]
      OBVIOUS
    <2>2. /\ f \in [S -> P] /\ \A s, t \in S : f[s] = f[t] => s = t
          /\ \A id \in P : \E s \in S : f[s] = id
      BY <1>11, <2>1
    <2>3. ExistsBijection(S, P)
      BY ONLY <2>2 DEF ExistsBijection, Bijection, Injection, Surjection, IsInjective
    <2> QED
      BY <1>3, <2>3, FS_Bijection
  <1> QED
    BY <1>2, <1>3, <1>4, <1>6, <1>10, <1>11, <1>12, <1>13 DEF Named

(* Nothing to answer. *)
LEMMA NoAnswer ==
    ASSUME NEW C, NEW k \in Nat
    PROVE  IsAnswer(<<>>, C, k) /\ Len(<<>>) = 0
  BY DEF IsAnswer, Range

(* HnswSearchSound, for whatever is asked. *)
Selections ==
    \A q \in Points, k \in Nat, ef \in Nat \ {0} :
        LET answer == HnswSearch(hnsw, q, k, ef)
        IN  /\ IsAnswer(answer, Ranked(q, Present), k)
            /\ k > 0 /\ Present # {} /\ DescentEndsAlive => answer # <<>>

(* Whatever k and ef, an answer lists present records with their distance, *)
(* nearest first, none twice and at most k.  Unless the descent can end on *)
(* a tombstone, it is empty only if nothing is asked for or there is no    *)
(* record.  The run checks this of the k and ef of HnswSearchSound.        *)
THEOREM AnswersAreSelections == Spec => [](Selections /\ HnswSearchSound)
  <1>1. HnswInv => Selections
    <2> SUFFICES ASSUME HnswInv, NEW q \in Points, NEW k \in Nat, NEW ef \in Nat \ {0}
                 PROVE  /\ IsAnswer(HnswSearch(hnsw, q, k, ef), Ranked(q, Present), k)
                        /\ k > 0 /\ Present # {} /\ DescentEndsAlive => HnswSearch(hnsw, q, k, ef) # <<>>
      BY DEF Selections
    <2>1. PICK g, a, S, dist : /\ g = hnsw /\ a = HnswSearch(hnsw, q, k, ef) /\ S = LiveSlots(hnsw)
                               /\ dist = DistancesTo(hnsw, q)
      OBVIOUS
    <2>2. Sound(g) /\ Indexed(g) /\ TallEntry(g) /\ Net(g)
      BY <2>1 DEF HnswInv, Sound
    <2>3. /\ Named(g, dist, S) /\ S \subseteq Slots(g)
          /\ Listed(g, dist, S) = Ranked(q, Present)
          /\ Cardinality(S) = Cardinality(Present)
      <3>1. S = { s \in LiveSlots(hnsw) : hnsw.ids[s] \in Present } /\ Present \cap Present = Present
        <4>1. DOMAIN hnsw.slot_of = Present
          BY DEF HnswInv, Records, Entries, Present
        <4> QED
          BY <2>1, <2>2, <4>1 DEF Indexed
      <3> QED
        BY <2>1, <3>1, RecordsOf
    <2>4. CASE g.entry = NoEntry \/ k = 0
      <3>1. a = <<>>
        BY <2>1, <2>4 DEF HnswSearch
      <3>2. k > 0 => Present = {}
        <4>1. k > 0 => S = {}
          BY <2>1, <2>2, <2>4 DEF TallEntry
        <4>2. \A id \in Present : hnsw.slot_of[id] \in S
          BY <2>1, <2>2 DEF HnswInv, Records, Entries, Present, Indexed
        <4> QED
          BY <4>1, <4>2
      <3> QED
        BY <2>1, <3>1, <3>2, NoAnswer
    <2>5. CASE g.entry # NoEntry /\ k # 0
      <3>1. PICK st : st = BaseSearch(g, q, k, ef, S, NoBudget)
        OBVIOUS
      <3>2. a = Answer(g, st.results, k)
        BY <2>1, <2>5, <3>1 DEF HnswSearch
      <3>3. /\ st.results \in SUBSET Cands(dist, Slots(g) \cap S)
            /\ Slots(g) \subseteq S => st.results # {}
            /\ Level(g, g.entry) = 1 => st.results # {}
        <4>1. LiveSlots(g) \subseteq S
          BY <2>1
        <4>2. /\ st.results \in SUBSET Cands(DistancesTo(g, q), Slots(g) \cap S)
              /\ Slots(g) \subseteq S => st.results # {}
              /\ Level(g, g.entry) = 1 /\ LiveSlots(g) \subseteq S => st.results # {}
          BY <2>2, <2>5, <3>1, BaseFound
        <4> QED
          BY <2>1, <4>1, <4>2
      <3>4. st.results \in SUBSET Cands(dist, S)
        BY <3>3 DEF Cands
      <3>5. IsAnswer(a, Ranked(q, Present), k) /\ Len(a) = UpTo(Cardinality(st.results), k)
        BY <2>3, <3>2, <3>4, AnswerOf
      <3>6. ASSUME DescentEndsAlive
            PROVE  a # <<>>
        <4>1. ASSUME g.deleted_count = 0
              PROVE  Slots(g) = S
          <5>1. IsFiniteSet(Slots(g)) /\ Len(g.ids) \in Nat /\ Slots(g) = 1..Len(g.ids)
            BY <2>2, GraphShape DEF Net
          <5>2. Cardinality(S) = Len(g.ids)
            <6>1. g.deleted_count = Len(g.ids) - Cardinality(S)
              BY <2>1, <2>2 DEF Indexed
            <6>2. Cardinality(S) \in Nat
              BY <2>3, FS_CardinalityType DEF Named
            <6> QED
              BY <4>1, <5>1, <6>1, <6>2
          <5>3. Cardinality(Slots(g)) = Len(g.ids)
            <6>1. PICK n \in Nat : n = Len(g.ids)
              BY <5>1
            <6>2. 1 \in Int /\ n \in Int /\ (IF 1 > n THEN 0 ELSE n - 1 + 1) = n
              OBVIOUS
            <6>3. Cardinality(1..n) = n
              BY <6>2, FS_Interval
            <6> QED
              BY <5>1, <6>1, <6>3
          <5> QED
            BY <2>3, <5>1, <5>2, <5>3, FS_Subset
        <4>2. st.results # {}
          BY <2>1, <3>3, <3>6, <4>1 DEF DescentEndsAlive
        <4>3. IsFiniteSet(st.results) /\ Cardinality(st.results) \in Nat /\ Cardinality(st.results) # 0
          <5>1. IsFiniteSet(st.results)
            BY <2>3, <3>4, CandsFinite DEF Named
          <5> QED
            BY <4>2, <5>1, FS_CardinalityType, FS_EmptySet
        <4>4. Len(a) # 0
          BY <2>5, <3>5, <4>3 DEF UpTo
        <4> QED
          BY <4>4
      <3> QED
        BY <2>1, <3>5, <3>6
    <2> QED
      BY <2>4, <2>5
  <1>2. Selections => HnswSearchSound
    <2>1. \A k \in Ks : k \in Nat /\ k > 0
      BY DEF Ks
    <2>2. \A ef \in Efs : ef \in Nat \ {0}
      BY DEF Efs
    <2> QED
      BY <2>1, <2>2 DEF Selections, HnswSearchSound
  <1> QED
    BY <1>1, <1>2, HnswHolds, PTL

(* A filtered search never answers a record that does not match, and       *)
(* without a budget finds k matches or all of them, whatever the filter:   *)
(* where the graph finds too few, the scan makes up for it.                *)
THEOREM FilteredIsComplete == Spec => []FilteredComplete
  <1>1. HnswInv => FilteredComplete
    <2> SUFFICES ASSUME HnswInv, NEW q \in Points, NEW k \in Ks, NEW allowed \in SUBSET Ids,
                        NEW budget \in {1, NoBudget}
                 PROVE  /\ IsAnswer(HnswSearchFiltered(hnsw, q, k, 1, allowed, budget),
                                    Ranked(q, allowed \cap Present), k)
                        /\ budget = NoBudget =>
                               Len(HnswSearchFiltered(hnsw, q, k, 1, allowed, budget))
                                 = IF Cardinality(allowed \cap Present) < k
                                     THEN Cardinality(allowed \cap Present) ELSE k
      BY DEF FilteredComplete
    <2>0. k \in Nat \ {0} /\ k \in Nat
      BY DEF Ks
    <2>1. PICK g, a, S, dist : /\ g = hnsw /\ a = HnswSearchFiltered(hnsw, q, k, 1, allowed, budget)
                               /\ S = { s \in LiveSlots(hnsw) : hnsw.ids[s] \in allowed }
                               /\ dist = DistancesTo(hnsw, q)
      OBVIOUS
    <2>2. Sound(g) /\ Indexed(g) /\ TallEntry(g) /\ Net(g)
      BY <2>1 DEF HnswInv, Sound
    <2>3. PICK T : T = Listed(g, dist, S)
      OBVIOUS
    <2>4. /\ Named(g, dist, S) /\ S \subseteq Slots(g) /\ IsFiniteSet(S)
          /\ T = Ranked(q, allowed \cap Present)
          /\ Cardinality(S) = Cardinality(allowed \cap Present)
      <3>1. S = { s \in LiveSlots(hnsw) : hnsw.ids[s] \in allowed }
        BY <2>1
      <3>2. PICK e : e = DistancesTo(hnsw, q)
        OBVIOUS
      <3>3. /\ Named(hnsw, e, S) /\ S \subseteq Slots(hnsw)
            /\ Listed(hnsw, e, S) = Ranked(q, allowed \cap Present)
            /\ Cardinality(S) = Cardinality(allowed \cap Present)
        BY <3>1, <3>2, RecordsOf
      <3>4. IsFiniteSet(S)
        BY <3>3 DEF Named
      <3> QED
        BY <2>1, <2>3, <3>2, <3>3, <3>4
    <2>5. Cardinality(S) \in Nat
      BY <2>4, FS_CardinalityType
    <2>6. IsAnswer(a, T, k) /\ (budget = NoBudget => Len(a) = UpTo(Cardinality(S), k))
      <3>1. CASE g.entry = NoEntry
        <4>1. a = <<>>
          BY <2>1, <3>1 DEF HnswSearchFiltered
        <4>2. S = {} /\ Cardinality(S) = 0
          <5>1. S = {}
            BY <2>1, <2>2, <3>1 DEF TallEntry
          <5> QED
            BY <5>1, FS_EmptySet
        <4> QED
          BY <2>0, <4>1, <4>2, NoAnswer DEF UpTo
      <3>2. CASE g.entry # NoEntry
        <4>1. PICK st : st = BaseSearch(g, q, k, 1, S, budget)
          OBVIOUS
        <4>2. PICK enough \in BOOLEAN : enough = (Spent(st.visited, budget) \/ Cardinality(st.results) >= k)
          OBVIOUS
        <4>3. a = IF enough THEN Answer(g, st.results, k) ELSE InOrder(TopK(T, k))
          BY <2>0, <2>1, <2>3, <3>2, <4>1, <4>2 DEF HnswSearchFiltered, Listed
        <4>4. st.results \in SUBSET Cands(dist, S)
          <5>1. PICK one \in Nat \ {0} : one = 1
            OBVIOUS
          <5>2. st = BaseSearch(g, q, k, one, S, budget)
            BY <4>1, <5>1
          <5>3. st.results \in SUBSET Cands(DistancesTo(g, q), Slots(g) \cap S)
            BY <2>0, <2>2, <3>2, <5>2, BaseFound
          <5>4. Slots(g) \cap S = S
            BY <2>4
          <5> QED
            BY <2>1, <5>3, <5>4
        <4>5. /\ IsFiniteSet(st.results) /\ Cardinality(st.results) \in Nat
              /\ Cardinality(st.results) <= Cardinality(S)
          <5>1. PICK C : C = st.results
            OBVIOUS
          <5>2. IsFiniteSet(C) /\ Cardinality(C) \in Nat /\ \A c \in C : c[2] \in S /\ c = <<dist[c[2]], c[2]>>
            BY <2>4, <4>4, <5>1, CandsFinite DEF Named
          <5>3. PICK f : f = [c \in C |-> c[2]]
            OBVIOUS
          <5>4. f \in [C -> S] /\ \A c, d \in C : f[c] = f[d] => c = d
            BY <5>2, <5>3
          <5>5. f \in Injection(C, S)
            BY ONLY <5>4 DEF Injection, IsInjective
          <5>6. Cardinality(C) <= Cardinality(S)
            BY <2>4, <5>5, FS_Injection
          <5> QED
            BY <5>1, <5>2, <5>6
        <4>6. CASE enough
          <5>1. IsAnswer(a, T, k) /\ Len(a) = UpTo(Cardinality(st.results), k)
            <6>1. a = Answer(g, st.results, k)
              BY <4>3, <4>6
            <6> QED
              <7>1. PICK C \in SUBSET Cands(dist, S) : C = st.results
                BY <4>4
              <7>2. PICK m \in Nat : m = k
                BY <2>0
              <7>3. Named(g, dist, S)
                BY <2>4
              <7>4. IsAnswer(Answer(g, C, m), Listed(g, dist, S), m) /\ Len(Answer(g, C, m)) = UpTo(Cardinality(C), m)
                BY ONLY <7>3, C \in SUBSET Cands(dist, S), m \in Nat, AnswerOf
              <7> QED
                BY <2>3, <6>1, <7>1, <7>2, <7>4
          <5>2. budget = NoBudget => Cardinality(st.results) >= k
            BY <4>2, <4>6 DEF Spent
          <5> QED
            BY <2>0, <2>5, <4>5, <5>1, <5>2 DEF UpTo
        <4>7. CASE ~enough
          <5>1. a = InOrder(TopK(T, k))
            BY <4>3, <4>7
          <5>2. IsFiniteSet(T) /\ T \subseteq Pairs /\ Cardinality(T) = Cardinality(S)
            <6>1. PICK f : f = [s \in S |-> <<dist[s], g.ids[s]>>]
              OBVIOUS
            <6>2. /\ f \in [S -> T] /\ \A s, t \in S : f[s] = f[t] => s = t
                  /\ \A x \in T : \E s \in S : f[s] = x
              BY <2>3, <2>4, <6>1 DEF Named, Listed
            <6>3. ExistsBijection(S, T)
              BY ONLY <6>2 DEF ExistsBijection, Bijection, Injection, Surjection, IsInjective
            <6>4. IsFiniteSet(T) /\ Cardinality(T) = Cardinality(S)
              BY <2>4, <6>3, FS_Bijection
            <6>5. \A s \in S : g.ids[s] \in Int /\ dist[s] \in Int
              BY <2>2, <2>4, GraphShape, RankingAssumption DEF Net, Measured, Named
            <6> QED
              BY <2>3, <6>4, <6>5 DEF Pairs, Listed
          <5>3. IsAnswer(a, T, k) /\ Len(a) = UpTo(Cardinality(T), k)
            BY <2>0, <5>1, <5>2, InOrderAnswers
          <5> QED
            BY <5>2, <5>3
        <4> QED
          BY <4>6, <4>7
      <3> QED
        BY <3>1, <3>2
    <2> QED
      BY <2>1, <2>4, <2>6 DEF UpTo
  <1> QED
    BY <1>1, HnswHolds, PTL


-----------------------------------------------------------------------------
(* The frozen quantised copy. *)

LEMMA Extremes ==
    ASSUME NEW V, IsFiniteSet(V), V \subseteq Int, V # {}
    PROVE  (\E v \in V : \A w \in V : v <= w) /\ (\E v \in V : \A w \in V : w <= v)
  <1>1. PICK f, C : f = [v \in V |-> v] /\ C = Cands(f, V)
    OBVIOUS
  <1>2. Measured(f, V) /\ C = { <<v, v>> : v \in V }
    BY <1>1 DEF Measured, Cands
  <1>3. IsFiniteSet(C) /\ C \subseteq Pairs /\ C # {}
    <2>1. IsFiniteSet(Cands(f, V)) /\ Cands(f, V) \subseteq Pairs
      BY <1>2, CandsFinite
    <2>2. C # {}
      <3>1. PICK v \in V : TRUE
        OBVIOUS
      <3>2. <<v, v>> \in C
        BY <1>2, <3>1
      <3> QED
        BY <3>2
    <2> QED
      BY <1>1, <2>1, <2>2
  <1>4. Nearest(C) \in C /\ \A y \in C \ {Nearest(C)} : Before(Nearest(C), y)
    BY <1>3, NearestOf
  <1>5. Farthest(C) \in C /\ \A y \in C \ {Farthest(C)} : Before(y, Farthest(C))
    BY <1>3, FarthestOf
  <1>6. PICK v \in V, u \in V : Nearest(C) = <<v, v>> /\ Farthest(C) = <<u, u>>
    BY <1>2, <1>4, <1>5
  <1>7. ASSUME NEW w \in V
        PROVE  v <= w /\ w <= u
    <2>1. <<w, w>> \in C
      BY <1>2
    <2>2. w = v \/ Before(<<v, v>>, <<w, w>>)
      BY <1>4, <1>6, <2>1
    <2>3. w = u \/ Before(<<w, w>>, <<u, u>>)
      BY <1>5, <1>6, <2>1
    <2> QED
      BY <2>2, <2>3 DEF Before
  <1> QED
    BY <1>7

LEMMA FitTyped ==
    ASSUME NEW V, IsFiniteSet(V), V \subseteq Int
    PROVE  Fit(V).min \in Int /\ Fit(V).span \in Nat
  <1>1. CASE V = {}
    BY <1>1 DEF Fit
  <1>2. CASE V # {}
    <2>1. PICK least, most : /\ least = CHOOSE v \in V : \A w \in V : v <= w
                             /\ most = CHOOSE v \in V : \A w \in V : w <= v
      OBVIOUS
    <2>2. least \in V /\ most \in V /\ least <= most
      BY <1>2, <2>1, Extremes
    <2>3. Fit(V).min = least /\ Fit(V).span = most - least
      BY <1>2, <2>1 DEF Fit
    <2> QED
      BY <2>2, <2>3
  <1> QED
    BY <1>1, <1>2

(* A vector is coded by a number of the code range. *)
LEMMA EncodeTyped ==
    ASSUME NEW fit, fit.min \in Int, fit.span \in Nat, NEW x \in Int
    PROVE  Encode(fit, x) \in 0..CodeMax
  <1>1. CodeMax \in Nat
    BY QuantizedAssumption
  <1>2. CASE fit.span = 0
    BY <1>1, <1>2 DEF Encode
  <1>3. CASE fit.span # 0
    <2>1. PICK a, b : a = 2 * (x - fit.min) * CodeMax + fit.span /\ b = 2 * fit.span
      OBVIOUS
    <2>2. a \in Int /\ b \in Nat /\ b > 0
      <3>1. PICK y \in Int, c \in Nat : y = 2 * (x - fit.min) /\ c = CodeMax
        BY <1>1
      <3>2. y * c \in Int
        OBVIOUS
      <3> QED
        BY <1>3, <2>1, <3>1, <3>2
    <2>3. PICK code : code = a \div b
      OBVIOUS
    <2>4. code \in Int
      BY <2>2, <2>3
    <2>5. Encode(fit, x) = IF code < 0 THEN 0 ELSE IF code > CodeMax THEN CodeMax ELSE code
      BY <1>3, <2>1, <2>3 DEF Encode
    <2> QED
      BY <1>1, <2>4, <2>5
  <1> QED
    BY <1>2, <1>3

(* The copy has the nodes and the links of the graph, and its distances    *)
(* are numbers.                                                            *)
LEMMA FrozenShape ==
    ASSUME NEW g, Sound(g), NEW z, z = Frozen(g), NEW q \in Points
    PROVE  /\ z.ids = g.ids /\ z.links = g.links /\ z.entry = g.entry
           /\ Slots(z) = Slots(g) /\ LiveSlots(z) = LiveSlots(g)
           /\ \A s : Level(z, s) = Level(g, s)
           /\ Measured(CodeDistances(z, q), Slots(g))
           /\ CodeDistances(z, q) = [s \in Slots(g) |-> CodeDistance(z.fit, q, z.codes[s])]
  <1>1. /\ z.ids = g.ids /\ z.links = g.links /\ z.entry = g.entry /\ z.deleted = g.deleted
        /\ z.fit = Fit(Range(g.data)) /\ z.codes = [s \in Slots(g) |-> Encode(z.fit, g.data[s])]
    BY DEF Frozen
  <1>2. Slots(z) = Slots(g) /\ LiveSlots(z) = LiveSlots(g) /\ \A s : Level(z, s) = Level(g, s)
    BY <1>1 DEF Slots, LiveSlots, Level
  <1>3. PICK V : V = Range(g.data)
    OBVIOUS
  <1>4. IsFiniteSet(V) /\ V \subseteq Int /\ \A s \in Slots(g) : g.data[s] \in Int
    <2>1. g.data \in Seq(Points) /\ IsFiniteSet(Slots(g)) /\ Slots(g) = 1..Len(g.data)
      BY GraphShape DEF Sound, Net, Graphs, Even
    <2>2. DOMAIN g.data = Slots(g) /\ \A s \in Slots(g) : g.data[s] \in Points
      BY <2>1
    <2>3. V = { g.data[s] : s \in Slots(g) }
      BY <1>3, <2>2 DEF Range
    <2>4. PICK f : f = [s \in Slots(g) |-> g.data[s]]
      OBVIOUS
    <2>5. f \in Surjection(Slots(g), V)
      BY <2>3, <2>4 DEF Surjection
    <2>6. IsFiniteSet(V)
      BY ONLY <2>1, <2>5, FS_Surjection
    <2> QED
      BY <2>2, <2>3, <2>6, RankingAssumption
  <1>5. z.fit.min \in Int /\ z.fit.span \in Nat
    BY <1>1, <1>3, <1>4, FitTyped
  <1>6. \A s \in Slots(g) : z.codes[s] \in Int
    <2> TAKE s \in Slots(g)
    <2>1. z.codes[s] \in 0..CodeMax
      BY <1>1, <1>4, <1>5, EncodeTyped
    <2>2. CodeMax \in Nat
      BY QuantizedAssumption
    <2> QED
      BY <2>1, <2>2
  <1>7. PICK dist : dist = CodeDistances(z, q)
    OBVIOUS
  <1>8. dist = [s \in Slots(g) |-> CodeDistance(z.fit, q, z.codes[s])]
    BY <1>2, <1>7 DEF CodeDistances
  <1>9. ASSUME NEW s \in Slots(g)
        PROVE  CodeDistance(z.fit, q, z.codes[s]) \in Int
    <2>1. PICK a, b : a = q * CodeMax /\ b = z.fit.min * CodeMax + z.fit.span * z.codes[s]
      OBVIOUS
    <2>2. a \in Int /\ b \in Int
      <3>1. PICK c \in Nat, least \in Int, span \in Nat, code \in Int, p \in Int :
                c = CodeMax /\ least = z.fit.min /\ span = z.fit.span /\ code = z.codes[s] /\ p = q
        BY <1>5, <1>6, QuantizedAssumption, RankingAssumption
      <3>2. p * c \in Int /\ least * c \in Int /\ span * code \in Int
        OBVIOUS
      <3> QED
        BY <2>1, <3>1, <3>2
    <2>3. CodeDistance(z.fit, q, z.codes[s]) = (a - b) * (a - b)
      BY <2>1 DEF CodeDistance, Distance
    <2> QED
      BY <2>2, <2>3
  <1>10. Measured(dist, Slots(g))
    BY <1>8, <1>9 DEF Measured
  <1> QED
    BY <1>1, <1>2, <1>7, <1>8, <1>10

(* One layer of the descent of the copy. *)
FrozenLower(z, dist, ep, level) ==
    LET found == FrozenLayer(z, dist, ep, 1, level)
    IN  IF found = {} THEN ep ELSE Nearest(found)[2]

FrozenDescend(z, dist) ==
    FoldLeft(LAMBDA ep, level : FrozenLower(z, dist, ep, level), z.entry, Downward(Level(z, z.entry), 2))

LEMMA FrozenSearchIs ==
    ASSUME NEW z, NEW q, NEW k, NEW ef
    PROVE  LET dist == CodeDistances(z, q)
               ep == FrozenDescend(z, dist)
           IN  FrozenSearch(z, q, k, ef) =
                   IF z.entry = NoEntry \/ k = 0 THEN <<>>
                   ELSE Answer(z, FrozenLayer(z, dist, ep, WiderOf(ef, k), 1), k)
  BY DEF FrozenSearch, FrozenDescend, FrozenLower

(* From a live node a layer of the copy leads to live nodes only. *)
LEMMA FrozenLayerFinds ==
    ASSUME NEW g, Sound(g), NEW z, z = Frozen(g), NEW q \in Points, NEW dist, dist = CodeDistances(z, q),
           NEW l \in Nat \ {0}, NEW ep \in Layer(g, l) \cap LiveSlots(g), NEW ef \in Nat \ {0},
           NEW found, found = FrozenLayer(z, dist, ep, ef, l)
    PROVE  found \in SUBSET Cands(dist, Layer(g, l) \cap LiveSlots(g)) /\ found # {}
  <1>1. PICK R, live : R = Layer(g, l) /\ live = LiveSlots(g)
    OBVIOUS
  <1>2. Net(g)
    BY DEF Sound
  <1>3. /\ z.ids = g.ids /\ z.links = g.links /\ LiveSlots(z) = live /\ Measured(dist, Slots(g))
    BY <1>1, FrozenShape
  <1>4. IsFiniteSet(R) /\ R \subseteq Int /\ R \subseteq Slots(g) /\ Measured(dist, R) /\ R \cap Slots(g) = R
    <2>1. IsFiniteSet(R) /\ R \subseteq Slots(g) /\ Slots(g) \subseteq Nat
      BY <1>1, <1>2, NetShape
    <2> QED
      BY <1>3, <2>1 DEF Measured
  <1>5. Closed(z, l, R)
    <2>1. Closed(g, l, R)
      BY <1>1, <1>2, <1>4, AllEnclosed DEF Enclosed
    <2> QED
      BY <1>3, <2>1 DEF Closed
  <1>6. Searchable(z, l, R, dist, {ep}, ef)
    BY <1>1, <1>4, <1>5 DEF Searchable
  <1>7. PICK st : st = SearchLayer(z, dist, {ep}, ef, l, live, NoBudget)
    OBVIOUS
  <1>8. Found(st, R, dist, {ep}, ef, live, NoBudget)
    BY <1>6, <1>7, SearchLayerFinds
  <1>9. found = st.results
    BY <1>3, <1>7 DEF FrozenLayer
  <1> QED
    BY <1>1, <1>8, <1>9 DEF Found

LEMMA FrozenLowerFound ==
    ASSUME NEW g, Sound(g), NEW z, z = Frozen(g), NEW q \in Points, NEW dist, dist = CodeDistances(z, q),
           NEW l \in Nat \ {0}, NEW ep \in Layer(g, l) \cap LiveSlots(g)
    PROVE  FrozenLower(z, dist, ep, l) \in Layer(g, l) \cap LiveSlots(g)
  <1>1. PICK R, found, one : /\ R = Layer(g, l) \cap LiveSlots(g) /\ one = 1
                             /\ found = FrozenLayer(z, dist, ep, one, l)
    OBVIOUS
  <1>2. found \in SUBSET Cands(dist, R) /\ found # {}
    <2>1. one \in Nat \ {0}
      BY <1>1
    <2> QED
      BY <1>1, <2>1, FrozenLayerFinds
  <1>3. IsFiniteSet(R) /\ R \subseteq Int /\ Measured(dist, R)
    <2>1. Net(g) /\ LiveSlots(g) \subseteq Slots(g) /\ Measured(dist, Slots(g))
      BY FrozenShape DEF Sound, LiveSlots
    <2> QED
      BY <1>1, <2>1, LayersFinite
  <1>4. IsFiniteSet(found) /\ found \subseteq Pairs /\ \A c \in Cands(dist, R) : c[2] \in R
    BY <1>2, <1>3, CandsFinite
  <1>5. Nearest(found) \in found
    BY <1>2, <1>4, NearestOf
  <1>6. FrozenLower(z, dist, ep, l) = Nearest(found)[2]
    BY <1>1, <1>2 DEF FrozenLower
  <1> QED
    BY <1>1, <1>2, <1>4, <1>5, <1>6

LEMMA FrozenDescends ==
    ASSUME NEW g, Sound(g), g.entry # NoEntry, NEW z, z = Frozen(g), NEW q \in Points,
           NEW dist, dist = CodeDistances(z, q)
    PROVE  FrozenDescend(z, dist) \in LiveSlots(g)
  <1>1. PICK from, n, seq, first : /\ from = Level(g, g.entry) /\ n = (IF from < 2 THEN 0 ELSE from - 1)
                                   /\ seq = Downward(from, 2) /\ first = g.entry
    OBVIOUS
  <1>2. Net(g) /\ first \in LiveSlots(g) /\ first \in Slots(g) /\ from \in Nat \ {0}
    <2>1. Net(g) /\ g.entry \in LiveSlots(g) /\ g.entry \in Slots(g)
      BY DEF Sound, TallEntry, LiveSlots
    <2> QED
      BY <1>1, <2>1, NetShape
  <1>3. n \in Nat /\ DOMAIN seq = 1..n /\ \A i \in 1..n : seq[i] = from - i + 1 /\ from - i + 1 \in Nat \ {0}
    BY <1>1, <1>2 DEF Downward
  <1> DEFINE D == 1..n
             Low(s) == IF s = {} THEN from ELSE from - Max(s) + 1
             W == [s \in SUBSET D |-> Layer(g, Low(s)) \cap LiveSlots(g)]
             Op(acc, s) == FrozenLower(z, dist, acc, seq[Max(s)])
  <1>4. /\ IsFiniteSet(D) /\ Picks(Places(n), D)
        /\ \A s \in SUBSET D : s # {} =>
               /\ s \ {Max(s)} \in SUBSET D /\ Places(n)[s] = Max(s)
               /\ Max(s) \in D /\ Max(s) \in s
               /\ \A m \in s \ {Max(s)} : m < Max(s)
    BY <1>3, PlacesPick
  <1>5. first \in W[{}]
    <2>1. first \in Layer(g, from)
      BY <1>1, <1>2 DEF Layer
    <2> QED
      BY <1>2, <2>1
  <1>6. ASSUME NEW s \in SUBSET D, s # {}, NEW acc \in W[s \ {Max(s)}]
        PROVE  Op(acc, s) \in W[s]
    <2>0. Max(s) \in D /\ seq[Max(s)] = from - Max(s) + 1 /\ from - Max(s) + 1 \in Nat \ {0}
      BY <1>3, <1>4, <1>6
    <2>1. PICK k \in D, l \in Nat \ {0} : k = Max(s) /\ l = from - k + 1 /\ l = seq[k]
      BY <2>0
    <2>2. PICK r : r = s \ {k}
      OBVIOUS
    <2>3. r \in SUBSET D /\ \A m \in r : m < k
      BY <1>4, <1>6, <2>1, <2>2
    <2>4. acc \in Layer(g, Low(r)) /\ acc \in LiveSlots(g)
      BY <2>1, <2>2, <2>3
    <2>5. Low(r) \in Int /\ l <= Low(r)
      <3>1. CASE r = {}
        BY <1>2, <2>1, <3>1
      <3>2. CASE r # {}
        <4>1. Max(r) \in r /\ Max(r) \in D
          BY <1>4, <2>3, <3>2
        <4> QED
          BY <1>2, <2>1, <2>3, <3>2, <4>1
      <3> QED
        BY <3>1, <3>2
    <2>6. PICK low \in Int : low = Low(r)
      BY <2>5
    <2> HIDE DEF Low
    <2>7. acc \in Layer(g, l) \cap LiveSlots(g)
      <3>1. Layer(g, low) \subseteq Layer(g, l)
        BY <1>2, <2>5, <2>6, LayersNest
      <3> QED
        BY <2>4, <2>6, <3>1
    <2>8. FrozenLower(z, dist, acc, l) \in Layer(g, l) \cap LiveSlots(g)
      BY <2>7, FrozenLowerFound
    <2>9. Low(s) = l
      BY <1>6, <2>1 DEF Low
    <2> QED
      BY <2>1, <2>8, <2>9
  <1>7. DOMAIN seq = D /\ \A s \in SUBSET D : s # {} => \A acc \in W[s \ {Max(s)}] : Op(acc, s) \in W[s]
    BY <1>3, <1>6
  <1> DEFINE pick == Places(n)
             All == UNION { W[s] : s \in SUBSET D }
             step == [p \in (SUBSET D) \X All |-> Op(p[2], p[1])]
             Solves(f) == f = [s \in SUBSET D |-> IF s = {} THEN first ELSE Op(f[s \ {Max(s)}], s)]
  <1>8. /\ IsFiniteSet(D) /\ Picks(pick, D)
         /\ \A s \in SUBSET D : s # {} => s \ {Max(s)} \in SUBSET D /\ pick[s] = Max(s)
    BY <1>4
  <1> HIDE DEF Op, W, D, pick
  <1>9. ASSUME NEW s \in SUBSET D, s # {}, NEW acc \in W[s \ {Max(s)}]
         PROVE  step[<<s, acc>>] = Op(acc, s) /\ Op(acc, s) \in W[s]
    <2>1. acc \in All
      BY <1>8, <1>9
    <2>2. step[<<s, acc>>] = Op(acc, s)
      BY <2>1
    <2> QED
      BY <1>7, <1>9, <2>2
  <1> HIDE DEF step
  <1>10. MayBe(W, first, pick, step, D)
    BY <1>5, <1>8, <1>9 DEF MayBe
  <1>11. PICK it : /\ it = [s \in SUBSET D |-> it[s]] /\ Made(it, first, pick, step, D)
                   /\ \A s \in SUBSET D : it[s] \in W[s]
    BY <1>8, <1>10, FoldMade
  <1>12. Solves(it)
    <2>1. ASSUME NEW s \in SUBSET D
          PROVE  it[s] = IF s = {} THEN first ELSE Op(it[s \ {Max(s)}], s)
      BY <1>8, <1>9, <1>11 DEF Made
    <2> QED
      BY <1>11, <2>1
  <1>13. PICK f : f = CHOOSE e : Solves(e)
    OBVIOUS
  <1>14. Solves(f)
    <2> HIDE DEF Solves
    <2> QED
      BY <1>12, <1>13
  <1>15. MadeWithin(f, W, first, pick, step, D)
    <2>1. ASSUME NEW s \in SUBSET D, s # {}, f[s \ {pick[s]}] \in W[s \ {pick[s]}]
          PROVE  f[s] = step[<<s, f[s \ {pick[s]}]>>]
      <3>1. f[s] = Op(f[s \ {Max(s)}], s)
        BY <1>14, <2>1
      <3> HIDE DEF Solves
      <3> QED
        BY <1>8, <1>9, <2>1, <3>1
    <2>2. f[{}] = first
      BY <1>14
    <2> QED
      BY <2>1, <2>2 DEF MadeWithin
  <1>16. f[D] \in W[D]
    BY <1>8, <1>10, <1>15, FoldStays
  <1> USE DEF D, Op
  <1>17. FoldLeft(LAMBDA acc, lc : FrozenLower(z, dist, acc, lc), first, seq) = f[D]
    BY <1>1, <1>7, <1>13 DEF FoldLeft, MapThenFoldSet
  <1>18. FrozenDescend(z, dist) = f[D]
    <2>1. z.entry = first /\ Level(z, z.entry) = from
      BY <1>1, FrozenShape
    <2> QED
      BY <1>1, <1>17, <2>1 DEF FrozenDescend
  <1> QED
    BY <1>16, <1>18 DEF W

(* The records of a frozen copy with their coded distances. *)
CodedRecords(q) ==
    { <<CodeDistance(Frozen(hnsw).fit, q, Frozen(hnsw).codes[hnsw.slot_of[id]]), id>> : id \in Present }

(* Whatever the codes lose, a copy frozen at any moment answers present    *)
(* records with their coded distance, nearest first, none twice and at     *)
(* most k, and however many tombstones there are it finds something unless *)
(* the index is empty: tombstones are bridges here too, but every layer    *)
(* hands a live node down to the next.                                     *)
THEOREM FrozenAnswersAreLive ==
    Spec => [](\A q \in Points, k \in Nat, ef \in Nat \ {0} :
                   LET answer == FrozenSearch(Frozen(hnsw), q, k, ef)
                   IN  /\ IsAnswer(answer, CodedRecords(q), k)
                       /\ k > 0 /\ Present # {} => answer # <<>>)
  <1>1. HnswInv => \A q \in Points, k \in Nat, ef \in Nat \ {0} :
                       LET answer == FrozenSearch(Frozen(hnsw), q, k, ef)
                       IN  /\ IsAnswer(answer, CodedRecords(q), k)
                           /\ k > 0 /\ Present # {} => answer # <<>>
    <2> SUFFICES ASSUME HnswInv, NEW q \in Points, NEW k \in Nat, NEW ef \in Nat \ {0}
                 PROVE  /\ IsAnswer(FrozenSearch(Frozen(hnsw), q, k, ef), CodedRecords(q), k)
                        /\ k > 0 /\ Present # {} => FrozenSearch(Frozen(hnsw), q, k, ef) # <<>>
      OBVIOUS
    <2>1. PICK z, a, S, dist : /\ z = Frozen(hnsw) /\ a = FrozenSearch(z, q, k, ef) /\ S = LiveSlots(hnsw)
                               /\ dist = CodeDistances(z, q)
      OBVIOUS
    <2>2. Sound(hnsw) /\ Indexed(hnsw) /\ TallEntry(hnsw) /\ Net(hnsw) /\ DOMAIN hnsw.slot_of = Present
      BY DEF HnswInv, Sound, Records, Entries, Present
    <2>3. /\ z.ids = hnsw.ids /\ z.entry = hnsw.entry /\ Measured(dist, Slots(hnsw))
          /\ dist = [s \in Slots(hnsw) |-> CodeDistance(z.fit, q, z.codes[s])]
      BY <2>1, <2>2, FrozenShape
    <2>4. S \subseteq Slots(hnsw) /\ IsFiniteSet(Slots(hnsw)) /\ Slots(hnsw) \subseteq Int
      BY <2>1, <2>2, NetShape DEF LiveSlots
    <2>5. /\ \A s \in S : hnsw.ids[s] \in Present /\ hnsw.slot_of[hnsw.ids[s]] = s
          /\ \A id \in Present : hnsw.slot_of[id] \in S /\ hnsw.ids[hnsw.slot_of[id]] = id
      BY <2>1, <2>2 DEF Indexed
    <2>6. Named(z, dist, S)
      <3>1. IsFiniteSet(S) /\ S \subseteq Int
        BY <2>4, FS_Subset
      <3>2. Measured(dist, S)
        BY <2>3, <2>4 DEF Measured
      <3>3. \A s, t \in S : z.ids[s] = z.ids[t] => s = t
        BY <2>3, <2>5
      <3> QED
        BY <3>1, <3>2, <3>3 DEF Named
    <2>7. Listed(z, dist, S) = CodedRecords(q)
      <3>1. CodedRecords(q) = { <<CodeDistance(z.fit, q, z.codes[hnsw.slot_of[id]]), id>> : id \in Present }
        BY <2>1 DEF CodedRecords
      <3>2. \A s \in S : dist[s] = CodeDistance(z.fit, q, z.codes[s])
        BY <2>3, <2>4
      <3>3. ASSUME NEW s \in S
            PROVE  <<dist[s], z.ids[s]>> \in CodedRecords(q)
        <4>1. z.ids[s] \in Present /\ hnsw.slot_of[z.ids[s]] = s
          BY <2>3, <2>5
        <4> QED
          BY <3>1, <3>2, <4>1
      <3>4. ASSUME NEW id \in Present
            PROVE  \E s \in S : <<CodeDistance(z.fit, q, z.codes[hnsw.slot_of[id]]), id>> = <<dist[s], z.ids[s]>>
        <4>1. PICK s \in S : s = hnsw.slot_of[id] /\ z.ids[s] = id
          BY <2>3, <2>5
        <4> QED
          BY <3>2, <4>1
      <3> QED
        BY <3>1, <3>3, <3>4 DEF Listed
    <2>8. CASE hnsw.entry = NoEntry \/ k = 0
      <3>1. a = <<>>
        BY <2>1, <2>3, <2>8, FrozenSearchIs
      <3>2. k > 0 => Present = {}
        <4>1. k > 0 => S = {}
          BY <2>1, <2>2, <2>8 DEF TallEntry
        <4> QED
          BY <2>5, <4>1
      <3> QED
        BY <2>1, <3>1, <3>2, NoAnswer
    <2>9. CASE hnsw.entry # NoEntry /\ k # 0
      <3>1. PICK ep, wide, found : /\ ep = FrozenDescend(z, dist) /\ wide = WiderOf(ef, k)
                                   /\ found = FrozenLayer(z, dist, ep, wide, 1)
        OBVIOUS
      <3>2. a = Answer(z, found, k)
        BY <2>1, <2>3, <2>9, <3>1, FrozenSearchIs
      <3>3. ep \in S
        BY <2>1, <2>2, <2>9, <3>1, FrozenDescends
      <3>4. Layer(hnsw, 1) = Slots(hnsw)
        BY <2>2, NetShape DEF Layer
      <3>5. found \in SUBSET Cands(dist, S) /\ found # {}
        <4>1. PICK one \in Nat \ {0} : one = 1
          OBVIOUS
        <4>2. wide \in Nat \ {0}
          BY <3>1 DEF WiderOf
        <4>3. Layer(hnsw, one) \cap LiveSlots(hnsw) = S
          BY <2>1, <2>4, <3>4, <4>1
        <4>4. found \in SUBSET Cands(dist, Layer(hnsw, one) \cap LiveSlots(hnsw)) /\ found # {}
          BY <2>1, <2>2, <3>1, <3>3, <4>1, <4>2, <4>3, FrozenLayerFinds
        <4> QED
          BY <4>3, <4>4
      <3>6. PICK C \in SUBSET Cands(dist, S) : C = found
        BY <3>5
      <3>7. /\ IsAnswer(Answer(z, C, k), Listed(z, dist, S), k)
            /\ Len(Answer(z, C, k)) = UpTo(Cardinality(C), k)
        BY ONLY <2>6, C \in SUBSET Cands(dist, S), k \in Nat, AnswerOf
      <3>8. Cardinality(C) \in Nat /\ Cardinality(C) # 0
        <4>1. IsFiniteSet(C)
          BY <2>6, CandsFinite DEF Named
        <4> QED
          BY <3>5, <3>6, <4>1, FS_CardinalityType, FS_EmptySet
      <3>9. Len(a) # 0
        BY <2>9, <3>2, <3>6, <3>7, <3>8 DEF UpTo
      <3> QED
        BY <2>1, <2>7, <3>2, <3>6, <3>7, <3>9
    <2> QED
      BY <2>8, <2>9
  <1> QED
    BY <1>1, HnswHolds, PTL
=============================================================================

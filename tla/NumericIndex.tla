---------------------------- MODULE NumericIndex ----------------------------
(***************************************************************************)
(* The index of one numeric metadata field: a map ordered by value, for    *)
(* exact enumeration, and an equal-width histogram whose counts bracket    *)
(* the number of records in a range.  The histogram's range only grows; a  *)
(* value outside it widens it by an eighth and rebuilds the counts.        *)
(*                                                                         *)
(* Numbers are in fixed point, Unit to 1.0, and a float is known by its    *)
(* ordered_bits key: keys sort like the numbers, except that -0.0 has a    *)
(* key of its own just below that of 0.0.                                  *)
(***************************************************************************)
EXTENDS Integers, FiniteSets, FiniteSetsExt

CONSTANTS
    Buckets,    \* BUCKETS
    Bounds      \* keys of the range end points the properties ask about

Unit == 800
Infinity == 1000000

ASSUME NumericAssumption == Buckets \in Nat \ {0} /\ Bounds \subseteq Int

VARIABLES
    sorted,     \* pairs <<key, id>>
    total,
    lo, hi,     \* range of the histogram
    hist        \* bucket -> count

numericVars == <<sorted, total, lo, hi, hist>>

(* bits_to_f64: the number of a key, both zeros being the number 0. *)
Number(key) == IF key < 0 THEN key + 1 ELSE key

Lesser(a, b) == IF a < b THEN a ELSE b
Greater(a, b) == IF a < b THEN b ELSE a
Magnitude(v) == Greater(v, -v)

BucketOf(v, from, to) ==
    IF to <= from THEN 0
    ELSE Lesser(((v - from) * Buckets) \div (to - from), Buckets - 1)

NumericInit ==
    /\ sorted = {} /\ total = 0
    /\ lo = Infinity /\ hi = -Infinity
    /\ hist = [b \in 0..(Buckets - 1) |-> 0]

(* rebuild_hist *)
Recounted(pairs, from, to) ==
    [b \in 0..(Buckets - 1) |-> Cardinality({ p \in pairs : BucketOf(Number(p[1]), from, to) = b })]

(* The margin is an eighth of the range, or of a hundredth of the value. *)
Margin(v) == Greater((hi - lo) \div 8, Greater(Magnitude(v), Unit) \div 800)

(* Mutant: the range is widened without a recount. *)
WidenedOnly(key, id) ==
    LET v == Number(key) IN
    /\ sorted' = sorted \cup {<<key, id>>}
    /\ total' = total + 1
    /\ lo' = IF v < lo \/ v > hi THEN Lesser(lo, v - Margin(v)) ELSE lo
    /\ hi' = IF v < lo \/ v > hi THEN Greater(hi, v + Margin(v)) ELSE hi
    /\ hist' = [hist EXCEPT ![BucketOf(v, lo', hi')] = @ + 1]

NumericInsert(key, id) ==
    LET v == Number(key) IN
    /\ sorted' = sorted \cup {<<key, id>>}
    /\ total' = total + 1
    /\ IF v < lo \/ v > hi
         THEN /\ lo' = Lesser(lo, v - Margin(v))
              /\ hi' = Greater(hi, v + Margin(v))
              /\ hist' = Recounted(sorted', lo', hi')
         ELSE /\ hist' = [hist EXCEPT ![BucketOf(v, lo, hi)] = @ + 1]
              /\ UNCHANGED <<lo, hi>>

NumericRemove(key, id) ==
    IF <<key, id>> \in sorted
      THEN /\ sorted' = sorted \ {<<key, id>>}
           /\ total' = total - 1
           /\ hist' = [hist EXCEPT ![BucketOf(Number(key), lo, hi)] = Greater(@ - 1, 0)]
           /\ UNCHANGED <<lo, hi>>
      ELSE UNCHANGED numericVars

-----------------------------------------------------------------------------
(* The records counted in some buckets. *)
Counted(buckets) == MapThenSumSet(LAMBDA b : hist[b], buckets)

(* Mutant: the bucket of the upper end is left out. *)
EstimateOpen(qlo, qhi) ==
    LET first == BucketOf(Greater(qlo, lo), lo, hi)
        last == BucketOf(Lesser(qhi, hi), lo, hi)
        inner == Counted((first + 1)..(last - 1))
    IN  IF total = 0 \/ qhi < lo \/ qlo > hi THEN <<0, 0>>
        ELSE IF first = last THEN <<0, hist[first]>>
        ELSE <<inner, inner + hist[first]>>

(* estimate: bounds on the number of records in qlo..qhi.  The buckets     *)
(* inside count for both, the two at the ends for the upper bound only.    *)
Estimate(qlo, qhi) ==
    LET first == BucketOf(Greater(qlo, lo), lo, hi)
        last == BucketOf(Lesser(qhi, hi), lo, hi)
        inner == Counted((first + 1)..(last - 1))
    IN  IF total = 0 \/ qhi < lo \/ qlo > hi THEN <<0, 0>>
        ELSE IF first = last THEN <<0, hist[first]>>
        ELSE <<inner, inner + hist[first] + hist[last]>>

(* Mutant: the range excludes its upper end. *)
EnumerateHalfOpen(lowKey, highKey) == { p[2] : p \in { q \in sorted : lowKey <= q[1] /\ q[1] < highKey } }

(* enumerate_all, over the keys of the bounds. *)
EnumerateAll(lowKey, highKey) == { p[2] : p \in { q \in sorted : lowKey <= q[1] /\ q[1] <= highKey } }

(* enumerate_up_to: TooMany stands for None. *)
TooMany == {-1}
EnumerateUpTo(lowKey, highKey, limit) ==
    LET out == EnumerateAll(lowKey, highKey)
    IN  IF Cardinality(out) > limit THEN TooMany ELSE out

-----------------------------------------------------------------------------
(* Predicate::matches for a Range: closed, and on numbers. *)
Matching(lowKey, highKey) ==
    { p[2] : p \in { q \in sorted : Number(lowKey) <= Number(q[1]) /\ Number(q[1]) <= Number(highKey) } }

Ranges == { r \in Bounds \X Bounds : Number(r[1]) <= Number(r[2]) }

(* Range end points that sort with both zeros, should they be a zero. *)
ZeroSafe(r) == r[1] # 0 /\ r[2] # -1

(* The counters are the truth about the sorted map: a decrement goes to    *)
(* the bucket its increment went to, through every widening in between.    *)
HistogramExact ==
    /\ total = Cardinality(sorted)
    /\ \A p \in sorted : lo <= Number(p[1]) /\ Number(p[1]) <= hi
    /\ hist = Recounted(sorted, lo, hi)

(* The interval of estimate contains the number of records that match the  *)
(* range, at the borders of the buckets and outside the histogram too: the *)
(* planner answers "empty" on an upper bound of 0.                         *)
EstimateBrackets ==
    \A r \in Ranges :
        LET interval == Estimate(Number(r[1]), Number(r[2]))
            matches == Cardinality(Matching(r[1], r[2]))
        IN  interval[1] <= matches /\ matches <= interval[2]

(* An enumeration is exactly what the predicate matches, and is refused    *)
(* exactly when there are more than `limit`; a zero bound must have the    *)
(* sign that takes both zeros in.                                          *)
EnumerateExact ==
    \A r \in Ranges : ZeroSafe(r) =>
        /\ EnumerateAll(r[1], r[2]) = Matching(r[1], r[2])
        /\ \A limit \in 0..2 :
               EnumerateUpTo(r[1], r[2], limit) =
                   IF Cardinality(Matching(r[1], r[2])) <= limit THEN Matching(r[1], r[2]) ELSE TooMany
=============================================================================

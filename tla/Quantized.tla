----------------------------- MODULE Quantized -----------------------------
(***************************************************************************)
(* The quantised HNSW: the graph of an HNSW index frozen with its vectors  *)
(* reduced to codes 0..CodeMax.  Distances are asymmetric (an exact query  *)
(* against decoded codes) and, the decoded value being a fraction, kept    *)
(* multiplied by CodeMax squared.                                          *)
(***************************************************************************)
EXTENDS Hnsw

CONSTANT CodeMax    \* 255

ASSUME QuantizedAssumption == CodeMax \in Nat \ {0}

(* ScalarQuantizer::fit: the smallest and the largest coordinate. *)
Fit(values) ==
    IF values = {} THEN [min |-> 0, span |-> 0]
    ELSE LET least == CHOOSE v \in values : \A w \in values : v <= w
             most == CHOOSE v \in values : \A w \in values : w <= v
         IN  [min |-> least, span |-> most - least]

(* encode: the nearest code, halves rounded up, clamped to the code range. *)
Encode(fit, x) ==
    LET code == (2 * (x - fit.min) * CodeMax + fit.span) \div (2 * fit.span)
    IN  IF fit.span = 0 \/ code < 0 THEN 0 ELSE IF code > CodeMax THEN CodeMax ELSE code

(* dist: `min + scale * code` against the query. *)
CodeDistance(fit, q, code) == Distance(q * CodeMax, fit.min * CodeMax + fit.span * code)

(* from_hnsw *)
Frozen(g) ==
    LET fit == Fit(Range(g.data))
    IN  [fit |-> fit, codes |-> [s \in Slots(g) |-> Encode(fit, g.data[s])],
         ids |-> g.ids, links |-> g.links, entry |-> g.entry, deleted |-> g.deleted,
         live |-> Cardinality(LiveSlots(g))]

CodeDistances(z, q) == [s \in Slots(z) |-> CodeDistance(z.fit, q, z.codes[s])]

(* Mutant: tombstones are admitted while descending and at the base. *)
FrozenLayerAll(z, dist, ep, ef, level) ==
    SearchLayer(z, dist, {ep}, ef, level, Slots(z), NoBudget).results

(* The layer search of the frozen index never admits a tombstone. *)
FrozenLayer(z, dist, ep, ef, level) ==
    SearchLayer(z, dist, {ep}, ef, level, LiveSlots(z), NoBudget).results

(* search_with_ef: a layer on which no live node is found is passed        *)
(* through where it was entered.                                           *)
FrozenSearch(z, q, k, ef) ==
    LET dist == CodeDistances(z, q)
        Step(ep, level) ==
            LET found == FrozenLayer(z, dist, ep, 1, level)
            IN  IF found = {} THEN ep ELSE Nearest(found)[2]
        ep == FoldLeft(Step, z.entry, Downward(Level(z, z.entry), 2))
    IN  IF z.entry = NoEntry \/ k = 0 THEN <<>>
        ELSE Answer(z, FrozenLayer(z, dist, ep, WiderOf(ef, k), 1), k)
=============================================================================

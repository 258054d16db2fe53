-------------------------------- MODULE Hnsw --------------------------------
(***************************************************************************)
(* The HNSW index: a layered proximity graph whose nodes are slots.  A new *)
(* node is linked, on every layer up to its random level, to a few of the  *)
(* nodes a best-first search finds; full neighbour lists are pruned; a     *)
(* delete leaves a tombstone in the graph until enough of them trigger a   *)
(* compaction, which builds the index afresh.                              *)
(*                                                                         *)
(* The whole index is one record, because compaction and loading produce   *)
(* one from nothing.  Slots and levels count from 1, so that a node's      *)
(* level is the length of its list of neighbour lists.  The random level   *)
(* of an insert is any level.                                              *)
(***************************************************************************)
EXTENDS Ranking, SequencesExt

CONSTANTS
    MaxLevel,           \* highest level the generator draws
    M, MMax0,           \* HnswParams.m, m_max0
    EfConstruction,     \* HnswParams.ef_construction
    EfSearch,           \* HnswParams.ef_search
    CompactPercent      \* HnswParams.tombstone_threshold, in percent

ASSUME HnswAssumption ==
    {MaxLevel, M, MMax0, EfConstruction, EfSearch, CompactPercent} \subseteq Nat \ {0}

VARIABLE hnsw           \* the index

NoEntry == 0
NoBudget == -1          \* visited_budget: None
LevelDrawn == 1..MaxLevel

EmptyIndex ==
    [ids |-> <<>>, data |-> <<>>, slot_of |-> [id \in {} |-> 1], links |-> <<>>,
     entry |-> NoEntry, deleted |-> <<>>, deleted_count |-> 0]

Slots(g) == 1..Len(g.ids)
LiveSlots(g) == { s \in Slots(g) : ~g.deleted[s] }
Level(g, s) == Len(g.links[s])
DistancesTo(g, q) == [s \in Slots(g) |-> Distance(q, g.data[s])]

-----------------------------------------------------------------------------
(* search_layer (Algorithm 2).  The search keeps the slots it has met, the *)
(* candidates to expand and the best `ef` admissible results; `dist` gives *)
(* the distance of every slot from the query.                              *)

(* A neighbour met while a node is expanded.  An inadmissible one serves   *)
(* as a bridge: it is expanded later but never a result.                   *)
Meet(dist, admissible, ef, st, nb) ==
    LET c == <<dist[nb], nb>>
        within == Cardinality(st.results) < ef \/ c[1] < Farthest(st.results)[1]
        more == st.results \cup {c}
    IN  IF nb \in st.visited THEN st
        ELSE [visited |-> st.visited \cup {nb},
              frontier |-> IF within THEN st.frontier \cup {c} ELSE st.frontier,
              results |->
                  IF ~within \/ nb \notin admissible THEN st.results
                  ELSE IF Cardinality(more) > ef THEN more \ {Farthest(more)} ELSE more]

(* The budget of a filtered search, in nodes visited. *)
Spent(visited, budget) == budget # NoBudget /\ Cardinality(visited) >= budget

(* Nothing nearer can be found on this layer, or the budget is spent. *)
Finished(st, ef, budget) ==
    \/ st.frontier = {}
    \/ Spent(st.visited, budget)
    \/ /\ Cardinality(st.results) >= ef
       /\ Nearest(st.frontier)[1] > Farthest(st.results)[1]

(* The neighbours of the nearest candidate are met. *)
Expanded(g, dist, admissible, ef, level, st) ==
    LET cur == Nearest(st.frontier)
    IN  FoldLeft(LAMBDA acc, nb : Meet(dist, admissible, ef, acc, nb),
                 [st EXCEPT !.frontier = @ \ {cur}],
                 g.links[cur[2]][level])

(* The loop.  A slot becomes a candidate once, when it is met, so that one *)
(* turn for every slot of the graph is enough.                             *)
Explore(g, dist, admissible, ef, level, budget, start) ==
    LET after[n \in 0..Len(g.ids)] ==
            IF n = 0 THEN start
            ELSE LET st == after[n - 1]
                 IN  IF Finished(st, ef, budget) THEN st
                     ELSE Expanded(g, dist, admissible, ef, level, st)
    IN  after[Len(g.ids)]

SearchLayer(g, dist, eps, ef, level, admissible, budget) ==
    LET start == { <<dist[s], s>> : s \in eps }
    IN  Explore(g, dist, admissible, ef, level, budget,
            [visited |-> eps, frontier |-> start,
             results |-> { c \in start : c[2] \in admissible }])

SlotsOf(cands) == { c[2] : c \in cands }

(* The candidates in the order of Before. *)
InOrder(cands) ==
    MapThenFoldSet(LAMBDA c, nearer : Append(nearer, c), <<>>, LAMBDA c : c, Farthest, cands)

(* Layers from..to, highest first. *)
Downward(from, to) == [i \in 1..(IF from < to THEN 0 ELSE from - to + 1) |-> from - i + 1]

(* The greedy descent through the layers from..to: the nearest node each   *)
(* layer search finds is where the next begins.  Tombstones may be passed. *)
Descend(g, dist, from, to) ==
    FoldLeft(LAMBDA ep, level :
                 Nearest(SearchLayer(g, dist, {ep}, 1, level, Slots(g), NoBudget).results)[2],
             g.entry, Downward(from, to))

-----------------------------------------------------------------------------
(* select_neighbors_heuristic (Algorithm 4): a candidate nearer to a       *)
(* selected one than to the query is set aside, and the nearest set-aside  *)
(* ones fill what remains of the quota.                                    *)
SelectNeighbors(g, cands, m) ==
    LET Dominated(c, selected) ==
            \E s \in Range(selected) : Distance(g.data[c[2]], g.data[s[2]]) < c[1]
        Consider(acc, c) ==
            IF Len(acc.selected) >= m THEN acc
            ELSE IF Dominated(c, acc.selected)
                   THEN [acc EXCEPT !.pruned = Append(@, c)]
                   ELSE [acc EXCEPT !.selected = Append(@, c)]
        split == FoldLeft(Consider, [selected |-> <<>>, pruned |-> <<>>], InOrder(cands))
        filled == split.selected \o split.pruned
        chosen == SubSeq(filled, 1, IF Len(filled) < m THEN Len(filled) ELSE m)
    IN  [i \in DOMAIN chosen |-> chosen[i][2]]


MaxLinks(level) == IF level = 1 THEN MMax0 ELSE M

(* Mutant: lists are pruned one too late. *)
ShrinkLate(g, node, level) ==
    IF Len(g.links[node][level]) <= MaxLinks(level) + 1 THEN g
    ELSE LET near == { <<Distance(g.data[node], g.data[nb]), nb>> : nb \in Range(g.links[node][level]) }
         IN  [g EXCEPT !.links[node][level] = SelectNeighbors(g, near, MaxLinks(level))]

(* shrink_links: an overfull neighbour list is pruned by the heuristic. *)
ShrinkLinks(g, node, level) ==
    IF Len(g.links[node][level]) <= MaxLinks(level) THEN g
    ELSE LET near == { <<Distance(g.data[node], g.data[nb]), nb>> : nb \in Range(g.links[node][level]) }
         IN  [g EXCEPT !.links[node][level] = SelectNeighbors(g, near, MaxLinks(level))]

(* The new node and its chosen neighbours are linked both ways. *)
LinkBothWays(g, slot, level, neighbors) ==
    FoldLeft(LAMBDA acc, nb :
                 ShrinkLinks([acc EXCEPT !.links[slot][level] = Append(@, nb),
                                         !.links[nb][level] = Append(@, slot)], nb, level),
             g, neighbors)

(* A slot is taken for a record; its lists are still empty. *)
Placed(g, id, v, level) ==
    [g EXCEPT !.ids = Append(@, id), !.data = Append(@, v), !.deleted = Append(@, FALSE),
              !.slot_of = [x \in DOMAIN @ \cup {id} |-> IF x = id THEN Len(g.ids) + 1 ELSE @[x]],
              !.links = Append(@, [l \in 1..level |-> <<>>])]

(* A layer of the new node is linked, and the next search starts from all  *)
(* the nodes this one found.                                               *)
LayerLinked(acc, slot, dist, lc) ==
    LET found == SearchLayer(acc.graph, dist, acc.eps, EfConstruction, lc,
                             Slots(acc.graph), NoBudget).results
    IN  [graph |-> LinkBothWays(acc.graph, slot, lc, SelectNeighbors(acc.graph, found, M)),
         eps |-> SlotsOf(found)]

(* insert (Algorithm 1) of an id that is not there, at the drawn level:    *)
(* the first node is the entry; any other is linked from its level down.   *)
Inserted(g, id, v, level) ==
    LET slot == Len(g.ids) + 1
        placed == Placed(g, id, v, level)
        top == Level(g, g.entry)
        dist == DistancesTo(placed, v)
        linked == FoldLeft(LAMBDA acc, lc : LayerLinked(acc, slot, dist, lc),
                           [graph |-> placed, eps |-> {Descend(placed, dist, top, level + 1)}],
                           Downward(IF level < top THEN level ELSE top, 1)).graph
    IN  IF g.entry = NoEntry THEN [placed EXCEPT !.entry = slot]
        ELSE [linked EXCEPT !.entry = IF level > top THEN slot ELSE @]

(* Mutant: tombstoned nodes are inserted too. *)
CompactedAll(g, levels) ==
    MapThenFoldSet(LAMBDA s, fresh : Inserted(fresh, g.ids[s], g.data[s], 1),
                   EmptyIndex, LAMBDA s : s, Max, Slots(g))

(* compact: the live nodes are inserted, in slot order, into a new index.  *)
Compacted(g, levels) ==
    MapThenFoldSet(LAMBDA s, fresh : Inserted(fresh, g.ids[s], g.data[s], levels[s]),
                   EmptyIndex, LAMBDA s : s, Max, LiveSlots(g))

(* Mutant: the first live node becomes the entry. *)
FirstLiveEntry(g) ==
    LET live == LiveSlots(g)
    IN  IF live = {} THEN NoEntry ELSE CHOOSE s \in live : \A t \in live : s <= t

(* pick_new_entry: max_by_key returns the last of the highest live nodes. *)
NewEntry(g) ==
    LET live == LiveSlots(g)
    IN  IF live = {} THEN NoEntry
        ELSE CHOOSE s \in live : \A t \in live \ {s} :
                 Level(g, t) < Level(g, s) \/ (Level(g, t) = Level(g, s) /\ t < s)

(* delete, up to the compaction. *)
Tombstoned(g, id) ==
    LET slot == g.slot_of[id]
        marked == [g EXCEPT !.slot_of = [x \in DOMAIN @ \ {id} |-> @[x]],
                            !.deleted[slot] = TRUE, !.deleted_count = @ + 1]
    IN  IF g.entry = slot THEN [marked EXCEPT !.entry = NewEntry(marked)] ELSE marked

NeedsCompaction(g) == g.deleted_count * 100 >= CompactPercent * Len(g.ids)

-----------------------------------------------------------------------------
HnswInit == hnsw = EmptyIndex

HnswInsert(id, v) ==
    IF id \in DOMAIN hnsw.slot_of THEN UNCHANGED hnsw      \* DuplicateId
    ELSE \E level \in LevelDrawn : hnsw' = Inserted(hnsw, id, v, level)

HnswDelete(id) ==
    IF id \notin DOMAIN hnsw.slot_of THEN UNCHANGED hnsw   \* NotFound
    ELSE LET marked == Tombstoned(hnsw, id)
         IN  IF NeedsCompaction(marked)
               THEN \E levels \in [LiveSlots(marked) -> LevelDrawn] : hnsw' = Compacted(marked, levels)
               ELSE hnsw' = marked

-----------------------------------------------------------------------------
(* search_with_ef: the answer, nearest first. *)
Answer(g, cands, k) ==
    LET best == InOrder(TopK(cands, k))
    IN  [i \in DOMAIN best |-> <<best[i][1], g.ids[best[i][2]]>>]

WiderOf(ef, k) == IF ef < k THEN k ELSE ef

BaseSearch(g, q, k, ef, admissible, budget) ==
    LET dist == DistancesTo(g, q)
    IN  SearchLayer(g, dist, {Descend(g, dist, Level(g, g.entry), 2)}, WiderOf(ef, k), 1,
                    admissible, budget)

(* Mutant: tombstones are admitted at the base layer. *)
SearchWithTombstones(g, q, k, ef) ==
    IF g.entry = NoEntry \/ k = 0 THEN <<>>
    ELSE Answer(g, BaseSearch(g, q, k, ef, Slots(g), NoBudget).results, k)

HnswSearch(g, q, k, ef) ==
    IF g.entry = NoEntry \/ k = 0 THEN <<>>
    ELSE Answer(g, BaseSearch(g, q, k, ef, LiveSlots(g), NoBudget).results, k)

(* Mutant: a graph search that found too few is answered as it is. *)
NoFallback(g, q, k, ef, allowed, budget) ==
    IF g.entry = NoEntry \/ k = 0 THEN <<>>
    ELSE Answer(g, BaseSearch(g, q, k, ef, { s \in LiveSlots(g) : g.ids[s] \in allowed }, budget).results, k)

(* search_filtered_stats: the partial result of a spent budget is answered *)
(* as it is; otherwise fewer than k results lead to a scan of all live     *)
(* records.                                                                *)
HnswSearchFiltered(g, q, k, ef, allowed, budget) ==
    LET admissible == { s \in LiveSlots(g) : g.ids[s] \in allowed }
        found == BaseSearch(g, q, k, ef, admissible, budget)
        enough == Spent(found.visited, budget) \/ Cardinality(found.results) >= k
        scanned == { <<DistancesTo(g, q)[s], g.ids[s]>> : s \in admissible }
    IN  IF g.entry = NoEntry \/ k = 0 THEN <<>>
        ELSE IF enough THEN Answer(g, found.results, k) ELSE InOrder(TopK(scanned, k))

-----------------------------------------------------------------------------
(* Persistence: to_bytes writes everything but the id map, the tombstone   *)
(* count and the generator; rebuild validates the body and restores them.  *)
(* The byte layout is left out.                                            *)
Body(g) == [ids |-> g.ids, data |-> g.data, links |-> g.links, entry |-> g.entry,
            deleted |-> g.deleted]

LiveIn(body) == { s \in 1..Len(body.ids) : ~body.deleted[s] }

(* The checks of parse (magic, version, CRC and lengths leave: a vector per *)
(* id) and of rebuild, each of which refuses a body as corrupt.             *)
Accepted(body) ==
    LET n == Len(body.ids)
    IN  /\ Len(body.links) = n /\ Len(body.deleted) = n /\ Len(body.data) = n
        /\ \A s \in 1..n : /\ body.links[s] # <<>>
                           /\ \A l \in DOMAIN body.links[s] : Range(body.links[s][l]) \subseteq 1..n
        /\ IF body.entry = NoEntry THEN LiveIn(body) = {} ELSE body.entry <= n
        /\ \A s, t \in LiveIn(body) : body.ids[s] = body.ids[t] => s = t

(* Mutant: tombstoned slots enter the id map too. *)
RebuiltWithTombstones(body) ==
    [ids |-> body.ids, data |-> body.data, links |-> body.links, entry |-> body.entry,
     deleted |-> body.deleted, deleted_count |-> Len(body.ids) - Cardinality(LiveIn(body)),
     slot_of |-> [id \in Range(body.ids) |-> CHOOSE s \in 1..Len(body.ids) : body.ids[s] = id]]

Rebuilt(body) ==
    [ids |-> body.ids, data |-> body.data, links |-> body.links, entry |-> body.entry,
     deleted |-> body.deleted, deleted_count |-> Len(body.ids) - Cardinality(LiveIn(body)),
     slot_of |-> [id \in { body.ids[s] : s \in LiveIn(body) } |->
                    CHOOSE s \in LiveIn(body) : body.ids[s] = id]]
=============================================================================

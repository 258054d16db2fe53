# GVector: a TLA+ verification development

GVector is a vector database in Rust: an index made of a write buffer, a queue
of buffers being sealed and a list of HNSW segments, kept in memory, made
durable by a write-ahead log and checkpoints, and served over HTTP by one writer
task. Source paths below are relative to the repository root; `segmented.rs` is
`src/src/index/segmented.rs`.

## 1. The system: inventory

| Component | State | Operations | Interacts with |
|---|---|---|---|
| Segmented index, write path (`segmented.rs`) | write buffer, `sealing` list, `segments` list, a tombstone set per sealing buffer and per segment, two in-flight flags | `insert_with_meta`, `delete_shared`, `seal`, `apply_backpressure`, `checkpoint` | spawns the seal thread; every list is shared with threads and readers under RwLocks |
| Seal thread (`SealContext`) | the buffer it builds | take the oldest buffer, build an HNSW from it without a lock, swap it into `segments`; release and re-claim its flag | starts the merge thread |
| Merge thread (`MergeContext`, `merge_smallest_pair_bg`) | two victims, a snapshot of each one's tombstones | while over the ceiling: pick the two smallest segments, copy them without a lock, carry over new tombstones, swap | shares `segments` with everyone |
| Search (`search_shared_with_ef`) | cloned lists, hits | walk segments, sealing buffers, buffer; deduplicate | runs on any thread beside all of the above |
| Metadata, posting lists, planner, filtered search | `MetaStore`, inverted lists, numeric indexes | `index_metadata`, the clean-up of `apply_delete`, `estimate`, `plan`, the arms of `search_filtered`, `scan_candidates` | written by the writer, read under several locks |
| Numeric field index (`index/numeric.rs`) | sorted pairs, histogram | insert (may widen and recount), remove, estimate, enumerate | one per numeric field |
| Write-ahead log (`storage/wal.rs`) | file, buffered tail, dirty flag | append, sync, commit, replay and truncate | written before memory is changed |
| Checkpoint files (`storage/mod.rs`) | segment files, metadata snapshot, manifest | durable write by rename, manifest swap, garbage collection | `checkpoint`, `open_inner` |
| Server (`bin/server.rs`) | the channel, the batch, replies pending | receive a batch, apply its commands, commit once, answer | the only writer of the index; searches run beside it |
| Brute-force index (`index/bruteforce.rs`) | id to position map, flat vectors | insert, swap-remove, serial and parallel scan | the buffer and the sealing buffers |
| HNSW index (`index/hnsw.rs`) | layered graph, deleted marks, entry point | insert, search, filtered search, delete, compact, save, load | the segments |
| Quantised HNSW (`index/quant.rs`) | a frozen graph, codes | made from an HNSW, searched | built by the reports only |
| Types, distances (`types.rs`, `distance.rs`) | none | order of results, distances | everything that ranks |
| Data sets, evaluation, reports, benchmarks | none that lives | arithmetic, measurement | - |

What is hard in it: up to five kinds of threads (writer, seal, merge, readers,
and successors that overlap with a thread handing its flag over) interleave at
lock boundaries; readers and the writer walk three sources one after the other
while records move between them; deletes land on objects that are being
rebuilt without a lock; three derived indexes are updated one after the other
while planners read them; flags are released before a last look at the queue;
locks are held two and three at a time and a waiting writer stops new readers; the
log is rotated before the manifest that names it is written; handlers wait for a
task that may wait, fail or die. `PROJECT.json`, "hazards", lists each at its line.

What makes each component correct:

- write path and background threads: callers observe a map. An id has at most
  one live copy wherever its records are moved; nothing deleted comes back;
  nothing live is lost; every answer is true when it is given; the queue is
  bounded, no buffer is left in it, no wait is for ever;
- search: nothing in an answer was dead throughout the search; what was live
  and in place throughout is in the answer;
- filtered search: the derived indexes agree with the records; an answer
  satisfies the filter whatever the planner chose, and misses nothing that
  stayed where it was;
- log, checkpoint, recovery: what was acknowledged survives a crash, what was
  refused does not appear, the manifest never names a missing file;
- server: 200 means durable, every request is answered, no locks wait in a circle;
- brute-force and numeric index: they compute what their plain definitions
  say; HNSW: links are bounded and point at nodes, the entry point is the tallest
  live node, an answer selects live records in order and a filtered search is
  complete, a file restores what was saved.

## 2. Modules

| Module | Models | Uses |
|---|---|---|
| `Store` | the abstract specification of the index: a map from ids to vectors, changed by inserts of absent ids and deletes of present ones | - |
| `Segments` | the write path, the seal threads, the merge threads, the waiting part of `checkpoint` | `Store` (refinement mapping) |
| `Search` | unfiltered search as readers beside all of `Segments` | EXTENDS `Segments` |
| `FilteredSearch` | metadata, posting lists, numeric candidates, the planner and its arms beside the writer and the background threads | EXTENDS `Segments` |
| `DurableStore` | the abstract specification of crashes: contents that writes, replies and crashes move along | - |
| `Durability` | log, batches, checkpoint, manifest, crash and recovery | `DurableStore` (refinement mapping) |
| `Ranking` | order of results and candidates, distance on a line | - |
| `VectorMap` | what the `VectorIndex` trait promises of insert and delete | - |
| `BruteForce` | the linear-scan index | EXTENDS `Ranking`; `VectorMap` (refinement mapping) |
| `Hnsw` | the graph index | EXTENDS `Ranking` |
| `Quantized` | the frozen, quantised copy | EXTENDS `Hnsw` |
| `NumericIndex` | sorted pairs and histogram of one numeric field | - |
| `Indexes` | the four structures driven by the same calls | `BruteForce`, `NumericIndex`, `Quantized` |
| `Locks` | the read-write locks and the order each operation takes them in | - |
| `Server` | handlers, channel, writer task, background threads under the locks | EXTENDS `Locks` |
| `MCSegments`, `MCSearch`, `MCFilteredSearch`, `MCDurability`, `MCIndexes`, `MCServer` | symmetry sets, configurations, request mixes and constraints for TLC | the above |
| `SegmentsProofs` | the inductive invariant, the safety theorems; `Segments` implements `Store`, and answers what it did | EXTENDS `Segments`, TLAPS |
| `SearchProofs` | nothing deleted is answered, nothing settled is missed | EXTENDS `Search`, `SegmentsProofs` |
| `FilteredSearchProofs` | the derived indexes agree with the records; the answers of a filtered search are sound and leave no kept record out | EXTENDS `FilteredSearch`, `SegmentsProofs` |
| `BruteForceProofs` | swap-remove keeps the slots in step and implements the map | EXTENDS `BruteForce`, TLAPS |
| `IndexProofs` | the graph is sound and holds the records, its answers and those of its frozen copy; the histogram, enumerations and estimates | EXTENDS `Indexes`, `BruteForceProofs` |
| `DurabilityProofs` | types, and what is on the disk, whatever fails and wherever a crash falls | EXTENDS `Durability`, TLAPS |
| `RecoveryProofs` | every start succeeds, what was answered survives, `Durability` implements `DurableStore` | EXTENDS `DurabilityProofs` |
| `ServerProofs` | the lock order excludes deadlock; a write answered ok is durable | EXTENDS `Server`, TLAPS |

### Segments

State. A record is `<<id, n>>`, the n-th vector inserted under the id: search
hits and deletes name ids, so a stale copy must be told apart from the live
one. A `Sealing` or `Segment` (an `Arc`) is an object number; `data` and `tombs`
give its records and its tombstone set. Both lists of the code are only pushed
at the end and filtered with `retain`, so a list is the set of its objects and
its order is the order of their numbers; "newest" and "first" are the largest
and the smallest number. `taken` is the local variable `sealed_data` of `seal`,
the one place where live records are in no shared structure.

Steps. Each action is one critical section or one atomic operation:

- the writer: `validate_insert` reads the buffer, the sealing list and the
  segments in three steps; `apply_insert` pushes and decides to seal;
  `contains_live` reads the three sources; `delete_vector_only` tries the buffer,
  then the newest sealing buffer, then the newest segment that contains the id;
  `seal` swaps the buffer (`SealSwap`), pushes it (`SealPush`) and claims the flag
  (`SealSpawn`); `apply_backpressure` is `Stall`; `checkpoint` seals, then polls the
  conditions of `wait_for_background` one load at a time;
- a seal thread: `TakeNext`, `BuildOne` (both write locks: carry tombstones, push,
  retain), the ceiling guard, then `SealRelease`, `SealRecheck`, `SealReclaim`;
- a merge thread: `MergeWhile`, `PickVictims`, one snapshot per victim, `MergeSwap`,
  then the same three flag steps.

A thread that is done and one that was spawned meanwhile overlap, so the names in
`SealThreads` and `MergeThreads` are slots: a slot is free when its thread ended.
With one name, a spawn waits for the old thread's last two steps; with two, it
does not; two suffice, because a thread that released its flag can only claim it
back or end.

The build and the rebuild are lock-free and read only immutable data, so they
have no step of their own; what they read from shared state (the tombstone
snapshots) has. `PickVictims` reads all live counts at once, where the code reads
them one segment at a time: a delete in between may change which pair is picked,
and every theorem of section 5 uses only that the two victims differ. The vector's
dimension check, metadata and the log are left out here: metadata is in
`FilteredSearch`, the log in `Durability`.

### Search

A reader clones `segments` (one critical section), visits each clone under its
tombstone lock, clones `sealing`, visits it, reads the buffer last, deduplicates.
k and ef are taken large enough that every source reports all its live
records: whatever an answer misses, it misses because of the interleaving. Any
copy of an id may survive deduplication, the query being arbitrary. `gone`, `dead`
and `settled` are history variables that the properties compare the
answer with; no action reads them.

### FilteredSearch

State. `metadata` is the store, `postings` and `numeric` the pairs of a fact and an
id in the two kinds of derived index, `fields` the keys that have a numeric index
(it stays when it is empty). `work` is where the writer is in `index_metadata` or
in the clean-up of `apply_delete`; `q` is one search with its local variables.

Steps. `VectorStep` and `BackgroundStep` are the steps of `Segments`, held up where
a lock the search keeps is in their way (`MetadataRead`, `BufferRead`,
`SegmentsRead`). The writer's walk has the code's critical sections in the code's
order: `IndexPostings`, `IndexNumeric`, `IndexMetadata` for an insert,
`RemoveMetadata`, `RemovePostings`, `RemoveNumeric` for a delete, the last two
with the metadata lock still held. The search: `Begin`, the shortcut for a single
Eq (`Shortcut`, three counts, `LenBuffer` decides), `PlanEq`, `PlanRanges`, then
either the walk of the segments, the sealing buffers and the buffer, with the `allow`
closure of the arm, or `scan_candidates` step by step; `Fallback` is the exact scan
after an over-fetch that found fewer than 2k.

A filter's predicates are facts and ranges; the query is arbitrary, so what a
source reports is any set that has K of its matches or all, and the over-fetch
window of the Post arm may leave anything out. The scan limit of `plan` depends on
k, ef and the count, so it is any member of `Limits`.

### Durability

One thread does all of it, the writer, so a step is one call that changes the
disk together with what the writer does in memory before the next such call; a
crash can fall between any two. Sealing and merging are one step each here:
`Segments` has their interleavings, and shows that they lose nothing.

- the log: a file is a sequence of records with two marks, what was flushed to
  the operating system and what was synced. `AppendEntry` moves the marks as the
  policy says; `Commit` ends a batch. A process crash leaves any prefix from the
  first mark on (the `BufWriter` may have spilled), a machine crash any from the
  second, and the next record may be torn;
- `checkpoint`: `StartCheckpoint` (answer the batch, seal, copy the list),
  `WriteSegment` per segment, `WriteMetadata`, `RotateWal`, `WriteManifest`, `GcRemove`
  per file, `GcDone`. `CheckpointFails` is the error return of each of them;
- recovery: `Open` loads what the manifest names and cuts the log after its intact
  prefix, `ReplayOne` applies one record, `FinishReplay` attaches the log.

`DurableStore` keeps the contents that a machine crash may still leave, oldest
first, and how many of them a process crash can undo. A reply has to move both
marks to the end (the first only under `none`). The mapping computes them from the
disk: version `n` is `Restored(n)`, what the manifest's files and the first `n` records
of its log amount to. So the state after every step says what any crash at that
moment would leave, and the run needs no second crash to see it; that memory is
the last version, and that recovery arrives where `Restored` says, is part of the
refinement.

A rename is durable when it returns and files are not reordered: a journalling file
system gives that, the comment at `storage/mod.rs` 60 says Windows may not. A log
that `gc_unreferenced` removed is an empty log, because `replay` and `open_append`
treat a missing file as one.

### The structures: BruteForce, Hnsw, Quantized, NumericIndex

A vector is a point of a line. That keeps what the algorithms depend on, which is
the order of distances and ties among them, and makes distances exact.

- `BruteForce` has `ids`, `data` and `slot_of` as the code; a delete moves the last
  record into the hole and repairs the map. The parallel search scans chunks and
  merges their best k;
- `Hnsw` keeps the whole index in one record. `Explore` is the loop of
  `search_layer` with its budget, admission test and stop condition;
  `SelectNeighbors` the heuristic with its refill; `LinkBothWays` and `ShrinkLinks`
  the mutual links and the pruning; `Inserted` one insert at a drawn level; `Tombstoned`,
  `NewEntry`, `Compacted` the delete. The random level of an insert (and of each
  re-insert of a compaction) is any level up to `MaxLevel`. `Body`, `Accepted` and
  `Rebuilt` are saving, the checks of loading, and what loading restores;
- `Quantized` keeps decoded values as exact fractions, multiplied out;
- `NumericIndex` counts in fixed point, `Unit` to 1.0, with the key of -0.0 just below
  that of 0.0; widening rebuilds the histogram from the sorted pairs.

`Indexes` sends every insert and delete to all of them, so that the linear-scan
index is the reference for the others, as it is in the repository's own tests.

### Locks and Server

`Locks` gives every operation its sequence of lock steps: touch, hold, release. A
reader waits while a writer holds the lock or waits for it, which is what
`std::sync::RwLock` does on a futex; a lock under which no other is taken is left
out, since it is always released.

`Server` puts the operations on threads. A handler sends its command over the
bounded channel and waits for the reply, or searches on a thread of its own; the
writer task receives a batch, applies each command under its locks, and ends the
batch with one commit (`Commit`); a checkpoint in the batch commits and answers
what is pending first (`CheckpointCommit`), waits for the background work and writes
the files. Failures of an append, a commit or a checkpoint, a panic between
operations, hang-ups and ctrl-c are actions of their own. What is in the index is
reduced to which clients' writes are `applied` and `durable`.

### How they fit together

`Segments` is the core: `Search` and `FilteredSearch` add readers to it and change
none of its actions. `Durability` treats a seal or a merge as one step, which
`Implements` (section 5) justifies: to an observer they are no step at all. `Server`
treats an operation as a lock program with an outcome; what the outcomes mean is in
the other two. The buffer and the segments are sets of records in `Segments`; that
the structures behind them are such sets is `ImplementsMap` and `HnswAgrees`, both proved.

## 3. Runs

Ids are symmetric, and so are thread names (safety only). `MaxObjects` and
`InsertsPerId` bound the behaviours: an id is inserted at most `InsertsPerId` times
and `MaxObjects` is above what those inserts can allocate (each buffer sealed is
one object, each build one, each merge one), so it never cuts a behaviour short.
`SealThreshold` 1 makes every insert a seal; `MaxSegments` 2 is the least the code
allows and makes the third segment trigger a merge.

| Run | Shows | Bounds, and why they are enough |
|---|---|---|
| `seg_core` | types, at most one live copy, tombstones within data, the merge `expect`, one worker of each kind, a checkpoint sees all live data, a bounded queue, true answers, and refinement of `Store` | 2 ids, 3 inserts in all and any number of deletes and checkpoints, 2 slots per kind of thread: the third segment triggers a merge of live, dead or mixed segments, deletes fall at every point of it, and the hand-overs of both flags overlap |
| `seg_live` | the queue drains, the ceiling is restored, the writer returns | 1 id inserted 4 times, deletes and checkpoints between: the fourth segment can arrive while the merge thread that made room for the third hands its flag over |
| `search` | no resurrection, settled records are found | 2 ids, 3 inserts in all: a search over a list that a merge replaces, and three versions of one id in the three sources |
| `filtered` | derived indexes agree, answers are sound, what stays is found | 2 ids, 3 inserts in all with two different metadata, filters of one Eq, one range and one of each, K = 1, limits 0 and 1: every arm, the shortcut, the fallback and the early empty answers occur. Merges are left to `search` (no merge thread here): they replace the segment list like a build does |
| `durability` | answered writes survive what the policy promises, recovery gives a content the store had (refinement of `DurableStore`), with its metadata, and never refuses to start | `none` and `group` with a buffer of 2, `per_op` with a buffer of 1 so that merges happen; 2 ids, 3 inserts, logs of up to 5 records, 2 generations; one interruption: a crash anywhere, or a checkpoint step that fails before or after the manifest |
| `dur_faults` | the manifest is complete, stored segments are on disk | any two crashes, or one of each kind of I/O error with a crash: an unfinished checkpoint, a start that takes the generation back, and a checkpoint that meets the old names |
| `structures` | the linear-scan index implements the map and searches exactly, serially and in chunks; the graph is well formed, its entry point the tallest live node, its records those of the linear scan, its searches sound and its filtered search complete; a saved index is restored; the quantised twin answers what the graph does where codes are exact; the histogram brackets | 4 ids at up to 4 points of which two coincide, links of at most 2, 2 levels, every drawn level, compaction at half: prunings, ties, entry-point changes, compactions and an all-dead graph occur. The limit is that of the base layer and of those above: a larger one would never prune the base layer of 4 nodes; that each layer keeps its own is proved (`GraphStaysWellFormed`). At most one of 4 slots is a tombstone, so a cluster of tombstones does not occur; numeric fields -0.0, 0.0 and 1.0 with end points at, between and outside them. `MaxSlots` 4 bounds the slots between compactions |
| `server` | 200 means durable, no circle of waiting threads, every request is answered | 3 clients in three mixes of requests, a channel and batches of 2, so that both fill, a queue limit of 0, one failure or panic, one client that hangs up, a stop at any time |
| `seg_lost_delete` | finding 1 | the queue limit of the code, 2, and the valve: two deletes must meet two buffers in flight |
| `dur_rotation`, `dur_retry` | findings 2, 3 | one fault, one crash |
| `server_deadlock` | finding 4 | 2 inserts, a scan and a count |

Deadlock checking is on except in the two runs of `Server`, whose clients send one
request each, so that the system may really come to rest: no thread waits for a
condition that nobody will bring about, and a start never finds a file missing.
`AnswersHoldInOrder` says exactly when a delete's answer can be wrong: only if a
merge has put an old copy of the id behind a newer one (finding 1).

What the answers of a filtered search may be held to, by `AnswersSound`: never a
record deleted before the search began; under the Post and Legacy arms and a scan
for several predicates, only versions that match. A scan for a single predicate
takes its candidates' word for it, so it may answer an id that matched when the plan
was made, and the shortcut does not filter at all; the property states this weaker
promise for them.

`leaked` in `OkMeansDurable` names the one exception to "200 means durable" within
the server: `server.rs` 308 drops the result of the commit that precedes a
checkpoint. The writes are answered Ok; if the checkpoint then succeeds they are
durable after all. That a failed one loses them is visible in `Durability`
(fault `commit`).

### Fairness

`FairSpec` of `Segments` asks weak fairness of the writer's steps (it finishes the
request it began; clients need not send any), of each seal thread and of each merge
thread: the operating system runs a thread that is ready. None of them waits for
strong fairness: a polling writer changes no flag, and `SegmentsReadLocked` ends
when the merge thread takes its next step. `seg_live` keeps the safety
valve shut, so that it holds by the threads' progress and not by the 60 s timeout.
`Server` asks weak fairness of every handler that has begun, of the writer task and
of the two background threads, and none of arrivals, hang-ups, failures or ctrl-c.

## 4. Findings

1. `seg_lost_delete`: a delete can answer NotFound and leave its id live, because a
   merge reorders the segment list (`segmented.rs` 461 against 1360-1370).
2. `dur_rotation`: when the manifest cannot be written after the log was rotated,
   writes are acknowledged into a log that no recovery reads (1566, 1587).
3. `dur_retry`: an insert that failed in its sync and is retried is in the log
   twice, and the next start fails (`wal.rs` 173, `segmented.rs` 1762).
4. `server_deadlock`: a scan takes the buffer before the segment list (776) and a
   count the other way round (1433, 1446), against the documented lock order; with the
   seal thread and an insert waiting for the two locks, four threads wait in a circle.

Each quotes the comment it disagrees with in `PROJECT.json`. Noticed, without a run
of its own:

- between the buffer swap (1034) and the push (1047) the records of the buffer are in
  no source, and a search reads the sources in the direction records move away from
  (1388-1421): a live record can be missed. `SettledFound` and `KeptFound` therefore
  speak of records that stay in place;
- two live versions of an id can be seen by one search, in different sources, and the
  nearer one is kept (1422-1427);
- `wait_for_background` can return while a merge is about to go on (the thread clears
  its flag at 237 before it looks again at 240), which loses nothing
  (`CheckpointSeesAll`);
- segment files are "never overwritten" (`storage/mod.rs` 6) except by a checkpoint that
  follows an unfinished one and a restart, which is harmless (`StoredIsOnDisk`);
- a torn record in mid-log and a failed commit before a checkpoint also cost
  acknowledged writes (faults `append` and `commit` of `Durability`);
- an unfiltered HNSW search for more records than there are does not always return all of
  them, as the trait promises (`index/mod.rs` 46). The neighbours of a node that was just
  inserted can prune it from their full lists at once (`hnsw.rs` 379); then nothing points
  at it, and it is found only if it is the entry point. With limits of 2 links and 4
  on the base layer five equal vectors and one other lose the other one; with the default
  limits it is by the same steps 33 and one. The segments search such graphs too;
- such a search can even return nothing although records are live, which breaks the same
  promise. The descent goes to the nearest node of a layer, dead or alive (403-405), and
  only the base layer leaves tombstones out (413): where the descent ends in a cluster of
  tombstones that no link leaves, nothing is left to return. With the same limits and
  two layers: insert five equal vectors, the last of them on both layers, then six others,
  equal too, the last of them on both. On the base layer the six link to the five and are
  not linked back. Delete the five, 5 of 11 being below a threshold of half, and search near them.
  With the default parameters it takes about 33 equal vectors, deleted while they are
  less than 30 % of the index. The index of a segment is only inserted into and has no
  tombstones of its own; a filtered search falls back on its scan; the frozen copy descends from
  live node to live node only, and always answers. `HnswSearchSound` therefore promises
  an answer that selects live records in order, and one that is not empty while any are there only
  if there is no tombstone or no layer to descend from the entry point;
- a range whose bounds are inverted makes `BTreeMap::range` panic, and -0.0 and 0.0 are
  different keys: a range that ends at 0.0 from below counts both, one that ends at
  -0.0 only the first;
- `shape` takes two read locks in one expression, so both guards live to its end.

## 5. Proofs

TLAPS checks the following for every value of the constants that satisfies the named
assumptions (`IdsAssumption`, `BoundsAssumption`, `FilterAssumption`,
`RankingAssumption`, `BruteForceAssumption`, `HnswAssumption`, `QuantizedAssumption`, `NumericAssumption`, `IndexesAssumption`,
`DurabilityAssumption`, `ServerAssumption`): any set of ids
(a finite one for filtered search: an id is a `u64`), any threshold, ceiling and limit,
any number of threads, any metadata, any policy and set of faults, any number of
crashes, any clients and mixes of requests.

- `Invariant`: `Spec => []IInv` for `Segments`, with `TypeCorrect`, `OneLive`,
  `TombstonesCounted`, `MergeInsertSucceeds` and `OneWorkerEach` as consequences;
- `CheckpointComplete` and `QueueLimited`, by two invariants of their own beside `IInv`
  (`CheckpointKnows`: what the waiting checkpoint has established at each poll;
  `QueueKnows`: how long the queue can be at each step of the writer);
- `Implements`: `Spec => ImplementsStore`, and `AnswersInOrder`: `Spec => AnswersHoldInOrder`;
- `NoneResurrected` and `SettledAnswered`: `SearchSpec => []NoResurrection` and
  `SearchSpec => []SettledFound`, for any number of searches at a time;
- `IndexesAgree`, `AnswersAreSound` and `KeptAreFound`: `FilteredSpec =>` always
  `DerivedIndexesAgree`, `AnswersSound` and `KeptFound`;
- `InStep`, `MapImplemented` and `SearchesAreExact`: the linear-scan index keeps its
  three structures in step, implements the map of `VectorMap` and searches exactly
  (`BFSpec => []SearchExact`), through histories of any length, on any number of threads;
- `HistogramStaysExact`, `EnumerationsAreExact` and `EstimatesBracket`: `Spec` of `Indexes` `=>` always
  `HistogramExact`, `EnumerateExact` and `EstimateBrackets`, for any number of buckets and any ranges;
- `GraphHoldsRecords`, `EntryStaysTallest`, `SavedIsRestored` and `FilteredIsComplete`: the same for `HnswAgrees`,
  `EntryTallest`, `LoadRestores` and `FilteredComplete`, for any link limits, widths, layers, drawn levels and
  compaction threshold. `GraphStaysWellFormed`: `GraphWellFormed`, if `M <= MMax0`: an insert gives the new node
  up to `M` links per layer and prunes only its neighbours' lists. The defaults are 16 and 32 (`hnsw.rs` 60-70) and
  the field's comment suggests 2M (47), but the fields are public and nothing checks other values;
- `AnswersAreSelections`: an unfiltered answer of the graph is, for every k and ef, a selection of the
  records in order, and empty only if k is 0 or there is no record, unless the descent can end on a tombstone
  (section 4); so `HnswSearchSound`. `FrozenAnswersAreLive`: the
  same of the quantised copy with its coded distances, with tombstones too;
- `TypeCorrect`, `ManifestIsComplete` and `StoredStaysOnDisk` of `Durability`, without a
  condition: whatever calls fail and wherever crashes fall;
- `EveryStartSucceeds` and `MetadataIsComplete`, if neither an append to the log nor the
  write of a manifest fails (`LogReliable`); `AnswersOutliveCrashes` and
  `ServerIsDurableStore` (`Spec => ImplementsDurableStore`), if no commit fails either
  (`WritesReliable`). Crashes, torn records and failures of every other step of a
  checkpoint are covered. The conditions are needed: `dur_retry` breaks the first with a
  failed append, `dur_rotation` the second with a failed manifest, and a failed commit
  before a checkpoint loses the writes it answers (section 4);
- `LocksInOrder`: no circle of waiting threads, if no client asks for a scan (`NoScan`;
  `server_deadlock` shows why), and `RepliesAreDurable`: `Spec => []OkMeansDurable`.

`IInv` is inductive; none of the checked invariants is on its own. Its parts:

- `LiveUnique`: any two live records of an id are the same record in the same
  place (one listed object, or the writer's hands). This is `AtMostOneLive` in
  the form the steps use;
- `WriterKnows`: what the writer has established at each program counter. While it
  validates an insert, "not live in the sources read so far" stays true only
  because background threads move live records from sealing to segments and
  never back; this is where the order of the three reads matters;
- `FlagsOwned`: an active thread implies its flag is set, and is the only one;
- `BuildsListed`, `VictimsListed`: nobody else removes what a thread works on, so
  the "swap cancelled" branch of the merge is never taken;
- `SnapshotsSound`: a snapshot is part of its victim's tombstones, and no id that
  it leaves to be copied is live in, or copied from, the other victim. It holds
  although the snapshots are taken at different moments, because an id live in
  one victim is not live in the other and is not inserted into either again.

The refinement. Exactly three steps move records (`SealPush`, `BuildOne`, `MergeSwap`;
lemmas `SealPushMoves`, `BuildOneMoves`, `MergeSwapMoves`) and each publishes an
object with the same live records; `MergeLive` is the correctness of diff-replay.
`ContentSteps` sums it up: a step inserts one record of an absent id, removes the one
record of an id, or is invisible.

Answers. `AnswerInv` adds to `IInv` what old, dead copies of an id can look like. The live
one has the number of the last insert; no record is listed twice in the segments; a copy
in a queued buffer is newer than the copies in older buffers and in all segments, and one in
the writer's hands newer than all of them (`CopiesOrdered`). It is preserved because the
queue is drained from its old end (`BuildsOldest`, which needs the single worker). So a
delete that hides the newest copy of the queue has hidden the live one, if there is any.
Among segments the order is lost by a merge, and `CopiesInOrder(wid)` is exactly what the
last source of a delete then needs. The other three parts say what a request has found so
far, an insert its record, a delete in which sources the id is not.

Searches. `SearchInv` adds to `IInv` that a deleted record never comes back (`GoneForGood`:
inserts number their records) and two facts about every search under way. What it has
collected, and what its cloned objects would still yield, contains nothing that was dead
at its start (`NothingDead`): an object that is no longer listed keeps its tombstones
and takes no new ones, but it was listed, and so told the truth, after the search
began. And a settled record is collected or still to be collected, and is the only
version of its id there (`SettledKept`), so that deduplication cannot drop it. The lemma
behind both is `ObjectsKept`: an allocated object loses a live record only in the step
that deletes it.

The derived indexes. `DerivedIndexesAgree` is not inductive: in the middle of a walk
it says little. `WalkInv` says for every id what the live record, the posting lists,
the numeric fields and the store have of it: the same facts (`Settled`), but for the
id the writer is at, where `Walked` gives, per step of the walk, which of the four
are already, or still, there. A vector step opens a walk (`VectorStepKeeps`, by
`ContentSteps`: an insert finds no facts of its id anywhere because it was not live),
a background step opens none because it is invisible (`BackgroundStepKeeps`), and
each of the six steps of the walk takes `Walked` to its next line
(`MetadataStepKeeps`). `DeleteRequested` is needed beside it: only the delete request
reaches the steps that remove a vector, so no removal goes without its clean-up.

Filtered answers. `SoundInv` adds to `DerivedInv` and `AnswerInv` what a search may rely on
before its last step. The store has, of a live record, facts of that version only (`TrueOf`):
nothing between an insert and its `IndexMetadata`, and what is left during a delete are facts
of the version that is dying (`DeleteUnderWay`). While the search holds the metadata lock this
stays so for every record left in its cloned objects, which only lose records
(`StoreLocked`), so a match by the store is a match by the version. The shortcut and the
estimates hold no lock, but collect nothing (`QueryTyped`). A scan for one predicate
trusts the index; an index entry belongs to a live or a dying version, and no search
counts a dying one as retired (`Matched`, `CandidatesMatched`). That nothing dead is answered
follows as for `SearchInv`. `Planned`, `Collected` and `Scanned` are the three kinds of search
step, to which each of the eighteen is reduced. `FilterAssumption` says that a
filter has finitely many predicates, as a `Vec` has, and that ids are finitely many.

Complete answers. `KeptInv` follows every kept record to the end of the search. It is live, in
one place, its id is not at the writer's hands (`KeptKnown`), and by `WalkInv` all three
indexes have all of its facts, so every posting list and range the planner looks at has its id
(`KeptIndexed`): an answer of nothing means that nothing was kept. From then on the candidates
have it (`KeptCandidates`). A walk has collected it or has its source ahead, because a kept record
does not leave its source; an exact source that leaves it out reports K others, and the post arm's window falls back on the candidates unless it has
2K hits (`KeptAhead`, `Reported`). A scan passes over an id once it has met a copy, so
the first copy it meets has to be the live one: of the copies in the buffer, the sealing list
and the segment list cloned before it the newest is the record itself (`NewestCopy`, by
`CopiesOrdered` and, among segments, by `CopiesInOrder`, which a kept record's id satisfies).
One version per id (`OneVersion`) makes K hits K ids, and keeps deduplication off the record.
The lemmas `CountingShape`, `PlanShape`, `WalkShape` and `ScanShape` say once, for both
invariants, what each step makes of the query.

Swap-remove. `SlotsInStep` says that `slot_of` is the inverse of `ids`. The proof of a
delete distinguishes the last slot from the others and follows the record that is
moved; the refinement maps the structure to the function from ids to vectors.

Exact scans. The scan and the merge are folds, so the proofs go by induction over slots and
over what is left of the right heap (`AllNaturals`: a set that holds 0 and every successor
holds every natural, which the provers can use where the library's induction theorems, with
their operator parameter, cannot be). `IsTop` says of a heap that it is the k
best of a set of candidates; an offer keeps it (`OfferKeepsTop`), and the heaps of two
neighbouring chunks hold the k best of both (`SelectionsSuffice`, `MergedIsTop`), so that
after every chunk the merged heap is the k best of all slots before it (`SearchIsTop`).

Folds. The loops over neighbours, layers, slots and buckets are folds of the community modules,
which choose an element of a set, fold the rest and apply the operator. Their induction is once and for all `FoldStays`:
if `W[s]` says what the value may be once the elements of `s` are folded, and a step takes `W` of the rest
to `W[s]`, then the fold is in `W` of all. It needs a function that satisfies the fold's equation, which is put
together subset by subset (the library's theorems have operator parameters). Each loop of the code is then one `W`.

Numbers. `NumericInv`: the sorted map holds the field of every record, and the histogram counts
it. A recount counts one pair more where the pair's value falls (`RecountedMore`), an insert inside
the range does the same, and a removal the reverse. The lower estimate counts the buckets strictly between those of
the ends, and since a value's bucket grows with the value (`BucketsInOrder`), what lies in them is in the range,
and what is in the range lies in them or in the two at the ends.

The graph. `HnswInv` says that the graph is `Sound` and that its records are those of the linear-scan index. `Sound`
is `Net` (every list names other nodes of its own layer, none twice), `Indexed` (`slot_of` is the inverse of
`ids` on the live slots, and the tombstones are counted), `TallEntry`, and the bounds of the lists if `M <= MMax0`. None
of the properties is inductive by itself: a search follows links, so that it stays in the layer it is asked for, and
ends where it can be continued one layer down, only by `Net`, and the descent may start at the
entry point only because that is the tallest node. A layer search (`Met`) keeps candidates and
results among the nodes visited, and nodes visited and not yet expanded are counted down by each turn, so that as many
turns as there are slots are enough. The chosen neighbours are candidates, none twice and at most `M`; a new
node that is in no list yet cannot get into one twice, and a pruned list is part of the list it replaces. While a node is being
linked, the layers still to come do not name it (`Building`). A compaction is a fold of inserts
into an empty index (`CompactedSound`), so it needs nothing else. From `HnswInv` the answers follow without a further step of
the system: what a base-layer search returns is admissible, the selection and the fallback are sorted sets.

The frozen copy. Its layer search may cross tombstones but never returns one. The entry point is live, and
a search that starts at a live node has a result from the first moment on, so that the descent goes from live
node to live node and the base layer finds something whatever the links are.

The disk. `DiskInv` adds to the types (the marks of a log in order and within it, positions
within the list a checkpoint goes through) that a checkpoint writes under names nobody has
yet (`NamesUsed`: of its generation, and above its position), that what is on its way into
the manifest is never collected (`Progress`: the collector keeps what the clone has stored),
and that the manifest's generation is below the one being written. Then every name in the
manifest is a file (`ManifestNames`) and what a segment believes stored is (`ListedOnDisk`),
also when a start takes the generation back and the next checkpoint meets the old names.

Recovery. `RInv` says what a start would find at every moment. The log the manifest names is
the one appended to, but between the rotation and the manifest, and all later logs are empty
(`LogsNamed`); every record of it could be applied to what the ones before it gave
(`LogFits`); applied in full they give what callers see (`Recoverable`), in the middle of a
replay what has been restored so far; the segments and the metadata file of the manifest are
of one moment (`ManifestFits`). `OneLive` orders copies as `CopiesOrdered` does: no newer
segment has the id of a live record, so that the tombstone of a replayed delete lands on it.
Each step of a checkpoint then leaves `Restored` as it was, and the manifest swap exchanges
one description of the contents for another.

The refinement of `DurableStore` maps its history to the versions `Restored(n)` of the log,
from the synced mark on (`Versions`), and its second mark to the flushed one
(`KeptVersion`). `HistoryInv` gives the marks their meaning: between batches everything is
flushed, and synced unless the policy is `none`. An append is a write, a commit an answer; a
checkpoint's manifest makes its contents the only version, a crash keeps a prefix the two
marks allow, and all the rest is invisible.

The locks. `metadata`, then `segments`, then `sealing` or `buffer` under it is an order in which
every program but a scan takes them. `Ordered` says that a program releases what it holds and
takes only locks above those it still holds; it is proved of each program of `Locks`
(`Legal`) and kept by each step. In a circle of waiting threads, the one that waits for a lock of
the highest rank waits for a thread that holds it, and that one waits for a still higher one.

Replies. `ReplyInv`: results of the batch that say ok are applied, what was answered ok is durable
or leaked, and after a stop without a failure all that is applied is durable.

`IInv`, `AnswerInv`, `SoundInv`, `KeptInv`, `DiskInv`, `RInv`, `HInv`, `LocksInv` and `ReplyInv` were checked by TLC on
constants like those of the runs before they were proved; the theorems state properties that
the runs check.

Only model-checked: liveness (out of the prover's reach under fairness), and that the frozen copy answers what the
graph does (a half of `QuantizedTwin`): it is so where the codes lose nothing, which is a matter of the points and
of `CodeMax`, as the run chooses them.

## 6. Not modelled

Left out:

- `bin/report.rs`, `eval.rs`, `dataset.rs`, the benchmarks and the fuzz target: they
  measure the index and read files, and keep no state between calls. `report.rs` alone
  is a quarter of the implementation's lines, which bounds what the modules cover;
- distance kernels other than squared L2 on a line (inner product, normalisation, SIMD):
  floating-point arithmetic without control of its own;
- byte layouts, checksums and JSON: a file or a record is intact or it is not, and CRC
  is taken to tell which;
- `sync_if_due` of the log, which nothing outside its tests calls, and the setters that
  measurements use at run time (`set_seal_threshold`, `set_max_segments`,
  `set_wal_policy`): the parameters are constants;
- the 60 s safety valve of `apply_backpressure` in the liveness runs, NaN in numeric
  fields, HTTP routing and the shape of answers.

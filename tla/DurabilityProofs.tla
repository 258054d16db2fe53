-------------------------- MODULE DurabilityProofs --------------------------
(***************************************************************************)
(* What is proved of Durability for every set of ids, every policy,        *)
(* threshold and bound, whatever call fails and wherever a crash falls:    *)
(* the types, and that the disk is always one that the server can start    *)
(* from.                                                                   *)
(***************************************************************************)
EXTENDS Durability, SequenceTheorems, WellFoundedInduction, TLAPS

-----------------------------------------------------------------------------
(* The inductive invariant, first the types. *)

SegmentType == [data : SUBSET Record, dead : SUBSET Ids, stored : FileName]
RefType == [file : FileName, dead : SUBSET Ids]
LogType == [recs : Seq(Entry \cup {Torn}), flushed : Nat, synced : Nat]
ManifestType ==
    [generation : Generations, refs : Seq(RefType), meta : FileName, wal : Generations]
PC == {"serving", "segments", "rotate", "manifest", "gc", "down", "replay", "refused"}

MemoryTyped ==
    /\ config \in Configurations
    /\ buffer \in SUBSET Record /\ meta \in SUBSET Record
    /\ heap \in Seq(SegmentType)
    /\ segments \in Seq(DOMAIN heap) /\ clone \in Seq(DOMAIN heap)
WriterTyped ==
    /\ generation \in Generations /\ active \in Generations
    /\ dirty \in BOOLEAN
    /\ pending \in 0 .. MaxBatch
    /\ pc \in PC
    /\ position \in Nat
    /\ inserted \in [Ids -> 0 .. InsertsPerId]
    /\ crashes \in Nat /\ faults \in Nat
    /\ pc = "down" => clone = <<>>
    /\ pc \in {"segments", "replay"} => position # 0
MarksInOrder(log) == log.synced <= log.flushed /\ log.flushed <= Len(log.recs)
LogsTyped ==
    /\ logs \in [Generations -> LogType]
    /\ \A g \in Generations : MarksInOrder(logs[g])
FilesTyped ==
    /\ DOMAIN files \subseteq FileName
    /\ \A f \in DOMAIN files : files[f] \in SUBSET Record
    /\ manifest \in ManifestType
    /\ pc = "replay" => \A i \in 1 .. Len(Log.recs) : Log.recs[i] # Torn
Typed == MemoryTyped /\ WriterTyped /\ LogsTyped /\ FilesTyped

(* The files.  A checkpoint writes under names nobody has yet, and what is *)
(* on its way into the manifest is never collected.                        *)
Working == pc \in {"segments", "rotate", "manifest", "gc"}

OnDisk(s) ==
    heap[s].stored # NoFile =>
        heap[s].stored \in DOMAIN files /\ files[heap[s].stored] = heap[s].data
ListedOnDisk ==
    /\ \A i \in DOMAIN segments : OnDisk(segments[i])
    /\ \A i \in DOMAIN clone : OnDisk(clone[i])

NamesUsed ==
    \A s \in DOMAIN heap : heap[s].stored # NoFile =>
        /\ heap[s].stored[1] <= generation
        /\ heap[s].stored[2] # 0
        /\ pc = "segments" /\ heap[s].stored[1] = generation => heap[s].stored[2] < position
ManifestNames ==
    /\ \A i \in DOMAIN manifest.refs :
           LET f == manifest.refs[i].file
           IN  f \in DOMAIN files /\ f[1] <= manifest.generation /\ f[2] # 0
    /\ manifest.meta # NoFile =>
           manifest.meta \in DOMAIN files /\ manifest.meta[1] <= manifest.generation
    /\ pc # "down" => manifest.generation <= generation
    /\ pc \in {"segments", "rotate", "manifest"} => manifest.generation < generation

Progress ==
    /\ ~Working => clone = <<>>
    /\ pc = "segments" =>
           /\ position \in 1 .. Len(clone) + 1
           /\ \A i \in 1 .. position - 1 : heap[clone[i]].stored # NoFile
    /\ pc \in {"rotate", "manifest", "gc"} =>
           \A i \in DOMAIN clone : heap[clone[i]].stored # NoFile
    /\ pc \in {"rotate", "manifest"} /\ meta # {} =>
           MetaFile(generation) \in DOMAIN files /\ files[MetaFile(generation)] = meta
    /\ pc = "gc" =>
           \A i \in DOMAIN clone : \E j \in DOMAIN manifest.refs :
               manifest.refs[j].file = heap[clone[i]].stored
    /\ Working =>
           \A i \in DOMAIN segments : heap[segments[i]].stored # NoFile =>
               \E j \in DOMAIN clone : clone[j] = segments[i]

FilesInv == ListedOnDisk /\ NamesUsed /\ ManifestNames /\ Progress
DiskInv == Typed /\ FilesInv

-----------------------------------------------------------------------------
USE DEF vars, config, memory, walVars, ckptVars, disk, bounds

(* Sequences and logs. *)

LEMMA Smallest ==
  ASSUME NEW S, S \subseteq Nat, S # {}
  PROVE  \E n \in S : \A m \in S : n <= m
  <1>1. PICK R : R = OpToRel(<, Nat)
    OBVIOUS
  <1>2. IsWellFoundedOn(R, Nat)
    BY <1>1, NatLessThanWellFounded
  <1>3. \A x, y \in Nat : x < y => <<x, y>> \in R
    BY <1>1 DEF OpToRel
  <1>4. PICK x \in S : \A y \in S : ~ (<<y, x>> \in R)
    BY <1>2, WFMin
  <1>5. \A y \in S : ~ (y < x)
    BY <1>3, <1>4
  <1> QED
    BY <1>4, <1>5

(* A log has an intact prefix. *)
LEMMA IntactPrefix ==
  ASSUME NEW S, NEW recs \in Seq(S)
  PROVE  /\ Intact(recs) \in 0 .. Len(recs)
         /\ \A i \in 1 .. Intact(recs) : recs[i] # Torn
         /\ Intact(recs) < Len(recs) => recs[Intact(recs) + 1] = Torn
  <1>1. \E n \in 0 .. Len(recs) : /\ \A i \in 1 .. n : recs[i] # Torn
                                  /\ n < Len(recs) => recs[n + 1] = Torn
    <2>1. PICK broken : broken = { n \in 0 .. Len(recs) - 1 : recs[n + 1] = Torn }
      OBVIOUS
    <2>2. CASE broken = {}
      <3>1. ASSUME NEW i \in 1 .. Len(recs) PROVE recs[i] # Torn
        <4>1. i - 1 \in 0 .. Len(recs) - 1 /\ (i - 1) + 1 = i
          OBVIOUS
        <4> QED
          BY <2>1, <2>2, <4>1
      <3> QED
        BY <3>1
    <2>3. CASE broken # {}
      <3>1. broken \subseteq Nat
        BY <2>1
      <3>2. PICK n \in broken : \A m \in broken : n <= m
        BY <2>3, <3>1, Smallest
      <3>3. n \in 0 .. Len(recs) - 1 /\ recs[n + 1] = Torn
        BY <2>1
      <3>4. ASSUME NEW i \in 1 .. n PROVE recs[i] # Torn
        <4>1. i - 1 \in 0 .. Len(recs) - 1 /\ (i - 1) + 1 = i /\ ~ (n <= i - 1)
          BY <3>3
        <4> QED
          BY <2>1, <3>2, <4>1
      <3> QED
        BY <3>3, <3>4
    <2> QED
      BY <2>2, <2>3
  <1> QED
    BY <1>1 DEF Intact

(* Removing two different places of a list keeps the order of the others. *)
LEMMA Removed ==
  ASSUME NEW S, NEW s \in Seq(S), NEW i \in 1 .. Len(s)
  PROVE  /\ RemoveAt(s, i) \in Seq(S)
         /\ Len(RemoveAt(s, i)) = Len(s) - 1
         /\ \A k \in 1 .. Len(s) - 1 : RemoveAt(s, i)[k] = s[IF k < i THEN k ELSE k + 1]
  <1>0. PICK left, right : left = SubSeq(s, 1, i - 1) /\ right = SubSeq(s, i + 1, Len(s))
    OBVIOUS
  <1>1. left \in Seq(S) /\ Len(left) = i - 1 /\ \A k \in 1 .. i - 1 : left[k] = s[k]
    BY <1>0
  <1>2. /\ right \in Seq(S) /\ Len(right) = Len(s) - i
        /\ \A k \in 1 .. Len(s) - i : right[k] = s[k + i]
    BY <1>0
  <1>3. /\ left \o right \in Seq(S) /\ Len(left \o right) = Len(s) - 1
        /\ \A k \in 1 .. Len(s) - 1 :
              (left \o right)[k] = IF k <= i - 1 THEN left[k] ELSE right[k - (i - 1)]
    <2>1. Len(left) + Len(right) = Len(s) - 1
      BY <1>1, <1>2
    <2>2. /\ left \o right \in Seq(S) /\ Len(left \o right) = Len(left) + Len(right)
          /\ \A k \in 1 .. Len(left) + Len(right) :
                (left \o right)[k] = IF k <= Len(left) THEN left[k] ELSE right[k - Len(left)]
      BY <1>1, <1>2, ConcatProperties, Zenon
    <2> QED
      BY <1>1, <2>1, <2>2
  <1>4. ASSUME NEW k \in 1 .. Len(s) - 1
        PROVE  (left \o right)[k] = s[IF k < i THEN k ELSE k + 1]
    <2>1. CASE k < i
      BY <1>1, <1>3, <2>1
    <2>2. CASE ~(k < i)
      <3>1. k - (i - 1) \in 1 .. Len(s) - i /\ k - (i - 1) + i = k + 1 /\ ~(k <= i - 1)
        BY <2>2
      <3> QED
        BY <1>2, <1>3, <2>2, <3>1
    <2> QED
      BY <2>1, <2>2
  <1>5. RemoveAt(s, i) = left \o right
    BY <1>0 DEF RemoveAt
  <1> QED
    BY <1>3, <1>4, <1>5

-----------------------------------------------------------------------------
(* The types. *)

LEMMA Constants ==
  /\ MaxGeneration \in Nat /\ MaxBatch \in Nat /\ InsertsPerId \in Nat
  /\ 0 \in Generations /\ NoFile \in FileName
  /\ \A g \in Generations : MetaFile(g) \in FileName
  BY DurabilityAssumption DEF Generations, NoFile, FileName, MetaFile

LEMMA Entries ==
  /\ \A r \in Record : InsertEntry(r) \in Entry
  /\ \A id \in Ids : DeleteEntry(id) \in Entry
  /\ \A e \in Entry : /\ e # Torn
                     /\ \/ e.op = "insert" /\ e.rec \in Record
                        \/ e.op = "delete" /\ e.rec[1] \in Ids
  <1>1. ASSUME NEW r \in Record
        PROVE  InsertEntry(r).op = "insert" /\ InsertEntry(r).rec = r
    BY DEF InsertEntry
  <1>2. ASSUME NEW id \in Ids
        PROVE  DeleteEntry(id).op = "delete" /\ DeleteEntry(id).rec[1] = id
    BY DEF DeleteEntry
  <1>3. Torn.op = "torn"
    BY DEF Torn
  <1> QED
    BY <1>1, <1>2, <1>3 DEF Entry

LEMMA InitTyped == Init => Typed
  <1> SUFFICES ASSUME Init PROVE Typed
    OBVIOUS
  <1> USE Constants DEF Init
  <1>1. MemoryTyped
    BY DurabilityAssumption DEF MemoryTyped
  <1>2. WriterTyped
    BY DEF WriterTyped, PC
  <1>3. LogsTyped
    BY DEF LogsTyped, LogType, EmptyLog, MarksInOrder
  <1>4. FilesTyped
    BY DEF FilesTyped, NoManifest, ManifestType
  <1> QED
    BY <1>1, <1>2, <1>3, <1>4 DEF Typed

(* A new object at the end of the heap. *)
LEMMA Grown ==
  ASSUME heap \in Seq(SegmentType), NEW object \in SegmentType, heap' = Append(heap, object)
  PROVE  /\ heap' \in Seq(SegmentType)
         /\ Len(heap) \in Nat /\ DOMAIN heap = 1 .. Len(heap)
         /\ DOMAIN heap' = 1 .. Len(heap) + 1
         /\ DOMAIN heap \subseteq DOMAIN heap'
         /\ \A s \in DOMAIN heap : heap'[s] = heap[s]
         /\ heap'[Len(heap) + 1] = object
  OBVIOUS

LEMMA NewTyped ==
  ASSUME NEW records \in SUBSET Record
  PROVE  NewSegment(records) \in SegmentType
  BY Constants DEF NewSegment, SegmentType

LEMMA LiveTyped ==
  ASSUME MemoryTyped, NEW i \in DOMAIN segments
  PROVE  /\ segments[i] \in DOMAIN heap /\ heap[segments[i]] \in SegmentType
         /\ Live(heap[segments[i]]) \subseteq Record
  <1>1. segments[i] \in DOMAIN heap
    BY DEF MemoryTyped
  <1>2. heap[segments[i]] \in SegmentType
    BY <1>1 DEF MemoryTyped
  <1> QED
    BY <1>1, <1>2 DEF Live, SegmentType

LEMMA SealTyped ==
  ASSUME MemoryTyped, NEW records \in SUBSET Record, SealBuffer(records)
  PROVE  /\ buffer' \in SUBSET Record /\ heap' \in Seq(SegmentType)
         /\ segments' \in Seq(DOMAIN heap') /\ DOMAIN heap \subseteq DOMAIN heap'
  <1>1. CASE records = {}
    BY <1>1 DEF SealBuffer, MemoryTyped
  <1>2. CASE records # {}
    <2>1. heap' = Append(heap, NewSegment(records)) /\ segments' = Append(segments, Len(heap) + 1)
      BY <1>2 DEF SealBuffer
    <2>2. Len(heap) + 1 \in DOMAIN heap' /\ DOMAIN heap \subseteq DOMAIN heap'
      BY <2>1, NewTyped, Grown DEF MemoryTyped
    <2>3. segments \in Seq(DOMAIN heap')
      BY <2>2, SeqMonotonic DEF MemoryTyped
    <2> QED
      BY <2>1, <2>2, <2>3, NewTyped, Grown DEF MemoryTyped, SealBuffer
  <1> QED
    BY <1>1, <1>2

LEMMA InsertTyped ==
  ASSUME MemoryTyped, NEW r \in Record, ApplyInsert(r), UNCHANGED <<config, clone>>
  PROVE  MemoryTyped'
  <1>1. CASE UNCHANGED memory
    BY <1>1 DEF MemoryTyped
  <1>2. CASE SealBuffer(buffer \cup {r}) /\ meta' = { m \in meta : m[1] # r[1] } \cup {r}
    <2>1. buffer \cup {r} \in SUBSET Record /\ meta' \in SUBSET Record
      BY <1>2 DEF MemoryTyped
    <2>2. /\ buffer' \in SUBSET Record /\ heap' \in Seq(SegmentType)
          /\ segments' \in Seq(DOMAIN heap') /\ DOMAIN heap \subseteq DOMAIN heap'
      BY <1>2, <2>1, SealTyped
    <2>3. clone \in Seq(DOMAIN heap')
      BY <2>2, SeqMonotonic DEF MemoryTyped
    <2> QED
      BY <2>1, <2>2, <2>3 DEF MemoryTyped
  <1>3. CASE /\ buffer' = buffer \cup {r} /\ UNCHANGED <<heap, segments>>
             /\ meta' = { m \in meta : m[1] # r[1] } \cup {r}
    BY <1>3 DEF MemoryTyped
  <1> QED
    BY <1>1, <1>2, <1>3 DEF ApplyInsert

LEMMA DeleteTyped ==
  ASSUME MemoryTyped, NEW id \in Ids, ApplyDelete(id), UNCHANGED <<config, clone>>
  PROVE  MemoryTyped'
  <1>1. /\ buffer' \in SUBSET Record /\ meta' \in SUBSET Record /\ segments' = segments
    BY DEF ApplyDelete, DeleteVectorOnly, MemoryTyped
  <1>2. CASE UNCHANGED heap
    BY <1>1, <1>2 DEF MemoryTyped
  <1>3. CASE heap' = [s \in DOMAIN heap |->
                         IF \E i \in DOMAIN segments : IsNewest(i, id) /\ segments[i] = s
                         THEN [heap[s] EXCEPT !.dead = @ \cup {id}] ELSE heap[s]]
    <2>1. heap \in Seq(SegmentType)
      BY DEF MemoryTyped
    <2>2. ASSUME NEW s \in DOMAIN heap
          PROVE  heap[s] \in SegmentType /\ [heap[s] EXCEPT !.dead = @ \cup {id}] \in SegmentType
      <3>1. heap[s] \in SegmentType
        BY <2>1
      <3> QED
        BY <3>1 DEF SegmentType
    <2>3. heap' \in [1 .. Len(heap) -> SegmentType] /\ Len(heap) \in Nat
      BY <1>3, <2>1, <2>2
    <2>4. heap' \in Seq(SegmentType) /\ DOMAIN heap' = DOMAIN heap
      BY <1>3, <2>3
    <2> QED
      BY <1>1, <2>4 DEF MemoryTyped
  <1> QED
    BY <1>1, <1>2, <1>3 DEF ApplyDelete, DeleteVectorOnly

(* Where the segments that stay are found in the list the victims leave:   *)
(* place k of the m that are left is place f[k] of the n there were.       *)
Leaves(i, j, n, m, left, f) ==
    /\ n \in Nat /\ m \in Nat /\ m = n - 2 /\ DOMAIN segments = 1 .. n
    /\ i \in 1 .. n /\ j \in 1 .. n
    /\ \A k \in 1 .. m : f[k] \in (1 .. n) \ {i, j}
    /\ \A k, l \in 1 .. m : k < l => f[k] < f[l]
    /\ \A k \in (1 .. n) \ {i, j} : \E l \in 1 .. m : f[l] = k
    /\ left = Unlisted(i, j) /\ left \in Seq(DOMAIN heap) /\ Len(left) = m
    /\ \A k \in 1 .. m : left[k] = segments[f[k]]

LEMMA UnlistedOrder ==
  ASSUME segments \in Seq(DOMAIN heap), NEW i \in DOMAIN segments, NEW j \in DOMAIN segments,
         i # j
  PROVE  \E n, m, left, f : Leaves(i, j, n, m, left, f)
  <1>0. PICK n, m, left : n = Len(segments) /\ m = n - 2 /\ left = Unlisted(i, j)
    OBVIOUS
  <1>1. PICK jj : jj = IF j < i THEN j ELSE j - 1
    OBVIOUS
  <1>2. /\ i \in 1 .. n /\ j \in 1 .. n /\ jj \in 1 .. n - 1 /\ n \in Nat
        /\ DOMAIN segments = 1 .. n
    <2>1. n \in Nat /\ DOMAIN segments = 1 .. n
      BY <1>0
    <2>2. i \in 1 .. n /\ j \in 1 .. n
      BY <2>1
    <2> QED
      BY <1>1, <2>1, <2>2
  <1>3. PICK one : one = RemoveAt(segments, i)
    OBVIOUS
  <1>4. /\ one \in Seq(DOMAIN heap) /\ Len(one) = n - 1
        /\ \A k \in 1 .. n - 1 : one[k] = segments[IF k < i THEN k ELSE k + 1]
    BY <1>0, <1>2, <1>3, Removed
  <1>5. left = RemoveAt(one, jj)
    BY <1>0, <1>1, <1>3 DEF Unlisted
  <1>6. /\ left \in Seq(DOMAIN heap) /\ Len(left) = Len(one) - 1
        /\ \A k \in 1 .. Len(one) - 1 : left[k] = one[IF k < jj THEN k ELSE k + 1]
    <2>1. jj \in 1 .. Len(one) /\ one \in Seq(DOMAIN heap)
      BY <1>2, <1>4
    <2>2. /\ RemoveAt(one, jj) \in Seq(DOMAIN heap)
          /\ Len(RemoveAt(one, jj)) = Len(one) - 1
          /\ \A k \in 1 .. Len(one) - 1 :
                RemoveAt(one, jj)[k] = one[IF k < jj THEN k ELSE k + 1]
      BY <2>1, Removed, Zenon
    <2> QED
      BY <1>5, <2>2, Zenon
  <1>8. PICK f : f = [k \in 1 .. n - 2 |->
                        LET x == IF k < jj THEN k ELSE k + 1 IN IF x < i THEN x ELSE x + 1]
    OBVIOUS
  <1>9. \A k \in 1 .. n - 2 :
           /\ f[k] \in 1 .. n /\ f[k] # i /\ f[k] # j
           /\ left[k] = segments[f[k]]
    <2> SUFFICES ASSUME NEW k \in 1 .. n - 2
                 PROVE  f[k] \in 1 .. n /\ f[k] # i /\ f[k] # j /\ left[k] = segments[f[k]]
      OBVIOUS
    <2>1. PICK x : x = IF k < jj THEN k ELSE k + 1
      OBVIOUS
    <2>2. x \in 1 .. n - 1 /\ x # jj /\ f[k] = IF x < i THEN x ELSE x + 1
      BY <1>2, <1>8, <2>1
    <2>3. f[k] \in 1 .. n /\ f[k] # i /\ f[k] # j
      BY <1>1, <1>2, <2>2
    <2>4. Len(one) - 1 = n - 2
      BY <1>2, <1>4
    <2>5. left[k] = one[x]
      BY <1>6, <2>1, <2>4
    <2>6. one[x] = segments[f[k]]
      BY <1>4, <2>2
    <2> QED
      BY <2>3, <2>5, <2>6
  <1>10. \A k, l \in 1 .. n - 2 : k < l => f[k] < f[l]
    BY <1>2, <1>8
  <1>11. ASSUME NEW p \in 1 .. n, p # i, p # j
         PROVE  \E k \in 1 .. n - 2 : f[k] = p
    <2>1. PICK x : x = IF p < i THEN p ELSE p - 1
      OBVIOUS
    <2>2. x \in 1 .. n - 1 /\ x # jj /\ p = IF x < i THEN x ELSE x + 1
      BY <1>1, <1>2, <1>11, <2>1
    <2>3. PICK k : k = IF x < jj THEN x ELSE x - 1
      OBVIOUS
    <2>4. k \in 1 .. n - 2 /\ x = IF k < jj THEN k ELSE k + 1
      BY <1>2, <2>2, <2>3
    <2>5. f[k] = p
      BY <1>8, <2>2, <2>4
    <2> QED
      BY <2>4, <2>5
  <1>12. m \in Nat /\ m = n - 2 /\ Len(one) - 1 = m
    BY <1>0, <1>1, <1>2, <1>4
  <1>13. \A k \in (1 .. n) \ {i, j} : \E l \in 1 .. m : f[l] = k
    BY <1>11, <1>12
  <1>14. left = Unlisted(i, j) /\ left \in Seq(DOMAIN heap) /\ Len(left) = m
    BY <1>0, <1>6, <1>12
  <1>15. /\ \A k \in 1 .. m : f[k] \in (1 .. n) \ {i, j}
         /\ \A k \in 1 .. m : left[k] = segments[f[k]]
         /\ \A k, l \in 1 .. m : k < l => f[k] < f[l]
    BY <1>9, <1>10, <1>12
  <1>16. Leaves(i, j, n, m, left, f)
    BY <1>2, <1>12, <1>13, <1>14, <1>15 DEF Leaves
  <1> QED
    BY <1>16

LEMMA MergeTyped ==
  ASSUME MemoryTyped, Merge
  PROVE  MemoryTyped'
  <1>1. PICK i \in DOMAIN segments, j \in DOMAIN segments :
           /\ i # j
           /\ heap' = Append(heap, NewSegment(Live(heap[segments[i]]) \cup Live(heap[segments[j]])))
           /\ segments' = Append(Unlisted(i, j), Len(heap) + 1)
    BY DEF Merge
  <1>2. Live(heap[segments[i]]) \cup Live(heap[segments[j]]) \in SUBSET Record
    BY LiveTyped
  <1>3. heap \in Seq(SegmentType)
    BY DEF MemoryTyped
  <1>4. /\ heap' \in Seq(SegmentType) /\ Len(heap) + 1 \in DOMAIN heap'
        /\ DOMAIN heap \subseteq DOMAIN heap'
    BY <1>1, <1>2, <1>3, NewTyped, Grown
  <1>5. Unlisted(i, j) \in Seq(DOMAIN heap)
    <2>1. segments \in Seq(DOMAIN heap)
      BY DEF MemoryTyped
    <2>2. PICK n, m, left, f : Leaves(i, j, n, m, left, f)
      BY <1>1, <2>1, UnlistedOrder
    <2> QED
      BY <2>2 DEF Leaves
  <1>6. Unlisted(i, j) \in Seq(DOMAIN heap') /\ clone \in Seq(DOMAIN heap')
    BY <1>4, <1>5, SeqMonotonic DEF MemoryTyped
  <1>7. segments' \in Seq(DOMAIN heap')
    BY <1>1, <1>4, <1>6
  <1> QED
    BY <1>4, <1>6, <1>7 DEF MemoryTyped, Merge

LEMMA OpenTyped ==
  ASSUME FilesTyped, MemoryTyped, WriterTyped, Open
  PROVE  MemoryTyped'
  <1>1. PICK refs : refs = manifest.refs
    OBVIOUS
  <1>2. refs \in Seq(RefType) /\ manifest.meta \in FileName
    BY <1>1 DEF FilesTyped, ManifestType
  <1>3. \A i \in DOMAIN refs :
           refs[i] \in RefType /\ refs[i].file \in DOMAIN files /\ files[refs[i].file] \in SUBSET Record
    <2> SUFFICES ASSUME NEW i \in DOMAIN refs
                 PROVE  refs[i] \in RefType /\ refs[i].file \in DOMAIN files
                        /\ files[refs[i].file] \in SUBSET Record
      OBVIOUS
    <2>1. refs[i] \in RefType
      BY <1>2
    <2>2. refs[i].file \in DOMAIN files
      BY <1>1 DEF Open, AllNamedExist
    <2> QED
      BY <2>1, <2>2 DEF FilesTyped
  <1>4. heap' = [i \in DOMAIN refs |-> [data |-> files[refs[i].file],
                                        dead |-> refs[i].dead, stored |-> refs[i].file]]
    BY <1>1 DEF Open
  <1>5. \A i \in DOMAIN refs : heap'[i] \in SegmentType
    BY <1>3, <1>4 DEF SegmentType, RefType
  <1>6. Len(refs) \in Nat /\ DOMAIN refs = 1 .. Len(refs)
    BY <1>2
  <1>7. heap' \in [1 .. Len(refs) -> SegmentType]
    BY <1>4, <1>5, <1>6
  <1>8. heap' \in Seq(SegmentType) /\ DOMAIN heap' = 1 .. Len(refs)
    BY <1>6, <1>7
  <1>9. segments' = [i \in 1 .. Len(refs) |-> i]
    BY <1>1, <1>6 DEF Open
  <1>10. segments' \in Seq(DOMAIN heap')
    BY <1>6, <1>8, <1>9
  <1>11. meta' \in SUBSET Record
    BY DEF Open, FilesTyped, AllNamedExist
  <1>12. buffer' = buffer /\ clone' = <<>> /\ UNCHANGED config
    BY DEF Open, WriterTyped
  <1> QED
    BY <1>8, <1>10, <1>11, <1>12 DEF MemoryTyped

LEMMA LogOps ==
  ASSUME NEW log \in LogType, MarksInOrder(log)
  PROVE  /\ Flushed(log) \in LogType /\ MarksInOrder(Flushed(log))
         /\ Synced(log) \in LogType /\ MarksInOrder(Synced(log))
         /\ \A entry \in Entry \cup {Torn} :
               Appended(log, entry) \in LogType /\ MarksInOrder(Appended(log, entry))
  <1>1. /\ log.recs \in Seq(Entry \cup {Torn}) /\ Len(log.recs) \in Nat
        /\ log.flushed \in Nat /\ log.synced \in Nat
    BY DEF LogType
  <1>2. Flushed(log) = [recs |-> log.recs, flushed |-> Len(log.recs), synced |-> log.synced]
    BY DEF Flushed, LogType
  <1>3. Synced(log) = [recs |-> log.recs, flushed |-> Len(log.recs), synced |-> Len(log.recs)]
    BY <1>2 DEF Synced
  <1>4. ASSUME NEW entry \in Entry \cup {Torn}
        PROVE  Appended(log, entry) \in LogType /\ MarksInOrder(Appended(log, entry))
    <2>1. /\ Append(log.recs, entry) \in Seq(Entry \cup {Torn})
          /\ Len(Append(log.recs, entry)) = Len(log.recs) + 1
      BY <1>1
    <2>2. Appended(log, entry) =
             [recs |-> Append(log.recs, entry), flushed |-> log.flushed, synced |-> log.synced]
      <3>1. PICK r, f, s : log = [recs |-> r, flushed |-> f, synced |-> s]
        BY DEF LogType
      <3> QED
        BY ONLY <3>1 DEF Appended
    <2> QED
      BY <1>1, <2>1, <2>2 DEF LogType, MarksInOrder
  <1>5. Flushed(log) \in LogType /\ Synced(log) \in LogType
    BY <1>1, <1>2, <1>3 DEF LogType
  <1>6. MarksInOrder(Flushed(log)) /\ MarksInOrder(Synced(log))
    BY <1>1, <1>2, <1>3 DEF MarksInOrder
  <1> QED
    BY <1>4, <1>5, <1>6

LEMMA LogReplaced ==
  ASSUME LogsTyped, NEW g \in Generations, NEW log \in LogType, MarksInOrder(log),
         logs' = [logs EXCEPT ![g] = log]
  PROVE  LogsTyped'
  <1>1. logs' \in [Generations -> LogType]
    BY DEF LogsTyped
  <1>2. ASSUME NEW h \in Generations PROVE MarksInOrder(logs'[h])
    BY DEF LogsTyped
  <1> QED
    BY <1>1, <1>2 DEF LogsTyped

LEMMA AppendTyped ==
  ASSUME LogsTyped, WriterTyped, NEW entry \in Entry, AppendEntry(entry)
  PROVE  LogsTyped' /\ dirty' \in BOOLEAN
  <1>1. /\ active \in Generations /\ logs[active] \in LogType /\ MarksInOrder(logs[active])
    BY DEF LogsTyped, WriterTyped
  <1>2. PICK log : log = Appended(logs[active], entry)
    OBVIOUS
  <1>3. log \in LogType /\ MarksInOrder(log)
    BY <1>1, <1>2, LogOps
  <1>4. /\ Flushed(log) \in LogType /\ MarksInOrder(Flushed(log))
        /\ Synced(log) \in LogType /\ MarksInOrder(Synced(log))
    BY <1>3, LogOps
  <1>5. \/ logs' = [logs EXCEPT ![active] = Flushed(log)]
        \/ logs' = [logs EXCEPT ![active] = Synced(log)]
        \/ logs' = [logs EXCEPT ![active] = log]
    BY <1>2 DEF AppendEntry
  <1>6. LogsTyped'
    BY <1>1, <1>3, <1>4, <1>5, LogReplaced
  <1> QED
    BY <1>6 DEF AppendEntry

LEMMA CommitTyped ==
  ASSUME LogsTyped, WriterTyped, Commit \/ Sync
  PROVE  LogsTyped' /\ dirty' \in BOOLEAN
  <1>1. /\ active \in Generations /\ logs[active] \in LogType /\ MarksInOrder(logs[active])
        /\ dirty \in BOOLEAN
    BY DEF LogsTyped, WriterTyped
  <1>2. /\ Flushed(logs[active]) \in LogType /\ MarksInOrder(Flushed(logs[active]))
        /\ Synced(logs[active]) \in LogType /\ MarksInOrder(Synced(logs[active]))
    BY <1>1, LogOps
  <1>3. \/ logs' = [logs EXCEPT ![active] = Flushed(logs[active])]
        \/ logs' = [logs EXCEPT ![active] = Synced(logs[active])]
        \/ UNCHANGED logs
    <2>1. CASE Sync
      BY <2>1, <1>1 DEF Sync, LogsTyped
    <2>2. CASE Commit
      BY <2>2, <1>1 DEF Commit, Sync, LogsTyped
    <2> QED
      BY <2>1, <2>2
  <1>4. LogsTyped'
    <2>1. CASE UNCHANGED logs
      BY <2>1 DEF LogsTyped
    <2> QED
      BY <1>1, <1>2, <1>3, <2>1, LogReplaced
  <1> QED
    BY <1>1, <1>4 DEF Commit, Sync

LEMMA CutTyped ==
  ASSUME NEW log \in LogType, NEW n \in 0 .. Len(log.recs)
  PROVE  /\ SubSeq(log.recs, 1, n) \in Seq(Entry \cup {Torn}) /\ Len(SubSeq(log.recs, 1, n)) = n
         /\ \A i \in 1 .. n : SubSeq(log.recs, 1, n)[i] = log.recs[i]
         /\ Append(SubSeq(log.recs, 1, n), Torn) \in Seq(Entry \cup {Torn})
         /\ Len(Append(SubSeq(log.recs, 1, n), Torn)) = n + 1
         /\ \A recs \in Cut(log, n) :
               recs \in Seq(Entry \cup {Torn}) /\ n <= Len(recs) /\ Len(recs) <= Len(log.recs)
  <1>1. PICK recs : recs = log.recs
    OBVIOUS
  <1>2. recs \in Seq(Entry \cup {Torn}) /\ Len(recs) \in Nat /\ n \in 0 .. Len(recs)
    BY <1>1 DEF LogType
  <1>3. PICK cut : cut = SubSeq(recs, 1, n)
    OBVIOUS
  <1>4. /\ cut \in Seq(Entry \cup {Torn}) /\ Len(cut) = n
        /\ \A i \in 1 .. n : cut[i] = recs[i]
    BY <1>2, <1>3
  <1>5. Append(cut, Torn) \in Seq(Entry \cup {Torn}) /\ Len(Append(cut, Torn)) = n + 1
    BY <1>4
  <1>6. cut = SubSeq(log.recs, 1, n)
    BY <1>1, <1>3
  <1>7. Cut(log, n) \subseteq {cut, Append(cut, Torn)}
        /\ (Append(cut, Torn) \in Cut(log, n) => n < Len(recs) \/ Append(cut, Torn) = cut)
    BY <1>1, <1>6 DEF Cut
  <1>8. ASSUME NEW file \in Cut(log, n)
        PROVE  file \in Seq(Entry \cup {Torn}) /\ n <= Len(file) /\ Len(file) <= Len(recs)
    <2>1. CASE file = cut
      BY <1>2, <1>4, <2>1
    <2>2. CASE file = Append(cut, Torn) /\ file # cut
      BY <1>2, <1>5, <1>7, <2>2
    <2> QED
      BY <1>7, <2>1, <2>2
  <1> QED
    BY <1>1, <1>4, <1>5, <1>6, <1>8, Zenon

LEMMA TruncatedTyped ==
  ASSUME NEW log \in LogType, MarksInOrder(log)
  PROVE  /\ Truncated(log) \in LogType /\ MarksInOrder(Truncated(log))
         /\ \A i \in 1 .. Len(Truncated(log).recs) : Truncated(log).recs[i] # Torn
         /\ Truncated(log).recs = SubSeq(log.recs, 1, Intact(log.recs))
         /\ Len(Truncated(log).recs) = Intact(log.recs)
  <1>1. PICK n : n = Intact(log.recs)
    OBVIOUS
  <1>2. log.recs \in Seq(Entry \cup {Torn}) /\ Len(log.recs) \in Nat
    BY DEF LogType
  <1>3. n \in 0 .. Len(log.recs) /\ \A i \in 1 .. n : log.recs[i] # Torn
    BY <1>1, <1>2, IntactPrefix
  <1>4. PICK cut : cut = SubSeq(log.recs, 1, n)
    OBVIOUS
  <1>5. /\ cut \in Seq(Entry \cup {Torn}) /\ Len(cut) = n
        /\ \A i \in 1 .. n : cut[i] = log.recs[i]
    BY <1>3, <1>4, CutTyped
  <1>6. CASE n = Len(log.recs)
    <2>1. Truncated(log) = log
      BY <1>1, <1>6 DEF Truncated
    <2>2. cut = log.recs
      BY <1>2, <1>4, <1>6
    <2> QED
      BY <1>1, <1>3, <1>4, <1>6, <2>1, <2>2
  <1>7. CASE n # Len(log.recs)
    <2>1. Truncated(log) = [recs |-> cut, flushed |-> n, synced |-> n]
      BY <1>1, <1>4, <1>7 DEF Truncated
    <2> QED
      BY <1>1, <1>3, <1>4, <1>5, <2>1 DEF LogType, MarksInOrder
  <1> QED
    BY <1>6, <1>7

LEMMA ProcessCrashTyped ==
  ASSUME LogsTyped, WriterTyped, ProcessCrash
  PROVE  LogsTyped'
  <1>1. /\ active \in Generations /\ logs[active] \in LogType /\ MarksInOrder(logs[active])
    BY DEF LogsTyped, WriterTyped
  <1>2. PICK n \in logs[active].flushed .. Len(logs[active].recs) :
           \E recs \in Cut(logs[active], n) :
               logs' = [logs EXCEPT ![active] =
                           [recs |-> recs, flushed |-> Len(recs), synced |-> @.synced]]
    BY DEF ProcessCrash
  <1>3. PICK recs \in Cut(logs[active], n) :
               logs' = [logs EXCEPT ![active] =
                           [recs |-> recs, flushed |-> Len(recs), synced |-> logs[active].synced]]
    BY <1>1, <1>2 DEF LogsTyped
  <1>4. /\ n \in 0 .. Len(logs[active].recs) /\ logs[active].synced \in Nat
        /\ logs[active].synced <= n
    BY <1>1, <1>2 DEF LogType, MarksInOrder
  <1>5. recs \in Seq(Entry \cup {Torn}) /\ n <= Len(recs) /\ Len(recs) \in Nat
    BY <1>1, <1>4, CutTyped
  <1>6. PICK log : log = [recs |-> recs, flushed |-> Len(recs), synced |-> logs[active].synced]
    OBVIOUS
  <1>7. log \in LogType /\ MarksInOrder(log)
    BY <1>4, <1>5, <1>6 DEF LogType, MarksInOrder
  <1> QED
    BY <1>1, <1>3, <1>6, <1>7, LogReplaced

LEMMA MachineCrashTyped ==
  ASSUME LogsTyped, FilesTyped, MachineCrash
  PROVE  LogsTyped'
  <1>1. PICK n \in [manifest.wal .. MaxGeneration -> 0 .. MaxLog], torn \in BOOLEAN :
           /\ \A g \in DOMAIN n : n[g] \in logs[g].synced .. Len(logs[g].recs)
           /\ logs' = [g \in Generations |->
                  IF g \notin DOMAIN n THEN logs[g] ELSE
                  LET cut == SubSeq(logs[g].recs, 1, n[g])
                      recs == IF torn /\ n[g] < Len(logs[g].recs)
                              THEN Append(cut, Torn) ELSE cut
                  IN  [recs |-> recs, flushed |-> Len(recs), synced |-> Len(recs)]]
    BY DEF MachineCrash
  <1>2. ASSUME NEW g \in Generations
        PROVE  logs'[g] \in LogType /\ MarksInOrder(logs'[g])
    <2>1. CASE g \notin DOMAIN n
      BY <1>1, <2>1 DEF LogsTyped
    <2>2. CASE g \in DOMAIN n
      <3>1. n[g] \in 0 .. Len(logs[g].recs) /\ logs[g] \in LogType
        BY <1>1, <2>2 DEF LogsTyped, LogType
      <3>2. PICK cut : cut = SubSeq(logs[g].recs, 1, n[g])
        OBVIOUS
      <3>3. PICK recs : recs = IF torn /\ n[g] < Len(logs[g].recs)
                               THEN Append(cut, Torn) ELSE cut
        OBVIOUS
      <3>4. recs \in Seq(Entry \cup {Torn}) /\ Len(recs) \in Nat
        <4>1. cut \in Seq(Entry \cup {Torn}) /\ Append(cut, Torn) \in Seq(Entry \cup {Torn})
          BY ONLY <3>1, <3>2, CutTyped
        <4>2. recs \in Seq(Entry \cup {Torn})
          BY ONLY <3>3, <4>1
        <4> QED
          BY ONLY <4>2
      <3>5. logs'[g] = [recs |-> recs, flushed |-> Len(recs), synced |-> Len(recs)]
        BY <1>1, <2>2, <3>2, <3>3
      <3> QED
        BY <3>4, <3>5 DEF LogType, MarksInOrder
    <2> QED
      BY <2>1, <2>2
  <1>3. logs' = [g \in Generations |-> logs'[g]]
    BY <1>1
  <1> QED
    BY <1>2, <1>3 DEF LogsTyped

LEMMA LogsStep == LogsTyped /\ WriterTyped /\ FilesTyped /\ [Next]_vars => LogsTyped'
  <1> SUFFICES ASSUME LogsTyped, WriterTyped, FilesTyped, [Next]_vars
               PROVE  LogsTyped'
    OBVIOUS
  <1>0. active \in Generations /\ logs[active] \in LogType /\ MarksInOrder(logs[active])
    BY DEF LogsTyped, WriterTyped
  <1>1. CASE UNCHANGED logs
    BY <1>1 DEF LogsTyped
  <1>2. ASSUME NEW id \in Ids, Insert(id) PROVE LogsTyped'
    <2>1. InsertEntry(<<id, inserted[id] + 1>>) \in Entry
      <3>1. <<id, inserted[id] + 1>> \in Record
        BY <1>2, Constants DEF Insert, WriterTyped, Record, Vectors
      <3> QED
        BY <3>1, Entries
    <2> QED
      BY <1>2, <2>1, AppendTyped DEF Insert
  <1>3. ASSUME NEW id \in Ids, Delete(id) PROVE LogsTyped'
    BY <1>3, AppendTyped, Entries DEF Delete
  <1>4. ASSUME NEW id \in Ids, AppendFails(id) PROVE LogsTyped'
    <2>1. PICK entry : /\ entry = IF id \in IdsOf(Content) THEN DeleteEntry(id)
                                  ELSE InsertEntry(<<id, inserted[id] + 1>>)
                       /\ entry.op = "insert" => inserted[id] < InsertsPerId
                       /\ \/ UNCHANGED logs
                          \/ logs' = [logs EXCEPT ![active] = Appended(@, Torn)]
                          \/ logs' = [logs EXCEPT ![active] = Appended(@, entry)]
      BY <1>4 DEF AppendFails
    <2>2. entry \in Entry
      <3>1. CASE id \in IdsOf(Content)
        BY <2>1, <3>1, Entries
      <3>2. CASE id \notin IdsOf(Content)
        <4>1. entry = InsertEntry(<<id, inserted[id] + 1>>) /\ inserted[id] < InsertsPerId
          BY <2>1, <3>2 DEF InsertEntry
        <4>2. <<id, inserted[id] + 1>> \in Record
          BY <4>1, Constants DEF WriterTyped, Record, Vectors
        <4> QED
          BY <4>1, <4>2, Entries
      <3> QED
        BY <3>1, <3>2
    <2>3. /\ Appended(logs[active], Torn) \in LogType /\ MarksInOrder(Appended(logs[active], Torn))
          /\ Appended(logs[active], entry) \in LogType /\ MarksInOrder(Appended(logs[active], entry))
      BY <1>0, <2>2, LogOps
    <2>4. \/ UNCHANGED logs
          \/ logs' = [logs EXCEPT ![active] = Appended(logs[active], Torn)]
          \/ logs' = [logs EXCEPT ![active] = Appended(logs[active], entry)]
      BY <1>0, <2>1 DEF LogsTyped
    <2> QED
      BY <1>0, <1>1, <2>3, <2>4, LogReplaced
  <1>5. CASE EndBatch \/ Shutdown \/ StartCheckpoint
    BY <1>5, CommitTyped DEF EndBatch, Shutdown, StartCheckpoint, CommitAndAnswer
  <1>6. CASE RotateWal
    <2>1. logs' = [logs EXCEPT ![active] = Flushed(logs[active])]
      BY <1>0, <1>6 DEF RotateWal, LogsTyped
    <2> QED
      BY <1>0, <2>1, LogOps, LogReplaced
  <1>7. CASE GcRemove
    <2>1. EmptyLog \in LogType /\ MarksInOrder(EmptyLog)
      BY DEF EmptyLog, LogType, MarksInOrder
    <2> QED
      BY <1>1, <1>7, <2>1, LogReplaced DEF GcRemove
  <1>8. CASE ProcessCrash
    BY <1>8, ProcessCrashTyped
  <1>9. CASE MachineCrash
    BY <1>9, MachineCrashTyped
  <1>10. CASE Open
    <2>1. manifest.wal \in Generations /\ logs[manifest.wal] \in LogType /\ MarksInOrder(logs[manifest.wal])
      BY DEF LogsTyped, FilesTyped, ManifestType
    <2>2. logs' = [logs EXCEPT ![manifest.wal] = Truncated(logs[manifest.wal])]
      BY <1>10, <2>1 DEF Open, LogsTyped
    <2> QED
      BY <2>1, <2>2, TruncatedTyped, LogReplaced
  <1>11. CASE Merge \/ WriteSegment \/ WriteMetadata \/ WriteManifest \/ GcDone
              \/ CheckpointFails \/ ReplayOne \/ FinishReplay
    BY <1>1, <1>11 DEF Merge, WriteSegment, WriteMetadata, WriteManifest, GcDone,
       CheckpointFails, ReplayOne, FinishReplay
  <1> QED
    BY <1>1, <1>2, <1>3, <1>4, <1>5, <1>6, <1>7, <1>8, <1>9, <1>10, <1>11 DEF Next

LEMMA FaultCounted ==
  ASSUME WriterTyped, NEW call, Fails(call)
  PROVE  faults' \in Nat
  BY DEF WriterTyped, Fails

LEMMA CommitCounted ==
  ASSUME WriterTyped, Commit \/ (Sync /\ UNCHANGED faults)
  PROVE  dirty' \in BOOLEAN /\ faults' \in Nat
  <1>1. dirty \in BOOLEAN /\ faults \in Nat
    BY DEF WriterTyped
  <1>2. CASE Fails("commit") /\ UNCHANGED dirty
    BY <1>1, <1>2, FaultCounted
  <1>3. CASE UNCHANGED faults /\ (UNCHANGED dirty \/ Sync)
    BY <1>1, <1>3 DEF Sync
  <1> QED
    BY <1>2, <1>3 DEF Commit

LEMMA WriterStep == Typed /\ [Next]_vars => WriterTyped'
  <1> SUFFICES ASSUME Typed, [Next]_vars PROVE WriterTyped'
    OBVIOUS
  <1>0. WriterTyped /\ MaxGeneration \in Nat /\ MaxBatch \in Nat /\ InsertsPerId \in Nat
    BY Constants DEF Typed
  <1>1. CASE UNCHANGED vars
    BY <1>0, <1>1 DEF WriterTyped
  <1>2. ASSUME NEW id \in Ids, Insert(id) PROVE WriterTyped'
    <2>1. dirty' \in BOOLEAN
      BY <1>0, <1>2 DEF Insert, AppendEntry, WriterTyped
    <2>2. inserted' \in [Ids -> 0 .. InsertsPerId]
      BY <1>0, <1>2 DEF Insert, WriterTyped
    <2> QED
      BY <1>0, <1>2, <2>1, <2>2 DEF Insert, Accepts, WriterTyped
  <1>3. ASSUME NEW id \in Ids, Delete(id) PROVE WriterTyped'
    <2>1. dirty' \in BOOLEAN
      BY <1>0, <1>3 DEF Delete, AppendEntry, WriterTyped
    <2> QED
      BY <1>0, <1>3, <2>1 DEF Delete, Accepts, WriterTyped
  <1>4. ASSUME NEW id \in Ids, AppendFails(id) PROVE WriterTyped'
    <2>1. dirty' \in BOOLEAN /\ faults' \in Nat
      <3>1. UNCHANGED dirty \/ dirty' = TRUE
        BY <1>4 DEF AppendFails
      <3> QED
        BY <1>0, <1>4, <3>1, FaultCounted DEF AppendFails, WriterTyped
    <2>2. inserted' \in [Ids -> 0 .. InsertsPerId]
      <3>1. PICK entry :
               /\ entry.op = "insert" => inserted[id] < InsertsPerId
               /\ inserted' = IF entry.op = "insert"
                              THEN [inserted EXCEPT ![id] = @ + 1] ELSE inserted
        BY <1>4 DEF AppendFails
      <3> QED
        BY <1>0, <3>1 DEF WriterTyped
    <2> QED
      BY <1>0, <1>4, <2>1, <2>2 DEF AppendFails, Accepts, WriterTyped
  <1>5. CASE EndBatch \/ Shutdown
    <2>1. dirty' \in BOOLEAN /\ faults' \in Nat /\ pending' \in 0 .. MaxBatch
      <3>1. /\ Commit \/ (Sync /\ UNCHANGED faults)
            /\ pending' = 0 \/ UNCHANGED pending
        BY <1>5 DEF EndBatch, Shutdown, CommitAndAnswer
      <3>2. dirty' \in BOOLEAN /\ faults' \in Nat
        BY <1>0, <3>1, CommitCounted
      <3> QED
        BY <1>0, <3>1, <3>2 DEF WriterTyped
    <2> QED
      BY <1>0, <1>5, <2>1 DEF EndBatch, Shutdown, WriterTyped
  <1>6. CASE StartCheckpoint
    <2>1. dirty' \in BOOLEAN /\ faults' \in Nat /\ pending' \in 0 .. MaxBatch
      <3>1. Commit /\ pending' = 0
        BY <1>6 DEF StartCheckpoint, CommitAndAnswer
      <3>2. dirty' \in BOOLEAN /\ faults' \in Nat
        BY <1>0, <3>1, CommitCounted
      <3> QED
        BY <1>0, <3>1, <3>2
    <2> QED
      BY <1>0, <1>6, <2>1 DEF StartCheckpoint, Generations, WriterTyped, PC
  <1>7. CASE Merge
    BY <1>0, <1>7 DEF Merge, WriterTyped
  <1>8. CASE WriteSegment
    BY <1>0, <1>8 DEF WriteSegment, WriterTyped
  <1>13. CASE WriteMetadata \/ RotateWal \/ WriteManifest \/ GcRemove
    <2>1. /\ UNCHANGED <<generation, pending, position, inserted, crashes, faults>>
          /\ active' \in Generations /\ dirty' \in BOOLEAN
          /\ pc' \in {"rotate", "manifest", "gc"}
      BY <1>0, <1>13 DEF WriteMetadata, RotateWal, WriteManifest, GcRemove, WriterTyped
    <2> QED
      BY <1>0, <2>1 DEF WriterTyped, PC
  <1>9. CASE GcDone \/ CheckpointFails
    <2>1. faults' \in Nat
      BY <1>0, <1>9 DEF GcDone, CheckpointFails, Fails, WriterTyped
    <2> QED
      BY <1>0, <1>9, <2>1 DEF GcDone, CheckpointFails, Return, WriterTyped, PC
  <1>10. CASE ProcessCrash \/ MachineCrash
    <2>1. Forget
      BY <1>10 DEF ProcessCrash, MachineCrash
    <2>2. /\ generation' = 0 /\ active' = 0 /\ dirty' = FALSE /\ pending' = 0 /\ pc' = "down"
          /\ position' = 0 /\ clone' = <<>> /\ crashes' = crashes + 1
          /\ UNCHANGED <<inserted, faults>>
      BY <2>1 DEF Forget
    <2>3. 0 \in Generations /\ 0 \in 0 .. MaxBatch /\ 0 \in Nat /\ FALSE \in BOOLEAN /\ "down" \in PC
      BY <1>0, Constants DEF PC
    <2>4. /\ inserted' \in [Ids -> 0 .. InsertsPerId] /\ crashes' \in Nat /\ faults' \in Nat
      BY <1>0, <2>2 DEF WriterTyped
    <2> QED
      BY <2>2, <2>3, <2>4 DEF WriterTyped
  <1>11. CASE Open
    BY <1>0, <1>11 DEF Open, WriterTyped, Typed, FilesTyped, ManifestType, PC
  <1>12. CASE ReplayOne \/ FinishReplay
    BY <1>0, <1>12 DEF ReplayOne, FinishReplay, WriterTyped, PC
  <1> QED
    BY <1>1, <1>2, <1>3, <1>4, <1>5, <1>6, <1>7, <1>8, <1>9, <1>10, <1>11, <1>12, <1>13 DEF Next

(* A segment is told where it is stored. *)
LEMMA StoredTyped ==
  ASSUME MemoryTyped, WriterTyped, WriteSegment
  PROVE  MemoryTyped' /\ clone[position] \in DOMAIN heap
  <1>1. /\ position \in 1 .. Len(clone) /\ clone \in Seq(DOMAIN heap)
        /\ heap \in Seq(SegmentType) /\ generation \in Generations
    BY DEF WriteSegment, WriterTyped, MemoryTyped
  <1>2. PICK s : s = clone[position]
    OBVIOUS
  <1>3. s \in DOMAIN heap /\ <<generation, position>> \in FileName
    BY <1>1, <1>2 DEF FileName
  <1>4. UNCHANGED heap \/ heap' = [heap EXCEPT ![s].stored = <<generation, position>>]
    BY <1>2 DEF WriteSegment
  <1>5. [heap[s] EXCEPT !.stored = <<generation, position>>] \in SegmentType
    <2>1. heap[s] \in SegmentType
      BY <1>1, <1>3
    <2> QED
      BY <1>3, <2>1 DEF SegmentType
  <1>6. heap' \in Seq(SegmentType) /\ DOMAIN heap' = DOMAIN heap
    <2>1. CASE UNCHANGED heap
      BY <1>1, <2>1
    <2>2. CASE heap' = [heap EXCEPT ![s].stored = <<generation, position>>]
      <3>1. heap' = [heap EXCEPT ![s] = [heap[s] EXCEPT !.stored = <<generation, position>>]]
        BY <2>2
      <3> QED
        BY <1>1, <1>3, <1>5, <3>1
    <2> QED
      BY <1>4, <2>1, <2>2
  <1>7. MemoryTyped'
    BY <1>1, <1>6 DEF MemoryTyped, WriteSegment
  <1> QED
    BY <1>2, <1>3, <1>7

LEMMA MemoryStep == Typed /\ [Next]_vars => MemoryTyped'
  <1> SUFFICES ASSUME Typed, [Next]_vars PROVE MemoryTyped'
    OBVIOUS
  <1>0. MemoryTyped /\ WriterTyped /\ FilesTyped
    BY DEF Typed
  <1>1. CASE UNCHANGED <<config, memory, clone>>
    BY <1>0, <1>1 DEF MemoryTyped
  <1>2. ASSUME NEW id \in Ids, Insert(id) PROVE MemoryTyped'
    <2>1. <<id, inserted[id] + 1>> \in Record
      BY <1>0, <1>2, Constants DEF Insert, WriterTyped, Record, Vectors
    <2> QED
      BY <1>0, <1>2, <2>1, InsertTyped DEF Insert
  <1>3. ASSUME NEW id \in Ids, Delete(id) PROVE MemoryTyped'
    BY <1>0, <1>3, DeleteTyped DEF Delete
  <1>4. ASSUME NEW id \in Ids, AppendFails(id) PROVE MemoryTyped'
    BY <1>1, <1>4 DEF AppendFails
  <1>5. CASE StartCheckpoint
    <2>1. /\ buffer' \in SUBSET Record /\ heap' \in Seq(SegmentType)
          /\ segments' \in Seq(DOMAIN heap')
      BY <1>0, <1>5, SealTyped DEF StartCheckpoint, MemoryTyped
    <2> QED
      BY <1>0, <1>5, <2>1 DEF StartCheckpoint, MemoryTyped
  <1>6. CASE Merge
    BY <1>0, <1>6, MergeTyped
  <1>7. CASE WriteSegment
    BY <1>0, <1>7, StoredTyped
  <1>8. CASE GcDone \/ CheckpointFails
    <2>1. UNCHANGED <<config, memory>> /\ clone' = <<>>
      BY <1>8 DEF GcDone, CheckpointFails, Return
    <2>2. clone' \in Seq(DOMAIN heap)
      BY <2>1
    <2> QED
      BY <1>0, <2>1, <2>2 DEF MemoryTyped
  <1>9. CASE ProcessCrash \/ MachineCrash
    <2>1. Forget
      BY <1>9 DEF ProcessCrash, MachineCrash
    <2> QED
      BY <1>0, <2>1 DEF Forget, MemoryTyped
  <1>10. CASE Open
    BY <1>0, <1>10, OpenTyped
  <1>11. CASE ReplayOne
    <2>1. LogsTyped
      BY DEF Typed
    <2>2. PICK entry : entry = Log.recs[position]
      OBVIOUS
    <2>3. entry \in Entry
      <3>1. position \in 1 .. Len(Log.recs)
        BY <1>0, <1>11, <2>1 DEF ReplayOne, WriterTyped, LogsTyped, LogType, FilesTyped, ManifestType, Log
      <3> QED
        BY <1>0, <1>11, <2>1, <2>2, <3>1
           DEF ReplayOne, LogsTyped, LogType, FilesTyped, ManifestType, Log
    <2>4. \/ entry.op = "insert" /\ ApplyInsert(entry.rec)
          \/ entry.op = "delete" /\ ApplyDelete(entry.rec[1])
      BY <1>11, <2>2 DEF ReplayOne
    <2>5. UNCHANGED <<config, clone>>
      BY <1>11 DEF ReplayOne
    <2>6. CASE entry.op = "insert" /\ ApplyInsert(entry.rec)
      BY <1>0, <2>3, <2>5, <2>6, Entries, InsertTyped
    <2>7. CASE entry.op = "delete" /\ ApplyDelete(entry.rec[1])
      BY <1>0, <2>3, <2>5, <2>7, Entries, DeleteTyped
    <2> QED
      BY <2>4, <2>6, <2>7
  <1>12. CASE EndBatch \/ Shutdown \/ WriteMetadata \/ RotateWal \/ WriteManifest \/ GcRemove
              \/ FinishReplay
    BY <1>1, <1>12 DEF EndBatch, Shutdown, WriteMetadata, RotateWal, WriteManifest, GcRemove,
       FinishReplay
  <1> QED
    BY <1>1, <1>2, <1>3, <1>4, <1>5, <1>6, <1>7, <1>8, <1>9, <1>10, <1>11, <1>12 DEF Next

LEMMA ManifestTyped ==
  ASSUME MemoryTyped, WriterTyped
  PROVE  NextManifest \in ManifestType
  <1>1. PICK refs : refs = [i \in DOMAIN clone |-> SegmentRef(clone[i])]
    OBVIOUS
  <1>2. clone \in Seq(DOMAIN heap) /\ Len(clone) \in Nat /\ DOMAIN clone = 1 .. Len(clone)
    BY DEF MemoryTyped
  <1>3. ASSUME NEW i \in DOMAIN clone PROVE SegmentRef(clone[i]) \in RefType
    <2>1. clone[i] \in DOMAIN heap
      BY <1>2
    <2>2. heap[clone[i]] \in SegmentType
      BY <2>1 DEF MemoryTyped
    <2> QED
      BY <2>2 DEF SegmentRef, SegmentType, RefType
  <1>4. refs \in [1 .. Len(clone) -> RefType]
    BY <1>1, <1>2, <1>3
  <1>5. refs \in Seq(RefType)
    BY <1>2, <1>4
  <1>6. (IF meta = {} THEN NoFile ELSE MetaFile(generation)) \in FileName
    BY Constants DEF WriterTyped
  <1> QED
    BY <1>1, <1>5, <1>6 DEF NextManifest, ManifestType, WriterTyped

LEMMA WrittenTyped ==
  ASSUME FilesTyped, NEW name \in FileName, NEW records \in SUBSET Record,
         files' = Written(name, records)
  PROVE  /\ DOMAIN files' \subseteq FileName
         /\ \A f \in DOMAIN files' : files'[f] \in SUBSET Record
  BY DEF FilesTyped, Written

LEMMA FilesStep == Typed /\ [Next]_vars => FilesTyped'
  <1> SUFFICES ASSUME Typed, [Next]_vars PROVE FilesTyped'
    OBVIOUS
  <1>0. MemoryTyped /\ WriterTyped /\ LogsTyped /\ FilesTyped
    BY DEF Typed
  <1>1. CASE UNCHANGED <<files, manifest>> /\ pc' # "replay"
    BY <1>0, <1>1 DEF FilesTyped
  <1>2. CASE UNCHANGED <<files, manifest, logs>> /\ pc = "replay"
    BY <1>0, <1>2 DEF FilesTyped, Log
  <1>3. ASSUME NEW id \in Ids, Insert(id) \/ Delete(id) \/ AppendFails(id) PROVE FilesTyped'
    BY <1>1, <1>3 DEF Insert, Delete, AppendFails, Accepts
  <1>4. CASE EndBatch \/ Shutdown \/ StartCheckpoint
    BY <1>1, <1>4 DEF EndBatch, Shutdown, StartCheckpoint
  <1>5. CASE Merge
    BY <1>1, <1>2, <1>5 DEF Merge
  <1>6. CASE RotateWal \/ GcDone \/ CheckpointFails
    BY <1>1, <1>6 DEF RotateWal, GcDone, CheckpointFails, Return
  <1>7. CASE ProcessCrash \/ MachineCrash
    BY <1>1, <1>7 DEF ProcessCrash, MachineCrash, Forget
  <1>8. CASE ReplayOne \/ FinishReplay
    BY <1>2, <1>8 DEF ReplayOne, FinishReplay
  <1>9. CASE WriteSegment
    <2>1. clone[position] \in DOMAIN heap
      BY <1>0, <1>9, StoredTyped
    <2>2. heap[clone[position]].data \in SUBSET Record /\ <<generation, position>> \in FileName
      <3>1. heap[clone[position]] \in SegmentType
        BY <1>0, <2>1 DEF MemoryTyped
      <3> QED
        BY <1>0, <3>1 DEF SegmentType, WriterTyped, FileName
    <2>3. /\ DOMAIN files' \subseteq FileName
          /\ \A f \in DOMAIN files' : files'[f] \in SUBSET Record
      <3>1. CASE UNCHANGED files
        BY <1>0, <3>1 DEF FilesTyped
      <3>2. CASE files' = Written(<<generation, position>>, heap[clone[position]].data)
        BY <1>0, <2>2, <3>2, WrittenTyped
      <3> QED
        BY <1>9, <3>1, <3>2 DEF WriteSegment
    <2> QED
      BY <1>0, <1>9, <2>3 DEF WriteSegment, FilesTyped
  <1>10. CASE WriteMetadata
    <2>1. meta \in SUBSET Record /\ MetaFile(generation) \in FileName
      BY <1>0, Constants DEF MemoryTyped, WriterTyped
    <2>2. /\ DOMAIN files' \subseteq FileName
          /\ \A f \in DOMAIN files' : files'[f] \in SUBSET Record
      <3>1. CASE UNCHANGED files
        BY <1>0, <3>1 DEF FilesTyped
      <3>2. CASE files' = Written(MetaFile(generation), meta)
        BY <1>0, <2>1, <3>2, WrittenTyped
      <3> QED
        BY <1>10, <3>1, <3>2 DEF WriteMetadata
    <2> QED
      BY <1>0, <1>10, <2>2 DEF WriteMetadata, FilesTyped
  <1>11. CASE WriteManifest
    BY <1>0, <1>11, ManifestTyped DEF WriteManifest, FilesTyped
  <1>12. CASE GcRemove
    BY <1>0, <1>12 DEF GcRemove, FilesTyped
  <1>13. CASE Open
    <2>1. /\ manifest.wal \in Generations /\ logs[manifest.wal] \in LogType
          /\ MarksInOrder(logs[manifest.wal])
      BY <1>0 DEF LogsTyped, FilesTyped, ManifestType
    <2>2. Log' = Truncated(logs[manifest.wal])
      BY <1>0, <1>13, <2>1 DEF Open, LogsTyped, Log
    <2> QED
      BY <1>0, <1>13, <2>1, <2>2, TruncatedTyped DEF Open, FilesTyped
  <1>14. CASE UNCHANGED vars
    BY <1>1, <1>2, <1>14
  <1> QED
    BY <1>3, <1>4, <1>5, <1>6, <1>7, <1>8, <1>9, <1>10, <1>11, <1>12, <1>13, <1>14 DEF Next

LEMMA TypedStep == Typed /\ [Next]_vars => Typed'
  <1> SUFFICES ASSUME Typed, [Next]_vars PROVE Typed'
    OBVIOUS
  <1>1. MemoryTyped'
    BY MemoryStep
  <1>2. WriterTyped'
    BY WriterStep
  <1>3. LogsTyped'
    BY LogsStep DEF Typed
  <1>4. FilesTyped'
    BY FilesStep
  <1> QED
    BY <1>1, <1>2, <1>3, <1>4 DEF Typed

LEMMA TypedGivesTypeOK == Typed => TypeOK
  <1> SUFFICES ASSUME Typed PROVE TypeOK
    OBVIOUS
  <1>1. MemoryTyped /\ WriterTyped /\ LogsTyped /\ FilesTyped
    BY DEF Typed
  <1>2. ASSUME NEW i \in DOMAIN heap
        PROVE  heap[i].data \subseteq Record /\ heap[i].dead \subseteq Ids
               /\ heap[i].stored \in FileName
    <2>1. heap[i] \in SegmentType
      BY <1>1 DEF MemoryTyped
    <2> QED
      BY <2>1 DEF SegmentType
  <1>3. ASSUME NEW g \in Generations
        PROVE  /\ logs[g].recs \in Seq(Entry \cup {Torn})
               /\ logs[g].synced <= logs[g].flushed
               /\ logs[g].flushed <= Len(logs[g].recs)
    BY <1>1 DEF LogsTyped, LogType, MarksInOrder
  <1>4. manifest.wal \in Generations /\ manifest.generation \in Generations
    BY <1>1 DEF FilesTyped, ManifestType
  <1> QED
    BY <1>1, <1>2, <1>3, <1>4 DEF TypeOK, MemoryTyped, WriterTyped, FilesTyped, PC

(* The variables keep their types: the log's marks stay within it and in   *)
(* order, and the list holds segments made since the start.                *)
THEOREM TypeCorrect == Spec => []TypeOK
  <1>1. Init => Typed
    BY InitTyped
  <1>2. Typed /\ [Next]_vars => Typed'
    BY TypedStep
  <1>3. Typed => TypeOK
    BY TypedGivesTypeOK
  <1> QED
    BY <1>1, <1>2, <1>3, PTL DEF Spec

-----------------------------------------------------------------------------
(* The files. *)

LEMMA Indices ==
  ASSUME Typed
  PROVE  /\ \A i \in DOMAIN segments : segments[i] \in DOMAIN heap
         /\ \A i \in DOMAIN clone : clone[i] \in DOMAIN heap
         /\ \A s \in DOMAIN heap : heap[s] \in SegmentType /\ heap[s].stored \in FileName
         /\ DOMAIN clone = 1 .. Len(clone) /\ Len(clone) \in Nat
         /\ DOMAIN segments = 1 .. Len(segments) /\ Len(segments) \in Nat
         /\ DOMAIN manifest.refs = 1 .. Len(manifest.refs) /\ Len(manifest.refs) \in Nat
         /\ \A i \in DOMAIN manifest.refs : manifest.refs[i] \in RefType
         /\ manifest.generation \in Nat /\ generation \in Nat /\ position \in Nat
  <1>1. segments \in Seq(DOMAIN heap) /\ clone \in Seq(DOMAIN heap) /\ heap \in Seq(SegmentType)
    BY DEF Typed, MemoryTyped
  <1>2. /\ manifest.refs \in Seq(RefType) /\ manifest.generation \in Nat
        /\ generation \in Nat /\ position \in Nat
    BY DEF Typed, FilesTyped, ManifestType, WriterTyped, Generations
  <1>3. ASSUME NEW s \in DOMAIN heap PROVE heap[s] \in SegmentType /\ heap[s].stored \in FileName
    <2>1. heap[s] \in SegmentType
      BY <1>1
    <2> QED
      BY <2>1 DEF SegmentType
  <1> QED
    BY <1>1, <1>2, <1>3

LEMMA InitFiles == Init => FilesInv
  BY DEF Init, FilesInv, ListedOnDisk, NamesUsed, ManifestNames, Progress, Working, NoManifest

(* The list changes, but no segment that it already had does: what a write *)
(* and a merge do, and what a replayed write does.                         *)
SegmentsKept ==
    /\ \A s \in DOMAIN heap :
           s \in DOMAIN heap' /\ heap'[s].stored = heap[s].stored /\ heap'[s].data = heap[s].data
    /\ \A s \in DOMAIN heap' : s \notin DOMAIN heap => heap'[s].stored = NoFile
    /\ \A i \in DOMAIN segments' : heap'[segments'[i]].stored # NoFile =>
           \E k \in DOMAIN segments : segments'[i] = segments[k]

LEMMA Rearranged ==
  ASSUME Typed, FilesInv, Typed', SegmentsKept,
         UNCHANGED <<generation, clone, files, manifest>>,
         \/ UNCHANGED <<pc, position, meta>>
         \/ pc \in {"serving", "replay"} /\ pc' \in {"serving", "replay", "refused"}
  PROVE  FilesInv'
  <1> USE DEF SegmentsKept
  <1>1. ListedOnDisk'
    <2>1. ASSUME NEW i \in DOMAIN segments' PROVE OnDisk(segments[i])'
      <3>1. CASE heap'[segments'[i]].stored # NoFile
        <4>1. PICK k \in DOMAIN segments : segments'[i] = segments[k]
          BY <3>1
        <4> QED
          BY <4>1, Indices DEF FilesInv, ListedOnDisk, OnDisk
      <3> QED
        BY <3>1 DEF OnDisk
    <2>2. ASSUME NEW i \in DOMAIN clone' PROVE OnDisk(clone[i])'
      BY Indices DEF FilesInv, ListedOnDisk, OnDisk
    <2> QED
      BY <2>1, <2>2 DEF ListedOnDisk
  <1>2. NamesUsed'
    BY DEF FilesInv, NamesUsed
  <1>3. ManifestNames'
    BY DEF FilesInv, ManifestNames
  <1>4. Progress'
    <2>1. \A i \in DOMAIN clone : clone[i] \in DOMAIN heap /\ heap'[clone[i]].stored = heap[clone[i]].stored
      BY Indices
    <2>2. ASSUME Working', NEW i \in DOMAIN segments', heap'[segments'[i]].stored # NoFile
          PROVE  \E j \in DOMAIN clone' : clone'[j] = segments'[i]
      <3>1. PICK k \in DOMAIN segments : segments'[i] = segments[k]
        BY <2>2
      <3>2. Working /\ heap[segments[k]].stored # NoFile
        BY <2>2, <3>1, Indices DEF Working
      <3> QED
        BY <3>1, <3>2 DEF FilesInv, Progress
    <2>3. ~Working' => clone' = <<>>
      BY DEF FilesInv, Progress, Working
    <2>4. pc' = "segments" =>
           /\ position' \in 1 .. Len(clone') + 1
           /\ \A i \in 1 .. position' - 1 : heap'[clone'[i]].stored # NoFile
      <3> SUFFICES ASSUME pc' = "segments"
                   PROVE  /\ position \in 1 .. Len(clone) + 1
                          /\ \A i \in 1 .. position - 1 : heap'[clone[i]].stored # NoFile
                          /\ UNCHANGED position
        BY <2>1
      <3>1. pc = "segments" /\ UNCHANGED position
        OBVIOUS
      <3> QED
        BY <2>1, <3>1, Indices DEF FilesInv, Progress
    <2>5. pc' \in {"rotate", "manifest", "gc"} =>
             \A i \in DOMAIN clone' : heap'[clone'[i]].stored # NoFile
      BY <2>1 DEF FilesInv, Progress
    <2>6. pc' \in {"rotate", "manifest"} /\ meta' # {} =>
             MetaFile(generation') \in DOMAIN files' /\ files'[MetaFile(generation')] = meta'
      BY DEF FilesInv, Progress
    <2>7. pc' = "gc" =>
             \A i \in DOMAIN clone' : \E j \in DOMAIN manifest'.refs :
                 manifest'.refs[j].file = heap'[clone'[i]].stored
      BY <2>1 DEF FilesInv, Progress
    <2> QED
      BY <2>2, <2>3, <2>4, <2>5, <2>6, <2>7 DEF Progress
  <1> QED
    BY <1>1, <1>2, <1>3, <1>4 DEF FilesInv

LEMMA SealKeeps ==
  ASSUME Typed, NEW records \in SUBSET Record, SealBuffer(records)
  PROVE  SegmentsKept
  <1>0. heap \in Seq(SegmentType) /\ segments \in Seq(DOMAIN heap)
    BY DEF Typed, MemoryTyped
  <1>1. CASE records = {}
    BY <1>0, <1>1 DEF SealBuffer, SegmentsKept
  <1>2. CASE records # {}
    <2>1. heap' = Append(heap, NewSegment(records)) /\ segments' = Append(segments, Len(heap) + 1)
      BY <1>2 DEF SealBuffer
    <2>2. /\ Len(heap) \in Nat /\ DOMAIN heap = 1 .. Len(heap)
          /\ DOMAIN heap' = 1 .. Len(heap) + 1
          /\ \A s \in DOMAIN heap : heap'[s] = heap[s]
          /\ heap'[Len(heap) + 1].stored = NoFile
      BY <1>0, <2>1, NewTyped, Grown DEF NewSegment
    <2>3. /\ DOMAIN segments' = 1 .. Len(segments) + 1 /\ Len(segments) \in Nat
          /\ \A i \in 1 .. Len(segments) : segments'[i] = segments[i] /\ i \in DOMAIN segments
          /\ segments'[Len(segments) + 1] = Len(heap) + 1
      BY <1>0, <2>1
    <2> QED
      BY <2>2, <2>3 DEF SegmentsKept
  <1> QED
    BY <1>1, <1>2

LEMMA InsertKeeps ==
  ASSUME Typed, NEW r \in Record, ApplyInsert(r)
  PROVE  SegmentsKept
  <1>1. CASE UNCHANGED <<heap, segments>>
    <2>1. heap \in Seq(SegmentType) /\ segments \in Seq(DOMAIN heap)
      BY DEF Typed, MemoryTyped
    <2> QED
      BY <1>1, <2>1 DEF SegmentsKept
  <1>2. CASE SealBuffer(buffer \cup {r})
    <2>1. buffer \cup {r} \in SUBSET Record
      BY DEF Typed, MemoryTyped
    <2> QED
      BY <1>2, <2>1, SealKeeps
  <1> QED
    BY <1>1, <1>2 DEF ApplyInsert

LEMMA DeleteKeeps ==
  ASSUME Typed, NEW id \in Ids, ApplyDelete(id)
  PROVE  SegmentsKept
  <1>0. heap \in Seq(SegmentType) /\ segments \in Seq(DOMAIN heap) /\ segments' = segments
    BY DEF Typed, MemoryTyped, ApplyDelete, DeleteVectorOnly
  <1>1. CASE UNCHANGED heap
    BY <1>0, <1>1 DEF SegmentsKept
  <1>2. CASE heap' = [s \in DOMAIN heap |->
                         IF \E i \in DOMAIN segments : IsNewest(i, id) /\ segments[i] = s
                         THEN [heap[s] EXCEPT !.dead = @ \cup {id}] ELSE heap[s]]
    <2>1. ASSUME NEW s \in DOMAIN heap
          PROVE  heap'[s].stored = heap[s].stored /\ heap'[s].data = heap[s].data
      <3>1. heap[s] \in SegmentType
        BY <1>0
      <3> QED
        BY <1>2, <3>1 DEF SegmentType
    <2> QED
      BY <1>0, <1>2, <2>1 DEF SegmentsKept
  <1> QED
    BY <1>1, <1>2 DEF ApplyDelete, DeleteVectorOnly

(* What a merge leaves: the other segments in their order, then the new    *)
(* one, with the live records of both.                                     *)
Merges(i, j, n, m, f) ==
    /\ n \in Nat /\ m \in Nat /\ m = n - 2 /\ DOMAIN segments = 1 .. n
    /\ i \in 1 .. n /\ j \in 1 .. n /\ i # j
    /\ \A k \in 1 .. m : f[k] \in (1 .. n) \ {i, j}
    /\ \A k, l \in 1 .. m : k < l => f[k] < f[l]
    /\ \A k \in (1 .. n) \ {i, j} : \E l \in 1 .. m : f[l] = k
    /\ DOMAIN segments' = 1 .. m + 1
    /\ \A k \in 1 .. m : segments'[k] = segments[f[k]]
    /\ segments'[m + 1] = Len(heap) + 1
    /\ Len(heap) \in Nat /\ DOMAIN heap = 1 .. Len(heap)
    /\ DOMAIN heap' = 1 .. Len(heap) + 1
    /\ \A s \in DOMAIN heap : heap'[s] = heap[s]
    /\ heap'[Len(heap) + 1] = NewSegment(Live(heap[segments[i]]) \cup Live(heap[segments[j]]))

LEMMA Merged ==
  ASSUME Typed, Merge
  PROVE  \E i, j, n, m, f : Merges(i, j, n, m, f)
  <1>0. heap \in Seq(SegmentType) /\ segments \in Seq(DOMAIN heap) /\ MemoryTyped
    BY DEF Typed, MemoryTyped
  <1>1. PICK i \in DOMAIN segments, j \in DOMAIN segments :
           /\ i # j
           /\ heap' = Append(heap, NewSegment(Live(heap[segments[i]]) \cup Live(heap[segments[j]])))
           /\ segments' = Append(Unlisted(i, j), Len(heap) + 1)
    BY DEF Merge
  <1>2. Live(heap[segments[i]]) \cup Live(heap[segments[j]]) \in SUBSET Record
    BY <1>0, LiveTyped
  <1>3. /\ Len(heap) \in Nat /\ DOMAIN heap = 1 .. Len(heap)
        /\ DOMAIN heap' = 1 .. Len(heap) + 1
        /\ \A s \in DOMAIN heap : heap'[s] = heap[s]
        /\ heap'[Len(heap) + 1] =
               NewSegment(Live(heap[segments[i]]) \cup Live(heap[segments[j]]))
    BY <1>0, <1>1, <1>2, NewTyped, Grown
  <1>4. PICK n, m, left, f : Leaves(i, j, n, m, left, f)
    BY <1>0, <1>1, UnlistedOrder
  <1>5. segments' = Append(left, Len(heap) + 1)
    BY <1>1, <1>4 DEF Leaves
  <1>6. /\ DOMAIN segments' = 1 .. m + 1
        /\ \A k \in 1 .. m : segments'[k] = left[k]
        /\ segments'[m + 1] = Len(heap) + 1
    <2>1. left \in Seq(Nat) /\ Len(left) = m
      BY <1>3, <1>4, SeqMonotonic DEF Leaves
    <2> QED
      BY <1>3, <1>5, <2>1
  <1>7. \A k \in 1 .. m : segments'[k] = segments[f[k]]
    BY <1>4, <1>6 DEF Leaves
  <1>8. Merges(i, j, n, m, f)
    BY <1>1, <1>3, <1>4, <1>6, <1>7 DEF Merges, Leaves
  <1> QED
    BY <1>8

LEMMA MergeKeeps ==
  ASSUME Typed, Merge
  PROVE  SegmentsKept
  <1>1. PICK i, j, n, m, f : Merges(i, j, n, m, f)
    BY Merged
  <1>2. heap'[Len(heap) + 1].stored = NoFile
    BY <1>1 DEF NewSegment, Merges
  <1>3. ASSUME NEW k \in DOMAIN segments', heap'[segments'[k]].stored # NoFile
        PROVE  \E l \in DOMAIN segments : segments'[k] = segments[l]
    <2>1. k \in 1 .. m
      BY <1>1, <1>2, <1>3 DEF Merges
    <2>2. f[k] \in DOMAIN segments /\ segments'[k] = segments[f[k]]
      BY <1>1, <2>1 DEF Merges
    <2> QED
      BY <2>2
  <1> QED
    BY <1>1, <1>2, <1>3 DEF SegmentsKept, Merges

LEMMA WritesFiles ==
  ASSUME Typed, FilesInv, Typed', NEW id \in Ids, Insert(id) \/ Delete(id) \/ AppendFails(id)
  PROVE  FilesInv'
  <1>1. pc = "serving" /\ UNCHANGED <<generation, clone, files, manifest, pc>>
    BY DEF Insert, Delete, AppendFails, Accepts
  <1>2. SegmentsKept
    <2>1. CASE Insert(id)
      <3>1. <<id, inserted[id] + 1>> \in Record
        BY <2>1, Constants DEF Insert, Typed, WriterTyped, Record, Vectors
      <3> QED
        BY <2>1, <3>1, InsertKeeps DEF Insert
    <2>2. CASE Delete(id)
      BY <2>2, DeleteKeeps DEF Delete
    <2>3. CASE AppendFails(id)
      <3>1. heap \in Seq(SegmentType) /\ segments \in Seq(DOMAIN heap)
        BY DEF Typed, MemoryTyped
      <3> QED
        BY <2>3, <3>1 DEF AppendFails, SegmentsKept
    <2> QED
      BY <2>1, <2>2, <2>3
  <1> QED
    BY <1>1, <1>2, Rearranged

LEMMA ReplayEntry ==
  ASSUME Typed, ReplayOne
  PROVE  /\ position \in 1 .. Len(Log.recs) /\ Log.recs[position] \in Entry
         /\ \/ /\ Log.recs[position].op = "insert" /\ Log.recs[position].rec \in Record
               /\ ApplyInsert(Log.recs[position].rec)
            \/ /\ Log.recs[position].op = "delete" /\ Log.recs[position].rec[1] \in Ids
               /\ ApplyDelete(Log.recs[position].rec[1])
  <1>1. PICK recs : recs = Log.recs
    OBVIOUS
  <1>2. recs \in Seq(Entry \cup {Torn})
    BY <1>1 DEF Typed, LogsTyped, LogType, FilesTyped, ManifestType, Log
  <1>3. position \in 1 .. Len(recs)
    BY <1>1, <1>2 DEF ReplayOne, Typed, WriterTyped
  <1>4. recs[position] \in Entry
    BY <1>1, <1>2, <1>3 DEF ReplayOne, Typed, FilesTyped
  <1>5. \/ recs[position].op = "insert" /\ ApplyInsert(recs[position].rec)
        \/ recs[position].op = "delete" /\ ApplyDelete(recs[position].rec[1])
    BY <1>1 DEF ReplayOne
  <1> QED
    BY <1>1, <1>3, <1>4, <1>5, Entries

LEMMA ReplayFiles ==
  ASSUME Typed, FilesInv, Typed', ReplayOne
  PROVE  FilesInv'
  <1>1. pc = "replay" /\ pc' \in {"replay", "refused"} /\ UNCHANGED <<generation, clone, files, manifest>>
    BY DEF ReplayOne
  <1>2. SegmentsKept
    BY ReplayEntry, InsertKeeps, DeleteKeeps
  <1> QED
    BY <1>1, <1>2, Rearranged

LEMMA MergeFiles ==
  ASSUME Typed, FilesInv, Typed', Merge
  PROVE  FilesInv'
  <1>1. UNCHANGED <<generation, clone, files, manifest, pc, position, meta>>
    BY DEF Merge
  <1> QED
    BY <1>1, MergeKeeps, Rearranged

LEMMA StartFiles ==
  ASSUME Typed, FilesInv, Typed', StartCheckpoint
  PROVE  FilesInv'
  <1>1. SegmentsKept
    BY SealKeeps DEF StartCheckpoint, Typed, MemoryTyped
  <1>2. /\ pc = "serving" /\ pc' = "segments" /\ position' = 1 /\ clone' = segments'
        /\ generation' = generation + 1 /\ UNCHANGED <<files, manifest, meta>>
    BY DEF StartCheckpoint
  <1>3. \A i \in DOMAIN segments' : OnDisk(segments[i])'
    <2> SUFFICES ASSUME NEW i \in DOMAIN segments', heap'[segments'[i]].stored # NoFile
                 PROVE  OnDisk(segments[i])'
      BY DEF OnDisk
    <2>1. PICK k \in DOMAIN segments : segments'[i] = segments[k]
      BY <1>1 DEF SegmentsKept
    <2> QED
      BY <1>1, <1>2, <2>1, Indices DEF FilesInv, ListedOnDisk, OnDisk, SegmentsKept
  <1>4. ListedOnDisk'
    BY <1>2, <1>3 DEF ListedOnDisk, OnDisk
  <1>5. NamesUsed'
    <2> SUFFICES ASSUME NEW s \in DOMAIN heap', heap'[s].stored # NoFile
                 PROVE  /\ heap'[s].stored[1] <= generation' /\ heap'[s].stored[1] # generation'
                        /\ heap'[s].stored[2] # 0
      BY DEF NamesUsed
    <2>1. s \in DOMAIN heap /\ heap'[s].stored = heap[s].stored
      BY <1>1 DEF SegmentsKept
    <2>2. heap[s].stored[1] <= generation /\ heap[s].stored[2] # 0 /\ heap[s].stored[1] \in Nat
      BY <2>1, Indices DEF FilesInv, NamesUsed, FileName, Generations
    <2> QED
      BY <1>2, <2>1, <2>2, Indices
  <1>6. ManifestNames'
    BY <1>2, Indices DEF FilesInv, ManifestNames
  <1>7. Progress'
    <2>1. position' \in 1 .. Len(clone') + 1
      BY <1>2 DEF Typed, MemoryTyped
    <2> QED
      BY <1>2, <2>1 DEF Progress, Working
  <1> QED
    BY <1>4, <1>5, <1>6, <1>7 DEF FilesInv

LEMMA SegmentFiles ==
  ASSUME Typed, FilesInv, Typed', WriteSegment
  PROVE  FilesInv'
  <1>0. PICK s, name : s = clone[position] /\ name = <<generation, position>>
    OBVIOUS
  <1>1. /\ pc = "segments" /\ pc' = "segments" /\ position \in 1 .. Len(clone) /\ s \in DOMAIN heap
        /\ position' = position + 1
        /\ UNCHANGED <<segments, clone, generation, meta, manifest>>
    BY <1>0, Indices DEF WriteSegment, FilesInv, Progress
  <1>2. CASE heap[s].stored # NoFile
    <2>1. UNCHANGED <<files, heap>>
      BY <1>0, <1>2 DEF WriteSegment
    <2>2. ListedOnDisk' /\ ManifestNames'
      BY <1>1, <2>1 DEF FilesInv, ListedOnDisk, OnDisk, ManifestNames
    <2>3. NamesUsed'
      BY <1>1, <2>1, Indices DEF FilesInv, NamesUsed, FileName
    <2>4. Progress'
      <3>1. \A i \in 1 .. position' - 1 : heap[clone[i]].stored # NoFile
        BY <1>0, <1>1, <1>2, Indices DEF FilesInv, Progress
      <3> QED
        BY <1>1, <2>1, <3>1, Indices DEF FilesInv, Progress, Working
    <2> QED
      BY <2>2, <2>3, <2>4 DEF FilesInv
  <1>3. CASE heap[s].stored = NoFile
    <2>1. files' = Written(name, heap[s].data) /\ heap' = [heap EXCEPT ![s].stored = name]
      BY <1>0, <1>3 DEF WriteSegment
    <2>2. /\ DOMAIN heap' = DOMAIN heap
          /\ heap'[s].stored = name /\ heap'[s].data = heap[s].data
          /\ \A t \in DOMAIN heap : t # s => heap'[t] = heap[t]
      BY <1>1, <2>1, Indices DEF SegmentType
    <2>3. /\ name \in DOMAIN files' /\ files'[name] = heap[s].data
          /\ \A f \in DOMAIN files : f \in DOMAIN files' /\ (f # name => files'[f] = files[f])
      BY <2>1 DEF Written
    <2>4. \A t \in DOMAIN heap : heap[t].stored # NoFile => heap[t].stored # name
      BY <1>0, <1>1, Indices DEF FilesInv, NamesUsed
    <2>5. name # NoFile /\ name[1] = generation /\ name[2] = position
      BY <1>0, <1>1 DEF NoFile
    <2>6. \A t \in DOMAIN heap : OnDisk(t) => OnDisk(t)'
      BY <2>2, <2>3, <2>4 DEF OnDisk
    <2>7. ListedOnDisk'
      BY <1>1, <2>6, Indices DEF FilesInv, ListedOnDisk
    <2>8. NamesUsed'
      <3>1. ASSUME NEW t \in DOMAIN heap', heap'[t].stored # NoFile
            PROVE  /\ heap'[t].stored[1] <= generation /\ heap'[t].stored[2] # 0
                   /\ heap'[t].stored[1] = generation => heap'[t].stored[2] < position + 1
        <4>1. CASE t = s
          BY <1>1, <2>2, <2>5, <4>1, Indices
        <4>2. CASE t # s
          <5>1. heap'[t].stored = heap[t].stored /\ heap[t].stored[2] \in Nat /\ t \in DOMAIN heap
            BY <2>2, <4>2, Indices DEF FileName
          <5> QED
            BY <1>1, <3>1, <5>1, Indices DEF FilesInv, NamesUsed
        <4> QED
          BY <4>1, <4>2
      <3> QED
        BY <1>1, <3>1 DEF NamesUsed
    <2>9. ManifestNames'
      BY <1>1, <2>3 DEF FilesInv, ManifestNames
    <2>10. Progress'
      <3>1. \A t \in DOMAIN heap : heap[t].stored # NoFile => heap'[t].stored # NoFile
        BY <2>2, <2>5
      <3>2. ASSUME NEW i \in 1 .. position' - 1 PROVE heap'[clone[i]].stored # NoFile
        <4>1. CASE i = position
          BY <1>0, <2>2, <2>5, <4>1
        <4>2. CASE i # position
          <5>1. i \in 1 .. position - 1 /\ clone[i] \in DOMAIN heap
            BY <1>1, <4>2, Indices
          <5> QED
            BY <1>1, <3>1, <5>1 DEF FilesInv, Progress
        <4> QED
          BY <4>1, <4>2
      <3>3. ASSUME NEW i \in DOMAIN segments, heap'[segments[i]].stored # NoFile
            PROVE  \E j \in DOMAIN clone : clone[j] = segments[i]
        <4>1. CASE segments[i] = s
          BY <1>0, <1>1, <4>1, Indices
        <4>2. CASE segments[i] # s
          BY <1>1, <2>2, <3>3, <4>2, Indices DEF FilesInv, Progress, Working
        <4> QED
          BY <4>1, <4>2
      <3> QED
        BY <1>1, <3>2, <3>3, Indices DEF Progress, Working
    <2> QED
      BY <2>7, <2>8, <2>9, <2>10 DEF FilesInv
  <1> QED
    BY <1>2, <1>3

LEMMA MetadataFiles ==
  ASSUME Typed, FilesInv, Typed', WriteMetadata
  PROVE  FilesInv'
  <1>0. PICK name : name = MetaFile(generation)
    OBVIOUS
  <1>1. /\ pc = "segments" /\ pc' = "rotate" /\ position = Len(clone) + 1
        /\ UNCHANGED <<heap, segments, clone, generation, meta, manifest, position>>
    BY Indices DEF WriteMetadata, FilesInv, Progress
  <1>2. UNCHANGED files \/ (meta # {} /\ files' = Written(name, meta))
    BY <1>0 DEF WriteMetadata
  <1>3. /\ \A f \in DOMAIN files : f \in DOMAIN files' /\ (f # name => files'[f] = files[f])
        /\ meta # {} => name \in DOMAIN files' /\ files'[name] = meta
    BY <1>0, <1>2 DEF Written, WriteMetadata
  <1>4. name[1] = generation /\ name[2] = 0
    BY <1>0 DEF MetaFile
  <1>5. \A t \in DOMAIN heap : OnDisk(t) => OnDisk(t)'
    BY <1>1, <1>3, <1>4 DEF OnDisk, FilesInv, NamesUsed
  <1>6. ListedOnDisk'
    BY <1>1, <1>5, Indices DEF FilesInv, ListedOnDisk
  <1>7. NamesUsed'
    BY <1>1 DEF FilesInv, NamesUsed
  <1>8. ManifestNames'
    BY <1>1, <1>3 DEF FilesInv, ManifestNames
  <1>9. Progress'
    <2>1. \A i \in DOMAIN clone : heap[clone[i]].stored # NoFile
      BY <1>1, Indices DEF FilesInv, Progress
    <2> QED
      BY <1>0, <1>1, <1>3, <2>1 DEF FilesInv, Progress, Working
  <1> QED
    BY <1>6, <1>7, <1>8, <1>9 DEF FilesInv

LEMMA ManifestFiles ==
  ASSUME Typed, FilesInv, Typed', WriteManifest
  PROVE  FilesInv'
  <1>1. /\ pc = "manifest" /\ pc' = "gc" /\ manifest' = NextManifest
        /\ UNCHANGED <<heap, segments, clone, generation, meta, files, position>>
    BY DEF WriteManifest
  <1>2. /\ DOMAIN manifest'.refs = DOMAIN clone
        /\ \A i \in DOMAIN clone : manifest'.refs[i].file = heap[clone[i]].stored
        /\ manifest'.meta = IF meta = {} THEN NoFile ELSE MetaFile(generation)
        /\ manifest'.generation = generation
    BY <1>1 DEF NextManifest, SegmentRef
  <1>3. \A i \in DOMAIN clone : heap[clone[i]].stored # NoFile
    BY <1>1 DEF FilesInv, Progress
  <1>4. ListedOnDisk' /\ NamesUsed'
    BY <1>1 DEF FilesInv, ListedOnDisk, OnDisk, NamesUsed
  <1>5. ManifestNames'
    <2>1. ASSUME NEW i \in DOMAIN clone
          PROVE  heap[clone[i]].stored \in DOMAIN files /\ heap[clone[i]].stored[1] <= generation
                 /\ heap[clone[i]].stored[2] # 0
      BY <1>3, Indices DEF FilesInv, ListedOnDisk, OnDisk, NamesUsed
    <2>2. meta # {} => MetaFile(generation) \in DOMAIN files /\ MetaFile(generation)[1] <= generation
      BY <1>1, Indices DEF FilesInv, Progress, MetaFile
    <2> QED
      BY <1>1, <1>2, <2>1, <2>2, Indices DEF ManifestNames
  <1>6. Progress'
    BY <1>1, <1>2, <1>3 DEF FilesInv, Progress, Working
  <1> QED
    BY <1>4, <1>5, <1>6 DEF FilesInv

LEMMA GcFiles ==
  ASSUME Typed, FilesInv, Typed', GcRemove
  PROVE  FilesInv'
  <1>1. /\ pc = "gc"
        /\ UNCHANGED <<heap, segments, clone, generation, meta, manifest, position, pc>>
    BY DEF GcRemove
  <1>2. \A f \in DOMAIN files : f \in Referenced => f \in DOMAIN files' /\ files'[f] = files[f]
    BY DEF GcRemove
  <1>3. \A i \in DOMAIN clone : heap[clone[i]].stored \in Referenced
    BY <1>1 DEF FilesInv, Progress, Referenced
  <1>4. \A i \in DOMAIN segments : heap[segments[i]].stored # NoFile =>
            heap[segments[i]].stored \in Referenced
    BY <1>1, <1>3 DEF FilesInv, Progress, Working
  <1>5. ListedOnDisk'
    BY <1>1, <1>2, <1>3, <1>4 DEF FilesInv, ListedOnDisk, OnDisk
  <1>6. NamesUsed'
    BY <1>1 DEF FilesInv, NamesUsed
  <1>7. ManifestNames'
    BY <1>1, <1>2 DEF FilesInv, ManifestNames, Referenced
  <1>8. Progress'
    BY <1>1 DEF FilesInv, Progress, Working
  <1> QED
    BY <1>5, <1>6, <1>7, <1>8 DEF FilesInv

LEMMA OpenFiles ==
  ASSUME Typed, FilesInv, Typed', Open
  PROVE  FilesInv'
  <1>0. PICK refs : refs = manifest.refs
    OBVIOUS
  <1>1. /\ pc = "down" /\ pc' = "replay" /\ clone' = clone
        /\ generation' = manifest.generation /\ UNCHANGED <<files, manifest>>
        /\ heap' = [i \in DOMAIN refs |-> [data |-> files[refs[i].file],
                                           dead |-> refs[i].dead, stored |-> refs[i].file]]
    BY <1>0 DEF Open
  <1>2. clone' = <<>>
    BY <1>1 DEF Typed, WriterTyped
  <1>3. \A i \in DOMAIN heap' : OnDisk(i)'
    BY <1>0, <1>1 DEF OnDisk, FilesInv, ManifestNames
  <1>4. ListedOnDisk'
    <2>1. \A i \in DOMAIN segments' : segments'[i] \in DOMAIN heap'
      BY DEF Typed, MemoryTyped
    <2> QED
      BY <1>2, <1>3, <2>1 DEF ListedOnDisk
  <1>5. NamesUsed'
    BY <1>0, <1>1 DEF FilesInv, ManifestNames, NamesUsed
  <1>6. ManifestNames'
    BY <1>1, Indices DEF FilesInv, ManifestNames
  <1>7. Progress'
    BY <1>1, <1>2 DEF Progress, Working
  <1> QED
    BY <1>4, <1>5, <1>6, <1>7 DEF FilesInv

LEMMA ForgetFiles ==
  ASSUME Typed, FilesInv, Typed', Forget
  PROVE  FilesInv'
  <1>1. /\ pc' = "down" /\ heap' = <<>> /\ segments' = <<>> /\ clone' = <<>> /\ generation' = 0
        /\ UNCHANGED <<files, manifest>>
    BY DEF Forget
  <1>2. ListedOnDisk' /\ NamesUsed'
    BY <1>1 DEF ListedOnDisk, NamesUsed
  <1>3. ManifestNames'
    BY <1>1 DEF FilesInv, ManifestNames
  <1>4. Progress'
    BY <1>1 DEF Progress, Working
  <1> QED
    BY <1>2, <1>3, <1>4 DEF FilesInv

LEMMA ReturnFiles ==
  ASSUME Typed, FilesInv, Typed', GcDone \/ CheckpointFails
  PROVE  FilesInv'
  <1>1. /\ Working /\ pc' = "serving" /\ clone' = <<>>
        /\ UNCHANGED <<heap, segments, generation, meta, files, manifest>>
    BY DEF GcDone, CheckpointFails, Return, Working
  <1>2. ListedOnDisk'
    BY <1>1 DEF FilesInv, ListedOnDisk, OnDisk
  <1>3. NamesUsed' /\ ManifestNames'
    BY <1>1 DEF FilesInv, NamesUsed, ManifestNames, Working
  <1>4. Progress'
    BY <1>1 DEF Progress, Working
  <1> QED
    BY <1>2, <1>3, <1>4 DEF FilesInv

LEMMA QuietFiles ==
  ASSUME Typed, FilesInv, UNCHANGED vars \/ EndBatch \/ Shutdown \/ RotateWal \/ FinishReplay
  PROVE  FilesInv'
  <1>1. /\ UNCHANGED <<heap, segments, clone, generation, meta, files, manifest>>
        /\ \/ UNCHANGED <<pc, position>>
           \/ pc = "rotate" /\ pc' = "manifest"
           \/ pc = "replay" /\ pc' = "serving"
    BY DEF EndBatch, Shutdown, RotateWal, FinishReplay
  <1>2. ListedOnDisk' /\ NamesUsed' /\ ManifestNames'
    BY <1>1 DEF FilesInv, ListedOnDisk, OnDisk, NamesUsed, ManifestNames
  <1>3. Progress'
    BY <1>1 DEF FilesInv, Progress, Working
  <1> QED
    BY <1>2, <1>3 DEF FilesInv

LEMMA DiskStep == DiskInv /\ [Next]_vars => DiskInv'
  <1> SUFFICES ASSUME DiskInv, [Next]_vars PROVE DiskInv'
    OBVIOUS
  <1>1. Typed /\ FilesInv /\ Typed'
    BY TypedStep DEF DiskInv
  <1>2. FilesInv'
    <2>1. ASSUME NEW id \in Ids, Insert(id) \/ Delete(id) \/ AppendFails(id) PROVE FilesInv'
      BY <1>1, <2>1, WritesFiles
    <2>2. CASE UNCHANGED vars \/ EndBatch \/ Shutdown \/ RotateWal \/ FinishReplay
      BY <1>1, <2>2, QuietFiles
    <2>3. CASE Merge
      BY <1>1, <2>3, MergeFiles
    <2>4. CASE StartCheckpoint
      BY <1>1, <2>4, StartFiles
    <2>5. CASE WriteSegment
      BY <1>1, <2>5, SegmentFiles
    <2>6. CASE WriteMetadata
      BY <1>1, <2>6, MetadataFiles
    <2>7. CASE WriteManifest
      BY <1>1, <2>7, ManifestFiles
    <2>8. CASE GcRemove
      BY <1>1, <2>8, GcFiles
    <2>9. CASE GcDone \/ CheckpointFails
      BY <1>1, <2>9, ReturnFiles
    <2>10. CASE ProcessCrash \/ MachineCrash
      BY <1>1, <2>10, ForgetFiles DEF ProcessCrash, MachineCrash
    <2>11. CASE Open
      BY <1>1, <2>11, OpenFiles
    <2>12. CASE ReplayOne
      BY <1>1, <2>12, ReplayFiles
    <2> QED
      BY <2>1, <2>2, <2>3, <2>4, <2>5, <2>6, <2>7, <2>8, <2>9, <2>10, <2>11, <2>12 DEF Next
  <1> QED
    BY <1>1, <1>2 DEF DiskInv

LEMMA DiskInvariant == Spec => []DiskInv
  <1>1. Init => DiskInv
    BY InitTyped, InitFiles DEF DiskInv
  <1>2. DiskInv /\ [Next]_vars => DiskInv'
    BY DiskStep
  <1> QED
    BY <1>1, <1>2, PTL DEF Spec

(* Whatever call fails and wherever a crash falls, the manifest on disk    *)
(* names files that are there: checkpoint's order of writes and the        *)
(* collection of old files keep it so.                                     *)
THEOREM ManifestIsComplete == Spec => []ManifestComplete
  <1>1. DiskInv => ManifestComplete
    <2> SUFFICES ASSUME DiskInv PROVE ManifestComplete
      OBVIOUS
    <2> QED
      BY DEF DiskInv, FilesInv, ManifestNames, ManifestComplete, AllNamedExist
  <1> QED
    BY <1>1, DiskInvariant, PTL

(* What a segment of the list believes to be stored is on disk with its    *)
(* records, though names are used again when a checkpoint did not finish.  *)
THEOREM StoredStaysOnDisk == Spec => []StoredIsOnDisk
  <1>1. DiskInv => StoredIsOnDisk
    BY DEF DiskInv, FilesInv, ListedOnDisk, OnDisk, StoredIsOnDisk
  <1> QED
    BY <1>1, DiskInvariant, PTL
=============================================================================

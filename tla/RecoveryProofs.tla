--------------------------- MODULE RecoveryProofs ---------------------------
(***************************************************************************)
(* What is proved of starts after a crash: as long as no append and no     *)
(* manifest write fails, replay never meets a record it cannot apply, and  *)
(* the records and their metadata that the server has are what a start     *)
(* would give back.  (With such failures neither holds: runs dur_retry and *)
(* dur_rotation.)                                                          *)
(***************************************************************************)
EXTENDS DurabilityProofs

-----------------------------------------------------------------------------
(* Memory.  A live id is in one place, and no newer segment has it: the    *)
(* tombstone of a delete, or of a replayed one, always lands on it.        *)
NewestLive(list) ==
    \A i, j \in DOMAIN list : i < j =>
        \A r \in Live(heap[list[i]]), q \in heap[list[j]].data : r[1] # q[1]
ListLive(list) == UNION { Live(heap[list[i]]) : i \in DOMAIN list }
OneLive ==
    /\ \A r, q \in Content : r[1] = q[1] => r = q
    /\ \A r \in buffer, i \in DOMAIN segments : \A q \in Live(heap[segments[i]]) : r[1] # q[1]
    /\ NewestLive(segments)

Up == pc \in {"serving", "replay"} \/ Working
MetaInStep == Up => meta = Content

(* The log the manifest names is the one appended to, but between the      *)
(* rotation and the manifest; all later logs are empty.                    *)
LogsNamed ==
    /\ manifest.wal = manifest.generation
    /\ pc # "down" => active = IF pc = "manifest" THEN generation ELSE manifest.wal
    /\ \A g \in Generations : g > manifest.wal => logs[g] = EmptyLog
    /\ \A i \in DOMAIN Log.recs : Log.recs[i] = Torn => i = Len(Log.recs) /\ pc = "down"

(* Every record of the log could be applied to what the ones before gave. *)
Fits(entry, content) ==
    /\ entry.op = "insert" => entry.rec[1] \notin IdsOf(content)
    /\ entry.op = "delete" => entry.rec[1] \in IdsOf(content)
LogFits ==
    \A n \in 1 .. Len(Log.recs) : Log.recs[n] # Torn => Fits(Log.recs[n], Restored(n - 1))

(* What the disk would give back is what callers see. *)
InCheckpoint == pc \in {"segments", "rotate", "manifest"}
Recoverable ==
    /\ pc = "serving" \/ Working => Content = Restored(Len(Log.recs))
    /\ pc = "replay" => position \in 1 .. Len(Log.recs) + 1 /\ Content = Restored(position - 1)
    /\ InCheckpoint => Content = ListLive(clone) /\ NewestLive(clone)
    /\ InCheckpoint \/ pc = "down" => buffer = {}

(* The files of the manifest are the segments and the metadata of one moment. *)
Loaded(i) == { r \in files[manifest.refs[i].file] : r[1] \notin manifest.refs[i].dead }
ManifestFits ==
    /\ \A r, q \in Checkpointed : r[1] = q[1] => r = q
    /\ \A i, j \in DOMAIN manifest.refs : i < j =>
           \A r \in Loaded(i), q \in files[manifest.refs[j].file] : r[1] # q[1]
    /\ Checkpointed = IF manifest.meta = NoFile THEN {} ELSE files[manifest.meta]

RecoveryInv ==
    /\ pc # "refused"
    /\ OneLive /\ MetaInStep /\ LogsNamed /\ LogFits /\ Recoverable /\ ManifestFits
RInv == DiskInv /\ RecoveryInv

LogReliable == "append" \notin Faults /\ "manifest" \notin Faults

-----------------------------------------------------------------------------
USE DEF vars, config, memory, walVars, ckptVars, disk, bounds

(* What a recovery would give back. *)

LEMMA LogTyped ==
  ASSUME Typed
  PROVE  /\ manifest.wal \in Generations /\ Log \in LogType
         /\ Log.recs \in Seq(Entry \cup {Torn}) /\ Len(Log.recs) \in Nat
         /\ DOMAIN Log.recs = 1 .. Len(Log.recs)
  <1>1. manifest.wal \in Generations /\ Log \in LogType
    BY DEF Typed, FilesTyped, ManifestType, LogsTyped, Log
  <1> QED
    BY <1>1 DEF LogType

LEMMA LogTypedNext ==
  ASSUME Typed'
  PROVE  /\ manifest'.wal \in Generations /\ Log' \in LogType
         /\ Log'.recs \in Seq(Entry \cup {Torn}) /\ Len(Log'.recs) \in Nat
         /\ DOMAIN Log'.recs = 1 .. Len(Log'.recs)
  <1>1. manifest'.wal \in Generations
    BY DEF Typed, FilesTyped, ManifestType
  <1>2. logs'[manifest'.wal] \in LogType
    BY <1>1 DEF Typed, LogsTyped
  <1> QED
    BY <1>1, <1>2 DEF Log, LogType

LEMMA RestoredNone == Restored(0) = Checkpointed
  BY DEF Restored

(* Restored, of any checkpoint and any records. *)
Recovered(base, recs, n) ==
    { r \in base : ~ \E i \in 1 .. n : recs[i].rec[1] = r[1] }
    \cup { recs[i].rec : i \in { j \in 1 .. n :
               recs[j].op = "insert" /\ ~ \E i \in j + 1 .. n : recs[i].rec[1] = recs[j].rec[1] } }

LEMMA RestoredIs ==
  ASSUME NEW n
  PROVE  /\ Restored(n) = Recovered(Checkpointed, Log.recs, n)
         /\ Restored(n)' = Recovered(Checkpointed', Log'.recs, n)
  BY DEF Restored, Recovered

(* What record n + 1 does to what the ones before it gave. *)
Replays(base, recs, n) ==
    LET entry == recs[n + 1]
    IN  Recovered(base, recs, n + 1) =
            { r \in Recovered(base, recs, n) : r[1] # entry.rec[1] }
            \cup (IF entry.op = "insert" THEN {entry.rec} ELSE {})

LEMMA RecoveredNext ==
  ASSUME NEW base, NEW recs, NEW n \in Nat
  PROVE  Replays(base, recs, n)
  <1>1. PICK entry, id : entry = recs[n + 1] /\ id = entry.rec[1]
    OBVIOUS
  <1>2. PICK old : old = { q \in base : ~ \E i \in 1 .. n : recs[i].rec[1] = q[1] }
    OBVIOUS
  <1>3. PICK place : place = { j \in 1 .. n : recs[j].op = "insert"
                                /\ ~ \E i \in j + 1 .. n : recs[i].rec[1] = recs[j].rec[1] }
    OBVIOUS
  <1>4. Recovered(base, recs, n) = old \cup { recs[i].rec : i \in place }
    BY <1>2, <1>3 DEF Recovered
  <1>5. PICK old1 : old1 = { q \in base : ~ \E i \in 1 .. n + 1 : recs[i].rec[1] = q[1] }
    OBVIOUS
  <1>6. PICK place1 : place1 = { j \in 1 .. n + 1 : recs[j].op = "insert"
                                /\ ~ \E i \in j + 1 .. n + 1 : recs[i].rec[1] = recs[j].rec[1] }
    OBVIOUS
  <1>7. Recovered(base, recs, n + 1) = old1 \cup { recs[i].rec : i \in place1 }
    BY <1>5, <1>6 DEF Recovered
  <1>8. 1 .. n + 1 = (1 .. n) \cup {n + 1} /\ recs[n + 1] = entry
    BY <1>1
  <1>9. old1 = { q \in old : q[1] # id }
    BY <1>1, <1>2, <1>5, <1>8
  <1>10. \A j \in 1 .. n : j \in place1 <=> j \in place /\ recs[j].rec[1] # id
    <2> SUFFICES ASSUME NEW j \in 1 .. n
                 PROVE  j \in place1 <=> j \in place /\ recs[j].rec[1] # id
      OBVIOUS
    <2>1. j + 1 .. n + 1 = (j + 1 .. n) \cup {n + 1} /\ j \in 1 .. n + 1
      OBVIOUS
    <2> QED
      BY <1>1, <1>3, <1>6, <1>8, <2>1
  <1>11. n + 1 \in place1 <=> entry.op = "insert"
    <2>1. (n + 1) + 1 .. n + 1 = {} /\ n + 1 \in 1 .. n + 1
      OBVIOUS
    <2> QED
      BY <1>6, <1>8, <2>1
  <1>12. place1 \subseteq (1 .. n) \cup {n + 1} /\ place \subseteq 1 .. n
    BY <1>3, <1>6, <1>8
  <1>13. PICK kept : kept = { q \in { recs[i].rec : i \in place } : q[1] # id }
    OBVIOUS
  <1>14. { recs[i].rec : i \in place1 } =
            kept \cup (IF entry.op = "insert" THEN {entry.rec} ELSE {})
    BY <1>8, <1>10, <1>11, <1>12, <1>13
  <1> QED
    BY <1>1, <1>4, <1>7, <1>9, <1>13, <1>14 DEF Replays

(* Only the checkpoint and the records so far decide. *)
LEMMA RecoveredSame ==
  ASSUME NEW base, NEW recs, NEW new, NEW n \in Nat, \A i \in 1 .. n : new[i] = recs[i]
  PROVE  Recovered(base, new, n) = Recovered(base, recs, n)
  <1>1. PICK old, old1 :
            /\ old = { r \in base : ~ \E i \in 1 .. n : recs[i].rec[1] = r[1] }
            /\ old1 = { r \in base : ~ \E i \in 1 .. n : new[i].rec[1] = r[1] }
    OBVIOUS
  <1>2. PICK place, place1 :
            /\ place = { j \in 1 .. n : recs[j].op = "insert"
                            /\ ~ \E i \in j + 1 .. n : recs[i].rec[1] = recs[j].rec[1] }
            /\ place1 = { j \in 1 .. n : new[j].op = "insert"
                            /\ ~ \E i \in j + 1 .. n : new[i].rec[1] = new[j].rec[1] }
    OBVIOUS
  <1>3. /\ Recovered(base, recs, n) = old \cup { recs[i].rec : i \in place }
        /\ Recovered(base, new, n) = old1 \cup { new[i].rec : i \in place1 }
    BY <1>1, <1>2 DEF Recovered
  <1>4. old = old1
    BY <1>1
  <1>5. place = place1
    <2>1. \A j \in 1 .. n : \A i \in j + 1 .. n : i \in 1 .. n
      OBVIOUS
    <2> QED
      BY <1>2, <2>1
  <1>6. { recs[i].rec : i \in place } = { new[i].rec : i \in place }
    BY <1>2
  <1> QED
    BY <1>3, <1>4, <1>5, <1>6

LEMMA RestoredKept ==
  ASSUME UNCHANGED Checkpointed, NEW n \in Nat, \A i \in 1 .. n : Log'.recs[i] = Log.recs[i]
  PROVE  UNCHANGED Restored(n)
  <1>1. PICK recs, new : recs = Log.recs /\ new = Log'.recs
    OBVIOUS
  <1>2. Recovered(Checkpointed, new, n) = Recovered(Checkpointed, recs, n)
    BY <1>1, RecoveredSame
  <1> QED
    BY <1>1, <1>2, RestoredIs

-----------------------------------------------------------------------------
(* What callers see. *)

(* Contents and the order of the list depend on the records and tombstones *)
(* alone.                                                                  *)
RecordsKept ==
    \A s \in DOMAIN heap : /\ s \in DOMAIN heap'
                           /\ heap'[s].data = heap[s].data /\ heap'[s].dead = heap[s].dead

LEMMA ListKept ==
  ASSUME RecordsKept, NEW list \in Seq(DOMAIN heap)
  PROVE  UNCHANGED ListLive(list) /\ (NewestLive(list) => NewestLive(list)')
  <1>1. \A i \in DOMAIN list : list[i] \in DOMAIN heap
    OBVIOUS
  <1>2. \A i \in DOMAIN list : /\ heap'[list[i]].data = heap[list[i]].data
                               /\ heap'[list[i]].dead = heap[list[i]].dead
    BY <1>1 DEF RecordsKept
  <1>3. \A i \in DOMAIN list : Live(heap'[list[i]]) = Live(heap[list[i]])
    BY <1>2 DEF Live
  <1> QED
    BY <1>2, <1>3 DEF ListLive, NewestLive

LEMMA ContentKept ==
  ASSUME Typed, RecordsKept, UNCHANGED <<buffer, segments>>
  PROVE  UNCHANGED Content /\ (OneLive => OneLive')
  <1>1. segments \in Seq(DOMAIN heap)
    BY DEF Typed, MemoryTyped
  <1>2. \A i \in DOMAIN segments : Live(heap'[segments[i]]) = Live(heap[segments[i]])
    BY <1>1 DEF Live, RecordsKept
  <1>3. UNCHANGED Content
    BY <1>2 DEF Content
  <1>4. ASSUME NewestLive(segments) PROVE NewestLive(segments)'
    <2>1. \A i \in DOMAIN segments : heap'[segments[i]].data = heap[segments[i]].data
      BY <1>1 DEF RecordsKept
    <2> QED
      BY <1>2, <1>4, <2>1 DEF NewestLive
  <1> QED
    BY <1>2, <1>3, <1>4 DEF OneLive

LEMMA SealContent ==
  ASSUME Typed, NEW records \in SUBSET Record, SealBuffer(records),
         NewestLive(segments),
         \A i \in DOMAIN segments : \A q \in Live(heap[segments[i]]), r \in records : r[1] # q[1]
  PROVE  /\ Content' = records \cup ListLive(segments)
         /\ buffer' = {} /\ NewestLive(segments)' /\ RecordsKept
  <1>0. heap \in Seq(SegmentType) /\ segments \in Seq(DOMAIN heap) /\ buffer' = {}
    BY DEF Typed, MemoryTyped, SealBuffer
  <1>1. CASE records = {}
    <2>1. UNCHANGED <<heap, segments>>
      BY <1>1 DEF SealBuffer
    <2> QED
      BY <1>0, <1>1, <2>1 DEF Content, ListLive, NewestLive, RecordsKept
  <1>2. CASE records # {}
    <2>1. heap' = Append(heap, NewSegment(records)) /\ segments' = Append(segments, Len(heap) + 1)
      BY <1>2 DEF SealBuffer
    <2>2. /\ Len(heap) \in Nat /\ DOMAIN heap = 1 .. Len(heap)
          /\ DOMAIN heap' = 1 .. Len(heap) + 1
          /\ \A s \in DOMAIN heap : heap'[s] = heap[s]
          /\ heap'[Len(heap) + 1] = NewSegment(records)
      BY <1>0, <2>1, NewTyped, Grown
    <2>3. PICK n : n = Len(segments)
      OBVIOUS
    <2>4. /\ n \in Nat /\ DOMAIN segments = 1 .. n /\ DOMAIN segments' = 1 .. n + 1
          /\ \A i \in 1 .. n : segments'[i] = segments[i] /\ segments[i] \in DOMAIN heap
          /\ segments'[n + 1] = Len(heap) + 1
      BY <1>0, <2>1, <2>3
    <2>5. /\ \A i \in 1 .. n : heap'[segments'[i]] = heap[segments[i]]
          /\ heap'[segments'[n + 1]] = NewSegment(records)
      BY <2>2, <2>4
    <2>6. NewSegment(records).data = records /\ Live(NewSegment(records)) = records
      BY DEF NewSegment, Live
    <2>7. Content' = records \cup ListLive(segments)
      <3>1. 1 .. n + 1 = (1 .. n) \cup {n + 1}
        BY <2>4
      <3>2. PICK old, new : /\ old = [i \in 1 .. n |-> Live(heap[segments[i]])]
                            /\ new = [i \in 1 .. n + 1 |-> Live(heap'[segments'[i]])]
        OBVIOUS
      <3>3. new[n + 1] = records /\ \A i \in 1 .. n : new[i] = old[i]
        BY <2>4, <2>5, <2>6, <3>1, <3>2
      <3>4. ListLive(segments) = UNION { old[i] : i \in 1 .. n }
        BY <2>4, <3>2 DEF ListLive
      <3>5. Content' = UNION { new[i] : i \in 1 .. n + 1 }
        BY <1>0, <2>4, <3>2 DEF Content
      <3>6. UNION { new[i] : i \in 1 .. n + 1 } = records \cup UNION { old[i] : i \in 1 .. n }
        BY ONLY <3>1, <3>3
      <3> QED
        BY ONLY <3>4, <3>5, <3>6
    <2>8. ASSUME NEW i \in 1 .. n + 1, NEW j \in 1 .. n + 1, i < j,
                 NEW r \in Live(heap'[segments'[i]]), NEW q \in heap'[segments'[j]].data
          PROVE  r[1] # q[1]
      <3>1. i \in 1 .. n /\ r \in Live(heap[segments[i]])
        BY <2>4, <2>5, <2>8
      <3>2. CASE j \in 1 .. n
        BY <2>4, <2>5, <2>8, <3>1, <3>2 DEF NewestLive
      <3>3. CASE j = n + 1
        BY <2>4, <2>5, <2>6, <3>1, <3>3
      <3> QED
        BY <2>4, <3>2, <3>3
    <2>9. NewestLive(segments)'
      BY <2>4, <2>8 DEF NewestLive
    <2> QED
      BY <1>0, <2>2, <2>7, <2>9 DEF RecordsKept
  <1> QED
    BY <1>1, <1>2

LEMMA Parts == Content = buffer \cup ListLive(segments)
  BY DEF Content, ListLive

(* An insert adds its record, sealed or not. *)
LEMMA InsertContent ==
  ASSUME Typed, OneLive, NEW r \in Record, r[1] \notin IdsOf(Content), ApplyInsert(r)
  PROVE  /\ Content' = Content \cup {r} /\ OneLive'
         /\ meta = Content => meta' = Content'
  <1>0. /\ \A q \in buffer : q[1] # r[1]
        /\ \A i \in DOMAIN segments : \A q \in Live(heap[segments[i]]) : q[1] # r[1]
        /\ \A q \in Content : q[1] # r[1]
    BY DEF IdsOf, Content
  <1>1. r[1] \notin IdsOf(buffer) /\ meta' = { m \in meta : m[1] # r[1] } \cup {r}
    BY <1>0 DEF IdsOf, ApplyInsert
  <1>2. PICK full : full = buffer \cup {r}
    OBVIOUS
  <1>3. full \in SUBSET Record
    BY <1>2 DEF Typed, MemoryTyped
  <1>4. \A i \in DOMAIN segments : \A q \in Live(heap[segments[i]]), s \in full : s[1] # q[1]
    BY <1>0, <1>2 DEF OneLive
  <1>5. \A p, q \in Content \cup {r} : p[1] = q[1] => p = q
    BY <1>0 DEF OneLive
  <1>6. CASE SealBuffer(full)
    <2>1. Content' = full \cup ListLive(segments) /\ buffer' = {} /\ NewestLive(segments)'
      BY <1>3, <1>4, <1>6, SealContent DEF OneLive
    <2>2. Content' = Content \cup {r}
      BY <1>2, <2>1, Parts
    <2> QED
      BY <1>0, <1>1, <1>5, <2>1, <2>2 DEF OneLive
  <1>7. CASE buffer' = full /\ UNCHANGED <<heap, segments>>
    <2>1. Content' = Content \cup {r}
      BY <1>2, <1>7 DEF Content
    <2>2. NewestLive(segments)'
      BY <1>7 DEF OneLive, NewestLive
    <2> QED
      BY <1>0, <1>1, <1>4, <1>5, <1>7, <2>1, <2>2 DEF OneLive
  <1> QED
    BY <1>1, <1>2, <1>6, <1>7 DEF ApplyInsert

(* A delete takes its record away: the tombstone lands on it.              *)
LEMMA DeleteContent ==
  ASSUME Typed, OneLive, NEW id \in Ids, id \in IdsOf(Content), ApplyDelete(id)
  PROVE  /\ Content' = { r \in Content : r[1] # id } /\ OneLive'
         /\ meta = Content => meta' = Content'
  <1>0. /\ heap \in Seq(SegmentType) /\ segments \in Seq(DOMAIN heap) /\ segments' = segments
        /\ \A i \in DOMAIN segments : segments[i] \in DOMAIN heap
        /\ DOMAIN segments = 1 .. Len(segments) /\ Len(segments) \in Nat
    BY DEF Typed, MemoryTyped, ApplyDelete, DeleteVectorOnly
  <1>1. CASE /\ id \in IdsOf(buffer) /\ buffer' = { r \in buffer : r[1] # id }
             /\ UNCHANGED heap
    <2>1. \A i \in DOMAIN segments : \A q \in Live(heap[segments[i]]) : q[1] # id
      BY <1>1 DEF OneLive, IdsOf
    <2>2. Content' = { r \in Content : r[1] # id }
      BY <1>0, <1>1, <2>1 DEF Content
    <2>3. NewestLive(segments)'
      BY <1>0, <1>1 DEF OneLive, NewestLive
    <2>4. OneLive'
      BY <1>0, <1>1, <2>2, <2>3 DEF OneLive
    <2>5. meta' = { m \in meta : m[1] # id }
      BY <1>1 DEF ApplyDelete, Deletes
    <2> QED
      BY <2>2, <2>4, <2>5
  <1>2. CASE /\ id \notin IdsOf(buffer) /\ UNCHANGED buffer
             /\ heap' = [s \in DOMAIN heap |->
                         IF \E i \in DOMAIN segments : IsNewest(i, id) /\ segments[i] = s
                         THEN [heap[s] EXCEPT !.dead = @ \cup {id}] ELSE heap[s]]
    <2>1. PICK k \in DOMAIN segments : \E q \in Live(heap[segments[k]]) : q[1] = id
      BY <1>2 DEF Content, IdsOf
    <2>2. \A i \in DOMAIN segments : \A q \in Live(heap[segments[i]]) : q[1] = id => IsNewest(i, id)
      <3> SUFFICES ASSUME NEW i \in DOMAIN segments, NEW q \in Live(heap[segments[i]]), q[1] = id
                   PROVE  IsNewest(i, id)
        OBVIOUS
      <3>1. id \in IdsOf(heap[segments[i]].data)
        BY DEF Live, IdsOf
      <3>2. ASSUME NEW j \in DOMAIN segments, id \in IdsOf(heap[segments[j]].data)
            PROVE  j <= i
        BY <1>0, <3>2 DEF OneLive, NewestLive, IdsOf
      <3> QED
        BY <3>1, <3>2 DEF IsNewest
    <2>3. PICK newest : newest = { s \in DOMAIN heap :
                             \E i \in DOMAIN segments : IsNewest(i, id) /\ segments[i] = s }
      OBVIOUS
    <2>4. \A s \in DOMAIN heap : /\ heap'[s].data = heap[s].data
                                 /\ heap'[s].dead = IF s \in newest THEN heap[s].dead \cup {id}
                                                    ELSE heap[s].dead
      <3> SUFFICES ASSUME NEW s \in DOMAIN heap
                   PROVE  /\ heap'[s].data = heap[s].data
                          /\ heap'[s].dead = IF s \in newest THEN heap[s].dead \cup {id}
                                             ELSE heap[s].dead
        OBVIOUS
      <3>1. heap[s] \in SegmentType
        BY <1>0
      <3> QED
        BY <1>2, <2>3, <3>1 DEF SegmentType
    <2>5. \A i \in DOMAIN segments :
             Live(heap'[segments[i]]) = { q \in Live(heap[segments[i]]) : q[1] # id }
      <3> SUFFICES ASSUME NEW i \in DOMAIN segments
                   PROVE  Live(heap'[segments[i]]) = { q \in Live(heap[segments[i]]) : q[1] # id }
        OBVIOUS
      <3>1. CASE segments[i] \in newest
        BY <1>0, <2>4, <3>1 DEF Live
      <3>2. CASE segments[i] \notin newest
        <4>1. \A q \in Live(heap[segments[i]]) : q[1] # id
          BY <1>0, <2>2, <2>3, <3>2
        <4> QED
          BY <1>0, <2>4, <3>2, <4>1 DEF Live
      <3> QED
        BY <3>1, <3>2
    <2>6. \A r \in buffer : r[1] # id
      BY <1>2 DEF IdsOf
    <2>7. Content' = { r \in Content : r[1] # id }
      <3>1. Content' = buffer \cup UNION { Live(heap'[segments[i]]) : i \in DOMAIN segments }
        BY <1>0, <1>2 DEF Content
      <3>2. \A i \in DOMAIN segments : \A q :
               q \in Live(heap'[segments[i]]) <=> q \in Live(heap[segments[i]]) /\ q[1] # id
        BY <2>5
      <3> QED
        BY <2>6, <3>1, <3>2 DEF Content
    <2>8. NewestLive(segments)'
      <3>1. \A i \in DOMAIN segments : /\ Live(heap'[segments[i]]) \subseteq Live(heap[segments[i]])
                                       /\ heap'[segments[i]].data = heap[segments[i]].data
        BY <1>0, <2>4, <2>5
      <3>2. NewestLive(segments)
        BY DEF OneLive
      <3>3. ASSUME NEW i \in DOMAIN segments, NEW j \in DOMAIN segments, i < j,
                   NEW r \in Live(heap'[segments[i]]), NEW q \in heap'[segments[j]].data
            PROVE  r[1] # q[1]
        BY <3>1, <3>2, <3>3 DEF NewestLive
      <3>4. segments' = segments
        BY <1>0
      <3> QED
        BY <3>3, <3>4 DEF NewestLive
    <2>9. OneLive'
      <3>1. \A r, q \in Content' : r[1] = q[1] => r = q
        BY <2>7 DEF OneLive
      <3>2. ASSUME NEW r \in buffer, NEW i \in DOMAIN segments, NEW q \in Live(heap'[segments[i]])
            PROVE  r[1] # q[1]
        BY <2>5 DEF OneLive
      <3>3. segments' = segments /\ buffer' = buffer
        BY <1>0, <1>2
      <3> QED
        BY <2>8, <3>1, <3>2, <3>3 DEF OneLive
    <2>10. meta' = { m \in meta : m[1] # id }
      <3>1. IsNewest(k, id) /\ id \notin heap[segments[k]].dead
        BY <2>1, <2>2 DEF Live
      <3>2. Deletes(id)
        BY <3>1 DEF Deletes
      <3> QED
        BY <3>2 DEF ApplyDelete
    <2> QED
      BY <2>7, <2>9, <2>10
  <1> QED
    BY <1>1, <1>2 DEF ApplyDelete, DeleteVectorOnly

(* A merge only moves records. *)
LEMMA MergeContent ==
  ASSUME Typed, OneLive, Merge
  PROVE  UNCHANGED Content /\ OneLive' /\ RecordsKept
  <1>1. PICK i, j, n, m, f : Merges(i, j, n, m, f)
    BY Merged
  <1>2. PICK left, right : left = Live(heap[segments[i]]) /\ right = Live(heap[segments[j]])
    OBVIOUS
  <1>3. /\ n \in Nat /\ m \in Nat /\ m = n - 2 /\ DOMAIN segments = 1 .. n
        /\ i \in 1 .. n /\ j \in 1 .. n /\ i # j
        /\ DOMAIN segments' = 1 .. m + 1
        /\ \A k \in 1 .. m : f[k] \in (1 .. n) \ {i, j}
        /\ \A k, l \in 1 .. m : k < l => f[k] < f[l]
        /\ \A k \in (1 .. n) \ {i, j} : \E l \in 1 .. m : f[l] = k
    BY <1>1 DEF Merges
  <1>4. /\ \A k \in 1 .. m : segments'[k] = segments[f[k]]
        /\ heap'[segments'[m + 1]] = NewSegment(left \cup right)
        /\ \A s \in DOMAIN heap : heap'[s] = heap[s] /\ s \in DOMAIN heap'
    BY <1>1, <1>2 DEF Merges
  <1>5. \A k \in 1 .. m : heap'[segments'[k]] = heap[segments[f[k]]]
    <2>1. \A k \in 1 .. n : segments[k] \in DOMAIN heap
      BY <1>3 DEF Typed, MemoryTyped
    <2> QED
      BY <1>3, <1>4, <2>1
  <1>6. /\ Live(heap'[segments'[m + 1]]) = left \cup right
        /\ heap'[segments'[m + 1]].data = left \cup right
    BY <1>4 DEF NewSegment, Live
  <1>7. 1 .. m + 1 = (1 .. m) \cup {m + 1}
    BY <1>3
  <1>8. UNCHANGED Content
    <2>1. ASSUME NEW r, NEW k \in 1 .. n, r \in Live(heap[segments[k]])
          PROVE  \E l \in 1 .. m + 1 : r \in Live(heap'[segments'[l]])
      <3>1. CASE k \in {i, j}
        BY <1>2, <1>6, <1>7, <2>1, <3>1
      <3>2. CASE k \notin {i, j}
        <4>1. PICK l \in 1 .. m : f[l] = k
          BY <1>3, <3>2
        <4> QED
          BY <1>5, <1>7, <2>1, <4>1
      <3> QED
        BY <3>1, <3>2
    <2>2. ASSUME NEW r, NEW l \in 1 .. m + 1, r \in Live(heap'[segments'[l]])
          PROVE  \E k \in 1 .. n : r \in Live(heap[segments[k]])
      <3>1. CASE l \in 1 .. m
        BY <1>3, <1>5, <2>2, <3>1
      <3>2. CASE l = m + 1
        BY <1>2, <1>3, <1>6, <2>2, <3>2
      <3> QED
        BY <1>7, <3>1, <3>2
    <2>3. UNCHANGED buffer
      BY DEF Merge
    <2>4. UNION { Live(heap[segments[k]]) : k \in 1 .. n }
              = UNION { Live(heap'[segments'[l]]) : l \in 1 .. m + 1 }
      BY <2>1, <2>2
    <2> QED
      BY <1>3, <2>3, <2>4 DEF Content
  <1>9. ASSUME NEW k \in 1 .. m + 1, NEW l \in 1 .. m + 1, k < l,
               NEW r \in Live(heap'[segments'[k]]), NEW q \in heap'[segments'[l]].data
        PROVE  r[1] # q[1]
    <2>0. \A a, b \in 1 .. n : a < b =>
             \A p \in Live(heap[segments[a]]), s \in heap[segments[b]].data : p[1] # s[1]
      BY <1>3 DEF OneLive, NewestLive
    <2>1. k \in 1 .. m /\ f[k] \in 1 .. n /\ f[k] # i /\ f[k] # j /\ r \in Live(heap[segments[f[k]]])
      BY <1>3, <1>5, <1>9
    <2>2. CASE l \in 1 .. m
      <3>1. q \in heap[segments[f[l]]].data /\ f[k] < f[l] /\ f[l] \in 1 .. n
        BY <1>3, <1>5, <1>9, <2>1, <2>2
      <3> QED
        BY <2>0, <2>1, <3>1
    <2>3. CASE l = m + 1
      <3>1. PICK p \in {i, j} : q \in Live(heap[segments[p]])
        BY <1>2, <1>6, <2>3
      <3>2. p \in 1 .. n /\ (f[k] < p \/ p < f[k]) /\ q \in heap[segments[p]].data
        BY <1>3, <2>1, <3>1 DEF Live
      <3>3. r \in heap[segments[f[k]]].data
        BY <2>1 DEF Live
      <3> QED
        BY <2>0, <2>1, <3>1, <3>2, <3>3
    <2> QED
      BY <1>7, <2>2, <2>3
  <1>10. NewestLive(segments)'
    BY <1>3, <1>9 DEF NewestLive
  <1>11. ASSUME NEW r \in buffer, NEW k \in 1 .. m + 1, NEW q \in Live(heap'[segments'[k]])
         PROVE  r[1] # q[1]
    <2>1. PICK p \in 1 .. n : q \in Live(heap[segments[p]])
      <3>1. CASE k \in 1 .. m
        BY <1>3, <1>5, <3>1
      <3>2. CASE k = m + 1
        BY <1>2, <1>3, <1>6, <3>2
      <3> QED
        BY <1>7, <3>1, <3>2
    <2> QED
      BY <1>3, <2>1 DEF OneLive
  <1>12. OneLive'
    <2>1. UNCHANGED buffer
      BY DEF Merge
    <2> QED
      BY <1>3, <1>8, <1>10, <1>11, <2>1 DEF OneLive
  <1> QED
    BY <1>4, <1>8, <1>12 DEF RecordsKept

-----------------------------------------------------------------------------
(* The disk. *)

LEMMA CheckpointKept ==
  ASSUME Typed, FilesInv, UNCHANGED manifest,
         \A f \in DOMAIN files : f \in Referenced => files'[f] = files[f]
  PROVE  UNCHANGED Checkpointed /\ (ManifestFits => ManifestFits')
  <1>1. \A i \in DOMAIN manifest.refs : files'[manifest.refs[i].file] = files[manifest.refs[i].file]
    BY DEF FilesInv, ManifestNames, Referenced
  <1>2. manifest.meta # NoFile => files'[manifest.meta] = files[manifest.meta]
    BY DEF FilesInv, ManifestNames, Referenced
  <1>3. UNCHANGED Checkpointed
    BY <1>1 DEF Checkpointed
  <1>4. \A i \in DOMAIN manifest.refs : Loaded(i)' = Loaded(i)
    BY <1>1 DEF Loaded
  <1> QED
    BY <1>1, <1>2, <1>3, <1>4 DEF ManifestFits

LEMMA FitsKept ==
  ASSUME Typed, Typed', LogFits, UNCHANGED Checkpointed,
         Len(Log'.recs) <= Len(Log.recs),
         \A i \in 1 .. Len(Log'.recs) :
             \/ Log'.recs[i] = Log.recs[i]
             \/ Log'.recs[i] = Torn /\ i = Len(Log'.recs)
  PROVE  LogFits'
  <1>1. PICK m, n : m = Len(Log.recs) /\ n = Len(Log'.recs)
    OBVIOUS
  <1>2. m \in Nat /\ n \in Nat /\ n <= m
    <2>1. Len(Log.recs) \in Nat
      BY LogTyped
    <2>2. Len(Log'.recs) \in Nat
      BY LogTypedNext
    <2> QED
      BY <1>1, <2>1, <2>2
  <1>3. ASSUME NEW k \in 1 .. n, Log'.recs[k] # Torn
        PROVE  Fits(Log'.recs[k], Restored(k - 1)')
    <2>1. Log'.recs[k] = Log.recs[k] /\ Fits(Log.recs[k], Restored(k - 1))
      BY <1>1, <1>2, <1>3 DEF LogFits
    <2>2. k - 1 \in Nat /\ \A i \in 1 .. k - 1 : Log'.recs[i] = Log.recs[i]
      BY <1>1, <1>2
    <2>3. Restored(k - 1)' = Restored(k - 1)
      BY <2>2, RestoredKept
    <2> QED
      BY <2>1, <2>3
  <1> QED
    BY <1>1, <1>3 DEF LogFits

(* A step that changes neither contents nor records of the log.            *)
LEMMA Steady ==
  ASSUME RInv, Typed', OneLive', ManifestFits',
         UNCHANGED Content, UNCHANGED Checkpointed, UNCHANGED meta, UNCHANGED manifest,
         Log'.recs = Log.recs,
         \A g \in Generations : g > manifest.wal => logs'[g] = EmptyLog,
         pc # "down", pc' # "down", pc' # "refused",
         active' = IF pc' = "manifest" THEN generation' ELSE manifest.wal,
         pc = "replay" => \/ pc' = "replay" /\ UNCHANGED position
                          \/ pc' = "serving" /\ position = Len(Log.recs) + 1,
         pc' = "replay" => pc = "replay",
         InCheckpoint' => /\ Content = ListLive(clone)' /\ NewestLive(clone)'
                          /\ buffer' = {}
  PROVE  RecoveryInv'
  <1>1. Typed /\ RecoveryInv /\ pc \in PC /\ pc' \in PC
    BY DEF RInv, DiskInv, Typed, WriterTyped
  <1>2. Len(Log.recs) \in Nat
    BY <1>1, LogTyped
  <1>3. LogFits'
    BY <1>1, <1>2, FitsKept DEF RecoveryInv
  <1>4. \A n \in Nat : Restored(n)' = Restored(n)
    <2> SUFFICES ASSUME NEW n \in Nat PROVE Restored(n)' = Restored(n)
      OBVIOUS
    <2> QED
      BY RestoredKept
  <1>5. MetaInStep'
    BY <1>1 DEF RecoveryInv, MetaInStep, Up, Working, PC
  <1>6. LogsNamed'
    <2>1. \A i \in DOMAIN Log'.recs : Log'.recs[i] # Torn
      BY <1>1 DEF RecoveryInv, LogsNamed
    <2> QED
      BY <1>1, <2>1 DEF RecoveryInv, LogsNamed
  <1>7. Recoverable'
    <2>1. pc \in {"serving", "replay"} \/ Working
      BY <1>1 DEF PC, Working, RecoveryInv
    <2>2. CASE pc = "replay"
      <3>0. PICK n : n = position - 1
        OBVIOUS
      <3>1. Content = Restored(n) /\ n \in Nat /\ position \in 1 .. Len(Log.recs) + 1
        BY <1>1, <1>2, <2>2, <3>0 DEF RecoveryInv, Recoverable
      <3>2. Content = Restored(n)'
        BY <1>4, <3>1
      <3>3. CASE pc' = "replay" /\ UNCHANGED position
        BY <3>0, <3>1, <3>2, <3>3 DEF Recoverable, InCheckpoint, Working
      <3>4. CASE pc' = "serving" /\ position = Len(Log.recs) + 1
        <4>1. n = Len(Log'.recs)
          BY <1>2, <3>0, <3>4
        <4> QED
          BY <3>2, <3>4, <4>1 DEF Recoverable, InCheckpoint, Working
      <3> QED
        BY <2>2, <3>3, <3>4
    <2>3. CASE pc # "replay"
      <3>1. Content = Restored(Len(Log.recs))
        BY <1>1, <2>1, <2>3 DEF RecoveryInv, Recoverable
      <3>2. Content = Restored(Len(Log.recs))'
        BY <1>2, <1>4, <3>1
      <3> QED
        BY <2>3, <3>2 DEF Recoverable
    <2> QED
      BY <2>2, <2>3
  <1> QED
    BY <1>3, <1>5, <1>6, <1>7 DEF RecoveryInv

LEMMA FlushKept ==
  ASSUME Typed, LogsNamed, pc \in {"serving", "rotate"}, UNCHANGED manifest,
         Commit \/ Sync \/ logs' = [logs EXCEPT ![active] = Flushed(@)]
  PROVE  /\ Log'.recs = Log.recs
         /\ \A g \in Generations : g > manifest.wal => logs'[g] = EmptyLog
  <1>1. active = manifest.wal /\ active \in Generations /\ logs \in [Generations -> LogType]
    BY DEF LogsNamed, Typed, WriterTyped, LogsTyped
  <1>2. \/ logs' = [logs EXCEPT ![active] = Flushed(logs[active])]
        \/ logs' = [logs EXCEPT ![active] = Synced(logs[active])]
        \/ UNCHANGED logs
    <2>1. CASE Sync
      BY <1>1, <2>1 DEF Sync
    <2>2. CASE Commit
      BY <1>1, <2>2 DEF Commit, Sync
    <2> QED
      BY <1>1, <2>1, <2>2
  <1>3. logs[active] \in LogType
    BY <1>1
  <1>4. Flushed(logs[active]).recs = logs[active].recs /\ Synced(logs[active]).recs = logs[active].recs
    BY <1>3 DEF Flushed, Synced, LogType
  <1>5. \A g \in Generations : g # active => logs'[g] = logs[g]
    BY <1>1, <1>2
  <1>6. logs'[active].recs = logs[active].recs
    BY <1>1, <1>2, <1>4
  <1>7. Log'.recs = Log.recs
    BY <1>1, <1>6 DEF Log
  <1> QED
    BY <1>1, <1>5, <1>7 DEF LogsNamed, Generations

LEMMA Unpacked ==
  ASSUME RInv
  PROVE  /\ Typed /\ FilesInv /\ OneLive /\ MetaInStep /\ LogsNamed /\ LogFits /\ Recoverable
         /\ ManifestFits /\ pc # "refused" /\ pc \in PC
  BY DEF RInv, DiskInv, RecoveryInv, Typed, WriterTyped

LEMMA AllKept ==
  ASSUME RInv, UNCHANGED <<files, manifest, heap, buffer, segments>>
  PROVE  /\ UNCHANGED Content /\ UNCHANGED Checkpointed /\ OneLive' /\ ManifestFits'
         /\ \A list \in Seq(DOMAIN heap) :
               UNCHANGED ListLive(list) /\ (NewestLive(list) => NewestLive(list)')
  <1>1. RecordsKept
    BY DEF RecordsKept
  <1>2. UNCHANGED Content /\ OneLive'
    BY <1>1, Unpacked, ContentKept
  <1>3. UNCHANGED Checkpointed /\ ManifestFits'
    BY Unpacked, CheckpointKept
  <1> QED
    BY <1>1, <1>2, <1>3, ListKept

(* The clone keeps what the checkpoint copied. *)
LEMMA CloneKept ==
  ASSUME RInv, RecordsKept, UNCHANGED <<clone, buffer>>, InCheckpoint
  PROVE  Content = ListLive(clone)' /\ NewestLive(clone)' /\ buffer' = {}
  <1>1. clone \in Seq(DOMAIN heap) /\ Content = ListLive(clone) /\ NewestLive(clone) /\ buffer = {}
    BY Unpacked DEF Typed, MemoryTyped, Recoverable
  <1>2. PICK list : list = clone
    OBVIOUS
  <1>3. ListLive(list)' = ListLive(list) /\ NewestLive(list)'
    BY <1>1, <1>2, ListKept
  <1>4. clone' = list
    BY <1>2
  <1>5. ListLive(clone)' = ListLive(list)' /\ (NewestLive(clone)' <=> NewestLive(list)')
    BY <1>4 DEF ListLive, NewestLive
  <1> QED
    BY <1>1, <1>2, <1>3, <1>5

LEMMA QuietRecovery ==
  ASSUME RInv, Typed', EndBatch \/ Shutdown \/ RotateWal
  PROVE  RecoveryInv'
  <1>1. /\ pc \in {"serving", "rotate"}
        /\ UNCHANGED <<files, manifest, heap, buffer, segments, meta, clone, generation>>
        /\ \/ pc = "serving" /\ UNCHANGED <<pc, active>>
           \/ pc = "rotate" /\ pc' = "manifest" /\ active' = generation
        /\ Commit \/ Sync \/ logs' = [logs EXCEPT ![active] = Flushed(@)]
    BY DEF EndBatch, Shutdown, RotateWal, CommitAndAnswer
  <1>2. /\ Log'.recs = Log.recs
        /\ \A g \in Generations : g > manifest.wal => logs'[g] = EmptyLog
    BY <1>1, Unpacked, FlushKept
  <1>3. UNCHANGED Content /\ UNCHANGED Checkpointed /\ OneLive' /\ ManifestFits'
    BY <1>1, AllKept
  <1>4. InCheckpoint' => Content = ListLive(clone)' /\ NewestLive(clone)' /\ buffer' = {}
    <2> SUFFICES ASSUME InCheckpoint'
                 PROVE  Content = ListLive(clone)' /\ NewestLive(clone)' /\ buffer' = {}
      OBVIOUS
    <2>1. InCheckpoint /\ RecordsKept
      BY <1>1 DEF InCheckpoint, RecordsKept
    <2> QED
      BY <1>1, <2>1, CloneKept
  <1>5. active' = IF pc' = "manifest" THEN generation' ELSE manifest.wal
    BY <1>1, Unpacked DEF LogsNamed
  <1> QED
    BY <1>1, <1>2, <1>3, <1>4, <1>5, Steady

LEMMA NoLogRecovery ==
  ASSUME RInv, Typed', LogReliable,
         FinishReplay \/ WriteMetadata \/ GcDone \/ CheckpointFails
  PROVE  RecoveryInv'
  <1>1. /\ pc \in {"replay", "segments", "rotate", "gc"}
        /\ UNCHANGED <<manifest, heap, buffer, segments, meta, generation, logs, active>>
        /\ \/ pc = "replay" /\ pc' = "serving" /\ position > Len(Log.recs) /\ UNCHANGED files
           \/ pc = "segments" /\ pc' = "rotate" /\ UNCHANGED clone
              /\ (UNCHANGED files \/ files' = Written(MetaFile(generation), meta))
           \/ pc \in {"segments", "rotate", "gc"} /\ pc' = "serving" /\ UNCHANGED files
    BY DEF FinishReplay, WriteMetadata, GcDone, CheckpointFails, Return, Fails, LogReliable
  <1>2. RecordsKept
    BY <1>1 DEF RecordsKept
  <1>3. UNCHANGED Content /\ OneLive'
    BY <1>1, <1>2, Unpacked, ContentKept
  <1>4. UNCHANGED Checkpointed /\ ManifestFits'
    <2>1. ASSUME NEW f \in DOMAIN files, f \in Referenced PROVE files'[f] = files[f]
      <3>1. CASE UNCHANGED files
        BY <3>1
      <3>2. CASE pc = "segments" /\ files' = Written(MetaFile(generation), meta)
        <4>1. f # MetaFile(generation)
          <5>1. manifest.generation < generation
            BY <3>2, Unpacked DEF FilesInv, ManifestNames
          <5>2. manifest.generation \in Nat /\ generation \in Nat
            BY Unpacked, Indices
          <5>3. f = NoFile \/ f[1] <= manifest.generation
            BY <2>1, Unpacked DEF FilesInv, ManifestNames, Referenced
          <5> QED
            BY <5>1, <5>2, <5>3 DEF MetaFile, NoFile
        <4> QED
          BY <3>2, <4>1 DEF Written
      <3> QED
        BY <1>1, <3>1, <3>2
    <2> QED
      BY <1>1, <2>1, Unpacked, CheckpointKept
  <1>5. InCheckpoint' => Content = ListLive(clone)' /\ NewestLive(clone)' /\ buffer' = {}
    <2> SUFFICES ASSUME InCheckpoint'
                 PROVE  Content = ListLive(clone)' /\ NewestLive(clone)' /\ buffer' = {}
      OBVIOUS
    <2>1. InCheckpoint /\ UNCHANGED clone
      BY <1>1 DEF InCheckpoint
    <2> QED
      BY <1>1, <1>2, <2>1, CloneKept
  <1>6. active' = IF pc' = "manifest" THEN generation' ELSE manifest.wal
    BY <1>1, Unpacked DEF LogsNamed
  <1>7. \A g \in Generations : g > manifest.wal => logs'[g] = EmptyLog
    BY <1>1, Unpacked DEF LogsNamed
  <1>8. pc = "replay" => position = Len(Log.recs) + 1
    BY <1>1, Unpacked, LogTyped DEF Recoverable
  <1>9. Log'.recs = Log.recs
    BY <1>1 DEF Log
  <1> QED
    BY <1>1, <1>3, <1>4, <1>5, <1>6, <1>7, <1>8, <1>9, Steady

LEMMA StartRecovery ==
  ASSUME RInv, Typed', StartCheckpoint
  PROVE  RecoveryInv'
  <1>1. /\ pc = "serving" /\ pc' = "segments" /\ SealBuffer(buffer) /\ clone' = segments'
        /\ UNCHANGED <<files, manifest, meta, active>> /\ Commit
    BY DEF StartCheckpoint, CommitAndAnswer
  <1>2. /\ Log'.recs = Log.recs
        /\ \A g \in Generations : g > manifest.wal => logs'[g] = EmptyLog
    BY <1>1, Unpacked, FlushKept
  <1>3. /\ Content' = buffer \cup ListLive(segments) /\ buffer' = {} /\ NewestLive(segments)'
    BY <1>1, Unpacked, SealContent DEF OneLive, Typed, MemoryTyped
  <1>4. UNCHANGED Content
    BY <1>3, Parts
  <1>5. OneLive'
    BY <1>3, <1>4, Unpacked DEF OneLive
  <1>6. UNCHANGED Checkpointed /\ ManifestFits'
    BY <1>1, Unpacked, CheckpointKept
  <1>7. Content' = ListLive(clone)' /\ NewestLive(clone)'
    BY <1>1, <1>3 DEF Content, ListLive, NewestLive
  <1>8. active' = manifest.wal
    BY <1>1, Unpacked DEF LogsNamed
  <1> QED
    BY <1>1, <1>2, <1>3, <1>4, <1>5, <1>6, <1>7, <1>8, Steady

LEMMA SegmentRecovery ==
  ASSUME RInv, Typed', WriteSegment
  PROVE  RecoveryInv'
  <1>0. PICK s, name : s = clone[position] /\ name = <<generation, position>>
    OBVIOUS
  <1>1. /\ pc = "segments" /\ pc' = "segments" /\ s \in DOMAIN heap
        /\ UNCHANGED <<manifest, buffer, segments, clone, meta, generation, logs, active>>
        /\ \/ UNCHANGED <<files, heap>>
           \/ files' = Written(name, heap[s].data) /\ heap' = [heap EXCEPT ![s].stored = name]
    <2>1. s \in DOMAIN heap
      BY <1>0, Unpacked, StoredTyped DEF Typed
    <2> QED
      BY <1>0, <2>1 DEF WriteSegment
  <1>2. RecordsKept
    <2>1. heap \in Seq(SegmentType) /\ heap[s] \in SegmentType
      BY <1>1, Unpacked DEF Typed, MemoryTyped
    <2>2. CASE heap' = [heap EXCEPT ![s].stored = name]
      <3>1. \A t \in DOMAIN heap : t # s => heap'[t] = heap[t]
        BY <2>2
      <3>2. heap'[s].data = heap[s].data /\ heap'[s].dead = heap[s].dead
        BY <1>1, <2>1, <2>2 DEF SegmentType
      <3> QED
        BY <2>2, <3>1, <3>2 DEF RecordsKept
    <2> QED
      BY <1>1, <2>2 DEF RecordsKept
  <1>3. UNCHANGED Content /\ OneLive'
    BY <1>1, <1>2, Unpacked, ContentKept
  <1>4. UNCHANGED Checkpointed /\ ManifestFits'
    <2>1. ASSUME NEW f \in DOMAIN files, f \in Referenced PROVE files'[f] = files[f]
      <3>1. CASE files' = Written(name, heap[s].data)
        <4>1. f # name
          <5>1. manifest.generation < generation /\ position # 0
            BY <1>1, Unpacked DEF FilesInv, ManifestNames, Typed, WriterTyped
          <5>2. manifest.generation \in Nat /\ generation \in Nat
            BY Unpacked, Indices
          <5>3. f = NoFile \/ f[1] <= manifest.generation
            BY <2>1, Unpacked DEF FilesInv, ManifestNames, Referenced
          <5> QED
            BY <1>0, <5>1, <5>2, <5>3 DEF NoFile
        <4> QED
          BY <3>1, <4>1 DEF Written
      <3> QED
        BY <1>1, <3>1
    <2> QED
      BY <1>1, <2>1, Unpacked, CheckpointKept
  <1>5. Content = ListLive(clone)' /\ NewestLive(clone)' /\ buffer' = {}
    BY <1>1, <1>2, CloneKept DEF InCheckpoint
  <1>6. /\ active' = manifest.wal /\ Log'.recs = Log.recs
        /\ \A g \in Generations : g > manifest.wal => logs'[g] = EmptyLog
    BY <1>1, Unpacked DEF LogsNamed, Log
  <1> QED
    BY <1>1, <1>3, <1>4, <1>5, <1>6, Steady

LEMMA GcRecovery ==
  ASSUME RInv, Typed', GcRemove
  PROVE  RecoveryInv'
  <1>1. /\ pc = "gc" /\ pc' = "gc"
        /\ UNCHANGED <<manifest, buffer, heap, segments, clone, meta, generation, active>>
        /\ \A f \in DOMAIN files : f \in Referenced => files'[f] = files[f]
    BY DEF GcRemove
  <1>2. RecordsKept
    BY <1>1 DEF RecordsKept
  <1>3. UNCHANGED Content /\ OneLive'
    BY <1>1, <1>2, Unpacked, ContentKept
  <1>4. UNCHANGED Checkpointed /\ ManifestFits'
    BY <1>1, Unpacked, CheckpointKept
  <1>5. ~InCheckpoint'
    BY <1>1 DEF InCheckpoint
  <1>6. UNCHANGED logs \/ \E g \in Generations \ {manifest.wal} : logs' = [logs EXCEPT ![g] = EmptyLog]
    BY DEF GcRemove
  <1>7. /\ active' = manifest.wal /\ Log'.recs = Log.recs
        /\ \A g \in Generations : g > manifest.wal => logs'[g] = EmptyLog
    <2>1. logs \in [Generations -> LogType] /\ manifest.wal \in Generations
      BY Unpacked, LogTyped DEF Typed, LogsTyped
    <2>2. active = manifest.wal
      BY <1>1, Unpacked DEF LogsNamed
    <2> QED
      BY <1>1, <1>6, <2>1, <2>2, Unpacked DEF LogsNamed, Log
  <1> QED
    BY <1>1, <1>3, <1>4, <1>5, <1>7, Steady

LEMMA MergeRecovery ==
  ASSUME RInv, Typed', Merge
  PROVE  RecoveryInv'
  <1>1. /\ pc \notin {"down", "refused"} /\ pc' = pc
        /\ UNCHANGED <<files, manifest, buffer, clone, meta, generation, active, logs, position>>
    BY DEF Merge
  <1>2. UNCHANGED Content /\ OneLive' /\ RecordsKept
    BY Unpacked, MergeContent
  <1>3. UNCHANGED Checkpointed /\ ManifestFits'
    BY <1>1, Unpacked, CheckpointKept
  <1>4. InCheckpoint' => Content = ListLive(clone)' /\ NewestLive(clone)' /\ buffer' = {}
    <2> SUFFICES ASSUME InCheckpoint'
                 PROVE  Content = ListLive(clone)' /\ NewestLive(clone)' /\ buffer' = {}
      OBVIOUS
    <2>1. InCheckpoint
      BY <1>1 DEF InCheckpoint
    <2> QED
      BY <1>1, <1>2, <2>1, CloneKept
  <1>5. /\ active' = IF pc' = "manifest" THEN generation' ELSE manifest.wal
        /\ Log'.recs = Log.recs
        /\ \A g \in Generations : g > manifest.wal => logs'[g] = EmptyLog
    BY <1>1, Unpacked DEF LogsNamed, Log
  <1> QED
    BY <1>1, <1>2, <1>3, <1>4, <1>5, Steady

LEMMA StutterRecovery ==
  ASSUME RInv, UNCHANGED vars
  PROVE  RecoveryInv'
  <1>1. OneLive' /\ ManifestFits' /\ UNCHANGED Content /\ UNCHANGED Checkpointed
    BY AllKept
  <1>2. Log' = Log
    BY DEF Log
  <1>3. \A n : Restored(n)' = Restored(n)
    BY <1>1, <1>2 DEF Restored
  <1>4. LogFits'
    BY <1>2, <1>3, Unpacked DEF LogFits
  <1>5. ListLive(clone)' = ListLive(clone) /\ (NewestLive(clone)' <=> NewestLive(clone))
    BY DEF ListLive, NewestLive
  <1>6. MetaInStep' /\ LogsNamed'
    BY <1>1, <1>2, Unpacked DEF MetaInStep, Up, Working, LogsNamed
  <1>7. Recoverable'
    <2>1. \A n : n = Len(Log.recs) => Restored(Len(Log.recs))' = Restored(n)
      BY <1>2, <1>3
    <2>2. \A n : n = position - 1 => Restored(position - 1)' = Restored(n)
      BY <1>3
    <2> QED
      BY <1>1, <1>2, <1>5, <2>1, <2>2, Unpacked DEF Recoverable, InCheckpoint, Working
  <1> QED
    BY <1>1, <1>4, <1>6, <1>7, Unpacked DEF RecoveryInv

(* A write that was validated, appended to the log and applied.            *)
LEMMA WriteRecovery ==
  ASSUME RInv, Typed', pc = "serving", pc' = "serving",
         UNCHANGED <<files, manifest, active>>,
         NEW entry \in Entry, AppendEntry(entry), Fits(entry, Content),
         OneLive', meta' = Content',
         entry.op = "insert" => Content' = Content \cup {entry.rec},
         entry.op = "delete" => Content' = { r \in Content : r[1] # entry.rec[1] }
  PROVE  RecoveryInv'
  <1>0. PICK recs, n : recs = Log.recs /\ n = Len(recs)
    OBVIOUS
  <1>1. /\ active = manifest.wal /\ active \in Generations /\ logs \in [Generations -> LogType]
        /\ logs[active] \in LogType
    BY Unpacked DEF LogsNamed, Typed, WriterTyped, LogsTyped
  <1>2. PICK log : log = Appended(logs[active], entry)
    OBVIOUS
  <1>3. /\ log.recs = Append(recs, entry) /\ Flushed(log).recs = Append(recs, entry)
        /\ Synced(log).recs = Append(recs, entry)
    BY <1>0, <1>1, <1>2 DEF Appended, Flushed, Synced, LogType, Log
  <1>4. \/ logs' = [logs EXCEPT ![active] = Flushed(log)]
        \/ logs' = [logs EXCEPT ![active] = Synced(log)]
        \/ logs' = [logs EXCEPT ![active] = log]
    BY <1>2 DEF AppendEntry
  <1>5. logs'[active].recs = Append(recs, entry) /\ \A g \in Generations : g # active => logs'[g] = logs[g]
    BY <1>1, <1>3, <1>4
  <1>6. PICK new : new = Log'.recs
    OBVIOUS
  <1>7. new = Append(recs, entry)
    BY <1>1, <1>5, <1>6 DEF Log
  <1>8. /\ n \in Nat /\ Len(new) = n + 1 /\ new[n + 1] = entry
        /\ \A i \in 1 .. n : new[i] = recs[i]
    BY <1>0, <1>7, Unpacked, LogTyped
  <1>9. UNCHANGED Checkpointed /\ ManifestFits'
    BY Unpacked, CheckpointKept
  <1>10. \A m \in 0 .. n : Restored(m)' = Restored(m)
    <2> SUFFICES ASSUME NEW m \in 0 .. n PROVE Restored(m)' = Restored(m)
      OBVIOUS
    <2>1. m \in Nat /\ \A i \in 1 .. m : Log'.recs[i] = Log.recs[i]
      BY <1>0, <1>6, <1>8
    <2> QED
      BY <1>9, <2>1, RestoredKept
  <1>11. Content = Restored(n)
    BY <1>0, Unpacked DEF Recoverable
  <1>12. entry # Torn /\ entry.op \in {"insert", "delete"}
    BY Entries
  <1>13. Content' = Restored(n + 1)'
    <2>1. Restored(n + 1)' = { r \in Restored(n)' : r[1] # entry.rec[1] }
                             \cup (IF entry.op = "insert" THEN {entry.rec} ELSE {})
      <3>1. PICK base : base = Checkpointed'
        OBVIOUS
      <3>2. Replays(base, new, n)
        BY <1>8, RecoveredNext
      <3>3. Recovered(base, new, n + 1) =
                { r \in Recovered(base, new, n) : r[1] # entry.rec[1] }
                \cup (IF entry.op = "insert" THEN {entry.rec} ELSE {})
        BY <1>8, <3>2 DEF Replays
      <3> QED
        BY <1>6, <3>1, <3>3, RestoredIs
    <2>2. Restored(n)' = Content
      BY <1>8, <1>10, <1>11
    <2>3. CASE entry.op = "insert"
      <3>1. \A r \in Content : r[1] # entry.rec[1]
        BY <2>3 DEF Fits, IdsOf
      <3> QED
        BY <2>1, <2>2, <2>3, <3>1
    <2>4. CASE entry.op = "delete"
      BY <2>1, <2>2, <2>4
    <2> QED
      BY <1>12, <2>3, <2>4
  <1>14. LogFits'
    <2>1. ASSUME NEW k \in 1 .. n + 1, new[k] # Torn
          PROVE  Fits(new[k], Restored(k - 1)')
      <3>1. CASE k = n + 1
        <4>1. Restored(n)' = Content
          BY <1>8, <1>10, <1>11
        <4>2. k - 1 = n
          BY <1>8, <3>1
        <4> QED
          BY <1>8, <3>1, <4>1, <4>2
      <3>2. CASE k # n + 1
        <4>1. k \in 1 .. n /\ k - 1 \in 0 .. n
          BY <1>8, <3>2
        <4>2. Fits(recs[k], Restored(k - 1))
          BY <1>0, <1>8, <2>1, <4>1, Unpacked DEF LogFits
        <4> QED
          BY <1>8, <1>10, <4>1, <4>2
      <3> QED
        BY <3>1, <3>2
    <2> QED
      BY <1>6, <1>8, <2>1 DEF LogFits
  <1>15. LogsNamed'
    <2>1. \A i \in DOMAIN new : new[i] # Torn
      <3>1. DOMAIN new = 1 .. n + 1
        BY <1>6, <1>8, LogTypedNext
      <3>2. \A i \in 1 .. n : recs[i] # Torn
        BY <1>0, Unpacked, LogTyped DEF LogsNamed
      <3> QED
        BY <1>8, <1>12, <3>1, <3>2
    <2> QED
      BY <1>1, <1>5, <1>6, <2>1, Unpacked DEF LogsNamed, Generations
  <1>16. Recoverable'
    BY <1>6, <1>8, <1>13 DEF Recoverable, InCheckpoint, Working
  <1>17. MetaInStep'
    BY DEF MetaInStep
  <1> QED
    BY <1>9, <1>14, <1>15, <1>16, <1>17 DEF RecoveryInv

LEMMA InsertRecovery ==
  ASSUME RInv, Typed', NEW id \in Ids, Insert(id)
  PROVE  RecoveryInv'
  <1>0. PICK r : r = <<id, inserted[id] + 1>>
    OBVIOUS
  <1>1. r \in Record /\ r[1] = id
    BY <1>0, Unpacked, Constants DEF Insert, Typed, WriterTyped, Record, Vectors
  <1>2. /\ pc = "serving" /\ pc' = "serving" /\ id \notin IdsOf(Content)
        /\ AppendEntry(InsertEntry(r)) /\ ApplyInsert(r) /\ UNCHANGED <<files, manifest, active>>
    BY <1>0 DEF Insert, Accepts, Validated
  <1>3. meta = Content
    BY <1>2, Unpacked DEF MetaInStep, Up
  <1>4. Content' = Content \cup {r} /\ OneLive' /\ meta' = Content'
    BY <1>1, <1>2, <1>3, Unpacked, InsertContent
  <1>5. InsertEntry(r) \in Entry /\ InsertEntry(r).op = "insert" /\ InsertEntry(r).rec = r
    BY <1>1, Entries DEF InsertEntry
  <1>6. Fits(InsertEntry(r), Content)
    BY <1>1, <1>2, <1>5 DEF Fits
  <1> QED
    BY <1>2, <1>4, <1>5, <1>6, WriteRecovery

LEMMA DeleteRecovery ==
  ASSUME RInv, Typed', NEW id \in Ids, Delete(id)
  PROVE  RecoveryInv'
  <1>1. /\ pc = "serving" /\ pc' = "serving" /\ id \in IdsOf(Content)
        /\ AppendEntry(DeleteEntry(id)) /\ ApplyDelete(id) /\ UNCHANGED <<files, manifest, active>>
    BY DEF Delete, Accepts
  <1>2. meta = Content
    BY <1>1, Unpacked DEF MetaInStep, Up
  <1>3. Content' = { r \in Content : r[1] # id } /\ OneLive' /\ meta' = Content'
    BY <1>1, <1>2, Unpacked, DeleteContent
  <1>4. DeleteEntry(id) \in Entry /\ DeleteEntry(id).op = "delete" /\ DeleteEntry(id).rec[1] = id
    BY Entries DEF DeleteEntry
  <1>5. Fits(DeleteEntry(id), Content)
    BY <1>1, <1>4 DEF Fits
  <1> QED
    BY <1>1, <1>3, <1>4, <1>5, WriteRecovery

(* The new manifest holds the segments that were cloned and their          *)
(* metadata, and names a log that is still empty.                          *)
LEMMA ManifestRecovery ==
  ASSUME RInv, Typed', WriteManifest
  PROVE  RecoveryInv'
  <1>1. /\ pc = "manifest" /\ pc' = "gc" /\ manifest' = NextManifest
        /\ UNCHANGED <<buffer, heap, segments, clone, meta, generation, active, logs, files>>
    BY DEF WriteManifest
  <1>2. /\ DOMAIN manifest'.refs = DOMAIN clone
        /\ \A i \in DOMAIN clone : /\ manifest'.refs[i].file = heap[clone[i]].stored
                                   /\ manifest'.refs[i].dead = heap[clone[i]].dead
        /\ manifest'.meta = IF meta = {} THEN NoFile ELSE MetaFile(generation)
        /\ manifest'.generation = generation /\ manifest'.wal = generation
    BY <1>1, Unpacked DEF NextManifest, SegmentRef, LogsNamed
  <1>3. \A i \in DOMAIN clone : files[heap[clone[i]].stored] = heap[clone[i]].data
    BY <1>1, Unpacked DEF FilesInv, Progress, ListedOnDisk, OnDisk
  <1>4. Content = ListLive(clone) /\ NewestLive(clone) /\ meta = Content /\ OneLive
    BY <1>1, Unpacked DEF Recoverable, InCheckpoint, MetaInStep, Up, Working
  <1>5. UNCHANGED Content /\ OneLive'
    BY <1>1, Unpacked, ContentKept DEF RecordsKept
  <1>6. \A i \in DOMAIN clone : Loaded(i)' = Live(heap[clone[i]])
    BY <1>1, <1>2, <1>3 DEF Loaded, Live
  <1>7. Checkpointed' = Content
    <2>1. Checkpointed' = UNION { Live(heap[clone[i]]) : i \in DOMAIN clone }
      <3>1. Checkpointed' = UNION { Loaded(i)' : i \in DOMAIN clone }
        BY <1>2 DEF Checkpointed, Loaded
      <3> QED
        BY <1>6, <3>1
    <2> QED
      BY <1>4, <2>1 DEF ListLive
  <1>8. /\ manifest.generation < generation /\ manifest.generation \in Nat /\ generation \in Nat
        /\ manifest.wal = manifest.generation
        /\ \A g \in Generations : g > manifest.wal => logs[g] = EmptyLog
    BY <1>1, Unpacked, Indices DEF FilesInv, ManifestNames, LogsNamed
  <1>9. Log'.recs = <<>> /\ generation \in Generations
    <2>1. generation \in Generations
      BY Unpacked DEF Typed, WriterTyped
    <2>2. Log' = EmptyLog
      BY <1>1, <1>2, <1>8, <2>1 DEF Log
    <2> QED
      BY <2>1, <2>2 DEF EmptyLog
  <1>10. ManifestFits'
    <2>1. \A r, q \in Checkpointed' : r[1] = q[1] => r = q
      BY <1>4, <1>7 DEF OneLive
    <2>2. ASSUME NEW i \in DOMAIN clone, NEW j \in DOMAIN clone, i < j,
                 NEW r \in Loaded(i)', NEW q \in heap[clone[j]].data
          PROVE  r[1] # q[1]
      BY <1>4, <1>6, <2>2 DEF NewestLive
    <2>3. \A j \in DOMAIN clone : files'[manifest'.refs[j].file] = heap[clone[j]].data
      BY <1>1, <1>2, <1>3
    <2>4. Checkpointed' = IF manifest'.meta = NoFile THEN {} ELSE files'[manifest'.meta]
      <3>1. CASE meta = {}
        BY <1>2, <1>4, <1>7, <3>1
      <3>2. CASE meta # {}
        <4>1. files[MetaFile(generation)] = meta
          BY <1>1, <3>2, Unpacked DEF FilesInv, Progress
        <4>2. MetaFile(generation) # NoFile
          BY <1>8 DEF MetaFile, NoFile
        <4> QED
          BY <1>1, <1>2, <1>4, <1>7, <3>2, <4>1, <4>2
      <3> QED
        BY <3>1, <3>2
    <2> QED
      BY <1>2, <2>1, <2>2, <2>3, <2>4 DEF ManifestFits
  <1>11. LogFits'
    BY <1>9 DEF LogFits
  <1>12. LogsNamed'
    <2>1. active = generation
      BY <1>1, Unpacked DEF LogsNamed
    <2> QED
      BY <1>1, <1>2, <1>8, <1>9, <2>1 DEF LogsNamed, Generations
  <1>13. Recoverable'
    <2>1. Restored(0)' = Content'
      BY <1>5, <1>7 DEF Restored
    <2>2. Len(Log'.recs) = 0
      BY <1>9
    <2> QED
      BY <1>1, <2>1, <2>2 DEF Recoverable, InCheckpoint, Working
  <1>14. MetaInStep'
    BY <1>1, <1>4, <1>5 DEF MetaInStep
  <1> QED
    BY <1>1, <1>5, <1>10, <1>11, <1>12, <1>13, <1>14 DEF RecoveryInv

(* A crash leaves a prefix of the log, perhaps with a torn record. *)
LEMMA PrefixRecovery ==
  ASSUME RInv, Typed', Forget, UNCHANGED <<files, manifest>>,
         Len(Log'.recs) <= Len(Log.recs),
         \A i \in 1 .. Len(Log'.recs) :
             \/ Log'.recs[i] = Log.recs[i]
             \/ Log'.recs[i] = Torn /\ i = Len(Log'.recs),
         \A g \in Generations : g > manifest.wal => logs'[g] = EmptyLog
  PROVE  RecoveryInv'
  <1>1. pc' = "down" /\ buffer' = {} /\ segments' = <<>>
    BY DEF Forget
  <1>2. UNCHANGED Checkpointed /\ ManifestFits'
    BY Unpacked, CheckpointKept
  <1>3. LogFits'
    BY <1>2, Unpacked, FitsKept
  <1>4. OneLive'
    BY <1>1 DEF OneLive, Content, NewestLive
  <1>5. LogsNamed'
    <2>1. PICK m, n : m = Len(Log.recs) /\ n = Len(Log'.recs)
      OBVIOUS
    <2>2. m \in Nat /\ n \in Nat /\ n <= m /\ DOMAIN Log'.recs = 1 .. n /\ DOMAIN Log.recs = 1 .. m
      BY <2>1, Unpacked, LogTyped, LogTypedNext
    <2>3. ASSUME NEW i \in 1 .. n, Log'.recs[i] = Torn PROVE i = n
      <3>1. CASE Log'.recs[i] = Log.recs[i]
        <4>1. i = m
          BY <2>1, <2>2, <2>3, <3>1, Unpacked DEF LogsNamed
        <4> QED
          BY <2>2, <4>1
      <3> QED
        BY <2>1, <2>3, <3>1
    <2> QED
      BY <1>1, <2>1, <2>2, <2>3, Unpacked DEF LogsNamed
  <1>6. MetaInStep' /\ Recoverable'
    BY <1>1 DEF MetaInStep, Up, Recoverable, InCheckpoint, Working
  <1> QED
    BY <1>1, <1>2, <1>3, <1>4, <1>5, <1>6 DEF RecoveryInv

(* What a cut of a log leaves of it. *)
LEMMA CutPrefix ==
  ASSUME NEW log \in LogType, NEW n \in 0 .. Len(log.recs), NEW recs \in Cut(log, n)
  PROVE  /\ Len(recs) \in Nat /\ Len(recs) <= Len(log.recs)
         /\ \A i \in 1 .. Len(recs) : recs[i] = log.recs[i] \/ (recs[i] = Torn /\ i = Len(recs))
         /\ log.recs = <<>> => recs = <<>>
  <1>1. PICK old, cut : old = log.recs /\ cut = SubSeq(old, 1, n)
    OBVIOUS
  <1>2. old \in Seq(Entry \cup {Torn}) /\ Len(old) \in Nat /\ n \in 0 .. Len(old)
    BY <1>1 DEF LogType
  <1>3. /\ cut \in Seq(Entry \cup {Torn}) /\ Len(cut) = n
        /\ \A i \in 1 .. n : cut[i] = old[i]
    BY <1>1, <1>2
  <1>4. recs = cut \/ (recs = Append(cut, Torn) /\ n < Len(old))
    BY <1>1 DEF Cut
  <1>5. CASE recs = cut
    <2>1. old = <<>> => recs = <<>>
      BY <1>2, <1>3, <1>5
    <2> QED
      BY <1>1, <1>2, <1>3, <1>5, <2>1
  <1>6. CASE recs = Append(cut, Torn) /\ n < Len(old)
    <2>1. /\ Len(recs) = n + 1 /\ recs[n + 1] = Torn
          /\ \A i \in 1 .. n : recs[i] = cut[i]
      BY <1>3, <1>6
    <2>2. old # <<>>
      BY <1>2, <1>6
    <2> QED
      BY <1>1, <1>2, <1>3, <1>6, <2>1, <2>2
  <1> QED
    BY <1>4, <1>5, <1>6

LEMMA ProcessRecovery ==
  ASSUME RInv, Typed', ProcessCrash
  PROVE  RecoveryInv'
  <1>1. PICK n \in logs[active].flushed .. Len(logs[active].recs) :
            \E recs \in Cut(logs[active], n) :
                logs' = [logs EXCEPT ![active] =
                            [recs |-> recs, flushed |-> Len(recs), synced |-> @.synced]]
    BY DEF ProcessCrash
  <1>2. PICK recs \in Cut(logs[active], n) :
            logs' = [logs EXCEPT ![active] =
                        [recs |-> recs, flushed |-> Len(recs), synced |-> @.synced]]
    BY <1>1
  <1>3. /\ Forget /\ UNCHANGED <<files, manifest>>
        /\ active \in Generations /\ logs \in [Generations -> LogType]
        /\ logs[active] \in LogType /\ MarksInOrder(logs[active])
        /\ manifest.wal \in Generations
    BY Unpacked, LogTyped DEF ProcessCrash, Forget, Typed, WriterTyped, LogsTyped
  <1>4. n \in 0 .. Len(logs[active].recs)
    BY <1>1, <1>3 DEF MarksInOrder, LogType
  <1>5. PICK log : log = logs[active]
    OBVIOUS
  <1>6. /\ Len(recs) \in Nat /\ Len(recs) <= Len(log.recs)
        /\ \A i \in 1 .. Len(recs) : recs[i] = log.recs[i] \/ (recs[i] = Torn /\ i = Len(recs))
        /\ log.recs = <<>> => recs = <<>>
    BY <1>3, <1>4, <1>5, CutPrefix
  <1>7. /\ logs'[active] = [recs |-> recs, flushed |-> Len(recs), synced |-> log.synced]
        /\ \A g \in Generations : g # active => logs'[g] = logs[g]
    BY <1>2, <1>3, <1>5
  <1>8. log = EmptyLog => logs'[active] = EmptyLog
    <2>1. Len(<<>>) = 0
      OBVIOUS
    <2> QED
      BY <1>6, <1>7, <2>1 DEF EmptyLog
  <1>9. \A g \in Generations : g > manifest.wal => logs'[g] = EmptyLog
    BY <1>5, <1>7, <1>8, Unpacked DEF LogsNamed
  <1>10. /\ Len(Log'.recs) <= Len(Log.recs)
         /\ \A i \in 1 .. Len(Log'.recs) :
                \/ Log'.recs[i] = Log.recs[i]
                \/ Log'.recs[i] = Torn /\ i = Len(Log'.recs)
    <2>1. CASE manifest.wal = active
      <3>1. Log'.recs = recs /\ Log = log
        BY <1>3, <1>5, <1>7, <2>1 DEF Log
      <3> QED
        BY <1>6, <3>1
    <2>2. CASE manifest.wal # active
      <3>1. Log' = Log /\ Len(Log.recs) \in Nat
        BY <1>3, <1>7, <2>2, Unpacked, LogTyped DEF Log
      <3> QED
        BY <3>1
    <2> QED
      BY <2>1, <2>2
  <1> QED
    BY <1>3, <1>9, <1>10, PrefixRecovery

LEMMA MachineRecovery ==
  ASSUME RInv, Typed', MachineCrash
  PROVE  RecoveryInv'
  <1>1. PICK n \in [manifest.wal .. MaxGeneration -> 0 .. MaxLog], torn \in BOOLEAN :
            /\ \A g \in DOMAIN n : n[g] \in logs[g].synced .. Len(logs[g].recs)
            /\ logs' = [g \in Generations |->
                   IF g \notin DOMAIN n THEN logs[g] ELSE
                   LET cut == SubSeq(logs[g].recs, 1, n[g])
                       recs == IF torn /\ n[g] < Len(logs[g].recs)
                               THEN Append(cut, Torn) ELSE cut
                   IN  [recs |-> recs, flushed |-> Len(recs), synced |-> Len(recs)]]
    BY DEF MachineCrash
  <1>2. /\ Forget /\ UNCHANGED <<files, manifest>> /\ manifest.wal \in Generations
        /\ logs \in [Generations -> LogType] /\ MaxGeneration \in Nat
    BY Unpacked, LogTyped, Constants DEF MachineCrash, Forget, Typed, LogsTyped
  <1>3. ASSUME NEW g \in Generations, g >= manifest.wal
        PROVE  \E recs \in Cut(logs[g], n[g]) :
                   logs'[g] = [recs |-> recs, flushed |-> Len(recs), synced |-> Len(recs)]
    <2>1. g \in DOMAIN n
      BY <1>2, <1>3 DEF Generations
    <2>2. PICK recs : recs = IF torn /\ n[g] < Len(logs[g].recs)
                             THEN Append(SubSeq(logs[g].recs, 1, n[g]), Torn)
                             ELSE SubSeq(logs[g].recs, 1, n[g])
      OBVIOUS
    <2>3. recs \in Cut(logs[g], n[g])
      BY <2>2 DEF Cut
    <2>4. logs'[g] = [recs |-> recs, flushed |-> Len(recs), synced |-> Len(recs)]
      BY <1>1, <1>3, <2>1, <2>2
    <2> QED
      BY <2>3, <2>4
  <1>4. \A g \in Generations : g >= manifest.wal => logs[g] \in LogType /\ n[g] \in 0 .. Len(logs[g].recs)
    <2> SUFFICES ASSUME NEW g \in Generations, g >= manifest.wal
                 PROVE  logs[g] \in LogType /\ n[g] \in 0 .. Len(logs[g].recs)
      OBVIOUS
    <2>1. logs[g] \in LogType /\ logs[g].synced \in Nat /\ g \in DOMAIN n
      BY <1>2 DEF LogType, Generations
    <2>2. n[g] \in logs[g].synced .. Len(logs[g].recs)
      BY <1>1, <2>1
    <2> QED
      BY <2>1, <2>2 DEF LogType
  <1>5. \A g \in Generations : g > manifest.wal => logs'[g] = EmptyLog
    <2> SUFFICES ASSUME NEW g \in Generations, g > manifest.wal
                 PROVE  logs'[g] = EmptyLog
      OBVIOUS
    <2>0. g >= manifest.wal /\ Len(<<>>) = 0
      BY <1>2 DEF Generations
    <2>1. PICK recs \in Cut(logs[g], n[g]) :
              logs'[g] = [recs |-> recs, flushed |-> Len(recs), synced |-> Len(recs)]
      BY <1>3, <2>0
    <2>2. logs[g].recs = <<>>
      BY Unpacked DEF LogsNamed, EmptyLog
    <2>3. recs = <<>>
      BY <1>4, <2>0, <2>2, CutPrefix
    <2> QED
      BY <2>0, <2>1, <2>3 DEF EmptyLog
  <1>6. /\ Len(Log'.recs) <= Len(Log.recs)
        /\ \A i \in 1 .. Len(Log'.recs) :
               \/ Log'.recs[i] = Log.recs[i]
               \/ Log'.recs[i] = Torn /\ i = Len(Log'.recs)
    <2>0. manifest.wal >= manifest.wal
      BY <1>2 DEF Generations
    <2>1. PICK recs \in Cut(logs[manifest.wal], n[manifest.wal]) :
              logs'[manifest.wal] = [recs |-> recs, flushed |-> Len(recs), synced |-> Len(recs)]
      BY <1>2, <1>3, <2>0
    <2>2. Log'.recs = recs
      BY <1>2, <2>1 DEF Log
    <2>3. /\ Len(recs) <= Len(Log.recs)
          /\ \A i \in 1 .. Len(recs) : recs[i] = Log.recs[i] \/ (recs[i] = Torn /\ i = Len(recs))
      BY <1>2, <1>4, <2>0, CutPrefix DEF Log
    <2> QED
      BY <2>2, <2>3
  <1> QED
    BY <1>2, <1>5, <1>6, PrefixRecovery

(* A start loads the segments and the metadata of one moment, and cuts the *)
(* log after its intact records.                                           *)
LEMMA OpenRecovery ==
  ASSUME RInv, Typed', Open
  PROVE  RecoveryInv'
  <1>0. PICK refs : refs = manifest.refs
    OBVIOUS
  <1>1. /\ pc = "down" /\ pc' = "replay" /\ position' = 1
        /\ UNCHANGED <<buffer, files, manifest>> /\ buffer = {}
        /\ active' = manifest.wal
        /\ logs' = [logs EXCEPT ![manifest.wal] = Truncated(@)]
        /\ meta' = IF manifest.meta = NoFile THEN {} ELSE files[manifest.meta]
    BY Unpacked DEF Open, Recoverable
  <1>2. /\ heap' = [i \in DOMAIN refs |-> [data |-> files[refs[i].file],
                                          dead |-> refs[i].dead, stored |-> refs[i].file]]
        /\ segments' = [i \in DOMAIN refs |-> i]
    BY <1>0 DEF Open
  <1>3. /\ DOMAIN segments' = DOMAIN refs
        /\ \A i \in DOMAIN refs : /\ segments'[i] = i
                                  /\ heap'[i].data = files[refs[i].file]
                                  /\ Live(heap'[i]) = Loaded(i)
    BY <1>0, <1>2 DEF Live, Loaded
  <1>4. Content' = Checkpointed
    <2>1. Content' = UNION { Live(heap'[segments'[i]]) : i \in DOMAIN segments' }
      BY <1>1 DEF Content
    <2>2. Content' = UNION { Loaded(i) : i \in DOMAIN refs }
      BY <1>3, <2>1
    <2> QED
      BY <1>0, <2>2 DEF Checkpointed, Loaded
  <1>5. UNCHANGED Checkpointed /\ ManifestFits'
    BY <1>1, Unpacked, CheckpointKept
  <1>6. OneLive'
    <2>1. \A r, q \in Content' : r[1] = q[1] => r = q
      BY <1>4, Unpacked DEF ManifestFits
    <2>2. NewestLive(segments)'
      <3>1. ASSUME NEW i \in DOMAIN refs, NEW j \in DOMAIN refs, i < j,
                   NEW r \in Loaded(i), NEW q \in files[refs[j].file]
            PROVE  r[1] # q[1]
        BY <1>0, <3>1, Unpacked DEF ManifestFits
      <3> QED
        BY <1>3, <3>1 DEF NewestLive
    <2> QED
      BY <1>1, <2>1, <2>2 DEF OneLive
  <1>7. /\ manifest.wal \in Generations /\ Log \in LogType /\ MarksInOrder(Log)
        /\ logs \in [Generations -> LogType] /\ Len(Log.recs) \in Nat
    BY Unpacked, LogTyped DEF Typed, LogsTyped, Log
  <1>8. PICK recs, n : recs = Log.recs /\ n = Intact(recs)
    OBVIOUS
  <1>9. /\ Log' = Truncated(Log)
        /\ \A g \in Generations : g # manifest.wal => logs'[g] = logs[g]
    BY <1>1, <1>7 DEF Log
  <1>10. /\ Log'.recs = SubSeq(recs, 1, n) /\ Len(Log'.recs) = n
         /\ \A i \in 1 .. n : Log'.recs[i] # Torn
    BY <1>7, <1>8, <1>9, TruncatedTyped
  <1>11. n \in 0 .. Len(recs) /\ \A i \in 1 .. n : Log'.recs[i] = recs[i]
    <2>1. recs \in Seq(Entry \cup {Torn})
      BY <1>7, <1>8 DEF LogType
    <2>2. n \in 0 .. Len(recs)
      BY <1>8, <2>1, IntactPrefix
    <2> QED
      BY <1>10, <2>1, <2>2
  <1>12. LogFits'
    BY <1>5, <1>7, <1>8, <1>10, <1>11, Unpacked, FitsKept
  <1>13. LogsNamed'
    BY <1>1, <1>7, <1>9, <1>10, Unpacked, LogTypedNext DEF LogsNamed, Generations
  <1>14. MetaInStep'
    BY <1>1, <1>4, Unpacked DEF MetaInStep, ManifestFits
  <1>15. Recoverable'
    <2>1. Restored(0)' = Content'
      BY <1>4, <1>5 DEF Restored
    <2>2. position' \in 1 .. Len(Log'.recs) + 1 /\ position' - 1 = 0
      BY <1>1, <1>10, <1>11
    <2>3. Restored(position - 1)' = Restored(0)'
      BY <2>2 DEF Restored
    <2> QED
      BY <1>1, <2>1, <2>2, <2>3 DEF Recoverable, InCheckpoint, Working
  <1> QED
    BY <1>1, <1>5, <1>6, <1>12, <1>13, <1>14, <1>15 DEF RecoveryInv

(* The next record of the log can be applied, and gives what a recovery of *)
(* one record more would give.                                             *)
LEMMA ReplayRecovery ==
  ASSUME RInv, Typed', ReplayOne
  PROVE  RecoveryInv'
  <1>0. PICK recs, entry, n : recs = Log.recs /\ entry = recs[position] /\ n = position - 1
    OBVIOUS
  <1>1. /\ position \in 1 .. Len(recs) /\ entry \in Entry /\ Len(recs) \in Nat
        /\ \/ entry.op = "insert" /\ entry.rec \in Record /\ ApplyInsert(entry.rec)
           \/ entry.op = "delete" /\ entry.rec[1] \in Ids /\ ApplyDelete(entry.rec[1])
    BY <1>0, Unpacked, ReplayEntry, LogTyped
  <1>2. /\ pc = "replay" /\ position' = position + 1
        /\ UNCHANGED <<files, manifest, logs, active>>
        /\ \/ pc' = "replay"
           \/ pc' = "refused" /\ entry.op = "insert" /\ entry.rec[1] \in IdsOf(buffer)
    BY <1>0 DEF ReplayOne
  <1>3. /\ n \in Nat /\ n + 1 = position /\ entry # Torn
        /\ Content = Restored(n) /\ meta = Content /\ OneLive
    BY <1>0, <1>1, <1>2, Entries, Unpacked DEF Recoverable, MetaInStep, Up
  <1>4. Fits(entry, Content)
    BY <1>0, <1>1, <1>3, Unpacked DEF LogFits
  <1>5. pc' = "replay"
    <2>1. buffer \subseteq Content
      BY Parts
    <2> QED
      BY <1>2, <1>4, <2>1 DEF Fits, IdsOf
  <1>6. /\ OneLive' /\ meta' = Content'
        /\ Content' = { r \in Content : r[1] # entry.rec[1] }
                      \cup (IF entry.op = "insert" THEN {entry.rec} ELSE {})
    <2>1. CASE entry.op = "insert" /\ entry.rec \in Record /\ ApplyInsert(entry.rec)
      <3>1. entry.rec[1] \notin IdsOf(Content)
        BY <1>4, <2>1 DEF Fits
      <3>2. Content' = Content \cup {entry.rec} /\ OneLive' /\ meta' = Content'
        BY <1>3, <2>1, <3>1, Unpacked, InsertContent
      <3> QED
        BY <2>1, <3>1, <3>2 DEF IdsOf
    <2>2. CASE entry.op = "delete" /\ entry.rec[1] \in Ids /\ ApplyDelete(entry.rec[1])
      <3>1. /\ Content' = { r \in Content : r[1] # entry.rec[1] } /\ OneLive'
            /\ meta' = Content'
        BY <1>3, <1>4, <2>2, Unpacked, DeleteContent DEF Fits
      <3> QED
        BY <2>2, <3>1
    <2> QED
      BY <1>1, <2>1, <2>2
  <1>7. UNCHANGED Checkpointed /\ ManifestFits'
    BY <1>2, Unpacked, CheckpointKept
  <1>8. Log' = Log
    BY <1>2 DEF Log
  <1>9. \A m : Restored(m)' = Restored(m)
    BY <1>7, <1>8 DEF Restored
  <1>10. Restored(n + 1) = { r \in Restored(n) : r[1] # entry.rec[1] }
                          \cup (IF entry.op = "insert" THEN {entry.rec} ELSE {})
    <2>1. PICK base : base = Checkpointed
      OBVIOUS
    <2>2. Replays(base, recs, n)
      BY <1>3, RecoveredNext
    <2>3. recs[n + 1] = entry
      BY <1>0, <1>3
    <2>4. Recovered(base, recs, n + 1) =
              { r \in Recovered(base, recs, n) : r[1] # entry.rec[1] }
              \cup (IF entry.op = "insert" THEN {entry.rec} ELSE {})
      BY <2>2, <2>3 DEF Replays
    <2> QED
      BY <1>0, <2>1, <2>4, RestoredIs
  <1>11. Recoverable'
    <2>1. Content' = Restored(n + 1)
      BY <1>3, <1>6, <1>10
    <2>2. PICK m : m = n + 1
      OBVIOUS
    <2>3. position' - 1 = m /\ position' \in 1 .. Len(Log'.recs) + 1
      BY <1>0, <1>1, <1>2, <1>3, <1>8, <2>2
    <2>4. Restored(m)' = Content'
      BY <1>9, <2>1, <2>2
    <2>5. Restored(position - 1)' = Restored(m)'
      BY <2>3 DEF Restored
    <2> QED
      BY <1>5, <2>3, <2>4, <2>5 DEF Recoverable, InCheckpoint, Working
  <1>12. LogFits'
    BY <1>8, <1>9, Unpacked DEF LogFits
  <1>13. LogsNamed' /\ MetaInStep'
    BY <1>2, <1>5, <1>6, <1>8, Unpacked DEF LogsNamed, MetaInStep
  <1> QED
    BY <1>5, <1>6, <1>7, <1>11, <1>12, <1>13 DEF RecoveryInv

-----------------------------------------------------------------------------
(* All steps together. *)

LEMMA InitRecovery ==
  ASSUME Init
  PROVE  RecoveryInv
  <1>1. /\ buffer = {} /\ segments = <<>> /\ meta = {} /\ pc = "serving" /\ active = 0
        /\ manifest = NoManifest /\ logs = [g \in Generations |-> EmptyLog]
    BY DEF Init
  <1>2. /\ Log = EmptyLog /\ Len(Log.recs) = 0 /\ DOMAIN Log.recs = {}
        /\ manifest.refs = <<>> /\ manifest.meta = NoFile
        /\ manifest.wal = 0 /\ manifest.generation = 0
    <2>1. Len(<<>>) = 0 /\ DOMAIN <<>> = {}
      OBVIOUS
    <2> QED
      BY <1>1, <2>1, Constants DEF Log, EmptyLog, NoManifest
  <1>3. Content = {} /\ Checkpointed = {}
    <2>1. DOMAIN <<>> = {}
      OBVIOUS
    <2> QED
      BY <1>1, <1>2, <2>1 DEF Content, Checkpointed
  <1>4. OneLive
    BY <1>1, <1>3 DEF OneLive, NewestLive
  <1>5. LogsNamed
    BY <1>1, <1>2 DEF LogsNamed
  <1>6. LogFits
    BY <1>2 DEF LogFits
  <1>7. Restored(Len(Log.recs)) = {}
    <2>1. Restored(0) = {}
      BY <1>3, RestoredNone
    <2>2. Restored(Len(Log.recs)) = Restored(0)
      BY <1>2 DEF Restored
    <2> QED
      BY <2>1, <2>2
  <1>8. Recoverable
    BY <1>1, <1>3, <1>7 DEF Recoverable, InCheckpoint
  <1>9. ManifestFits
    BY <1>2, <1>3 DEF ManifestFits
  <1> QED
    BY <1>1, <1>3, <1>4, <1>5, <1>6, <1>8, <1>9 DEF RecoveryInv, MetaInStep

LEMMA RecoveryStep ==
  ASSUME LogReliable, RInv, [Next]_vars
  PROVE  RInv'
  <1>1. DiskInv' /\ Typed'
    BY DiskStep DEF RInv, DiskInv
  <1>2. RecoveryInv'
    <2>1. ASSUME NEW id \in Ids, Insert(id) PROVE RecoveryInv'
      BY <1>1, <2>1, InsertRecovery
    <2>2. ASSUME NEW id \in Ids, Delete(id) PROVE RecoveryInv'
      BY <1>1, <2>2, DeleteRecovery
    <2>3. ASSUME NEW id \in Ids, AppendFails(id) PROVE RecoveryInv'
      BY <2>3 DEF AppendFails, Fails, LogReliable
    <2>4. CASE EndBatch \/ Shutdown \/ RotateWal
      BY <1>1, <2>4, QuietRecovery
    <2>5. CASE FinishReplay \/ WriteMetadata \/ GcDone \/ CheckpointFails
      BY <1>1, <2>5, NoLogRecovery
    <2>6. CASE StartCheckpoint
      BY <1>1, <2>6, StartRecovery
    <2>7. CASE WriteSegment
      BY <1>1, <2>7, SegmentRecovery
    <2>8. CASE WriteManifest
      BY <1>1, <2>8, ManifestRecovery
    <2>9. CASE GcRemove
      BY <1>1, <2>9, GcRecovery
    <2>10. CASE Merge
      BY <1>1, <2>10, MergeRecovery
    <2>11. CASE ProcessCrash
      BY <1>1, <2>11, ProcessRecovery
    <2>12. CASE MachineCrash
      BY <1>1, <2>12, MachineRecovery
    <2>13. CASE Open
      BY <1>1, <2>13, OpenRecovery
    <2>14. CASE ReplayOne
      BY <1>1, <2>14, ReplayRecovery
    <2>15. CASE UNCHANGED vars
      BY <2>15, StutterRecovery
    <2> QED
      BY <2>1, <2>2, <2>3, <2>4, <2>5, <2>6, <2>7, <2>8, <2>9, <2>10, <2>11, <2>12, <2>13,
         <2>14, <2>15 DEF Next
  <1> QED
    BY <1>1, <1>2 DEF RInv

LEMMA RecoveryInvariant ==
  ASSUME LogReliable
  PROVE  Spec => []RInv
  <1>1. Init => RInv
    BY InitTyped, InitFiles, InitRecovery DEF RInv, DiskInv
  <1>2. RInv /\ [Next]_vars => RInv'
    BY RecoveryStep
  <1> QED
    BY <1>1, <1>2, PTL DEF Spec

(* Replay never meets a record it cannot apply, so every start succeeds:   *)
(* the log holds applied writes only, in the order they were applied, and  *)
(* starts where the manifest's segments end.                               *)
THEOREM EveryStartSucceeds ==
  ASSUME LogReliable
  PROVE  Spec => []RecoveryOpens
  <1>1. RInv => RecoveryOpens
    BY DEF RInv, RecoveryInv, RecoveryOpens
  <1> QED
    BY <1>1, RecoveryInvariant, PTL

(* Live records have their metadata and no metadata outlives its record,   *)
(* through seals, merges, checkpoints, crashes and replay.                 *)
THEOREM MetadataIsComplete ==
  ASSUME LogReliable
  PROVE  Spec => []MetadataFollows
  <1>1. RInv => MetadataFollows
    BY DEF RInv, RecoveryInv, MetaInStep, Up, MetadataFollows
  <1> QED
    BY <1>1, RecoveryInvariant, PTL

-----------------------------------------------------------------------------
(* What was answered survives.  A write that no reply covers yet may be in *)
(* the BufWriter only; from the reply on it is in the file and, unless the *)
(* policy is "none", synced.                                               *)
HistoryInv ==
    /\ pending = 0 => Log.flushed = Len(Log.recs)
    /\ pc # "serving" => pending = 0
    /\ pending > 0 /\ policy # "none" /\ ~dirty => Log.synced = Len(Log.recs)
HInv == RInv /\ HistoryInv

WritesReliable == LogReliable /\ "commit" \notin Faults

LEMMA IntactIs ==
  ASSUME NEW S, NEW recs \in Seq(S), NEW n \in 0 .. Len(recs),
         \A i \in 1 .. n : recs[i] # Torn, n < Len(recs) => recs[n + 1] = Torn
  PROVE  Intact(recs) = n
  <1>1. PICK m : m = Intact(recs)
    OBVIOUS
  <1>2. /\ m \in 0 .. Len(recs) /\ Len(recs) \in Nat
        /\ \A i \in 1 .. m : recs[i] # Torn
        /\ m < Len(recs) => recs[m + 1] = Torn
    BY <1>1, IntactPrefix
  <1>3. ~(m < n)
    <2> SUFFICES ASSUME m < n PROVE FALSE
      OBVIOUS
    <2>1. m + 1 \in 1 .. n /\ m < Len(recs)
      BY <1>2
    <2> QED
      BY <1>2, <2>1
  <1>4. ~(n < m)
    <2> SUFFICES ASSUME n < m PROVE FALSE
      OBVIOUS
    <2>1. n + 1 \in 1 .. m /\ n < Len(recs)
      BY <1>2
    <2> QED
      BY <1>2, <2>1
  <1> QED
    BY <1>1, <1>2, <1>3, <1>4

(* The history that DurableStore sees ends with what callers see. *)
MarksFit ==
    /\ Len(Log.recs) \in Nat /\ Newest \in 0 .. Len(Log.recs) /\ Oldest \in 0 .. Newest
    /\ Least(Log.flushed, Newest) \in Oldest .. Newest
    /\ KeptVersion = Least(Log.flushed, Newest) - Oldest + 1
    /\ pc # "down" => /\ Newest = Len(Log.recs) /\ Oldest = Log.synced
                      /\ Least(Log.flushed, Newest) = Log.flushed
    /\ \A i \in 1 .. Newest : Log.recs[i] # Torn
    /\ Shown = Restored(Newest)

LEMMA Marks == RInv => MarksFit
  <1> SUFFICES ASSUME RInv PROVE MarksFit
    OBVIOUS
  <1>1. /\ Log \in LogType /\ MarksInOrder(Log) /\ Len(Log.recs) \in Nat
        /\ Log.recs \in Seq(Entry \cup {Torn}) /\ DOMAIN Log.recs = 1 .. Len(Log.recs)
    BY Unpacked, LogTyped DEF Typed, LogsTyped, Log
  <1>2. PICK recs, n : recs = Log.recs /\ n = Intact(recs)
    OBVIOUS
  <1>3. /\ n \in 0 .. Len(recs) /\ n = Newest
        /\ \A i \in 1 .. n : recs[i] # Torn
        /\ n < Len(recs) => recs[n + 1] = Torn
    BY <1>1, <1>2, IntactPrefix DEF Newest
  <1>4. /\ Log.flushed \in Nat /\ Log.synced \in Nat
        /\ Log.synced <= Log.flushed /\ Log.flushed <= Len(recs)
    BY <1>1, <1>2 DEF LogType, MarksInOrder
  <1>5. pc # "down" => n = Len(recs)
    <2>1. \A i \in 1 .. Len(recs) : pc # "down" => recs[i] # Torn
      BY <1>1, <1>2, Unpacked DEF LogsNamed
    <2>2. n < Len(recs) => n + 1 \in 1 .. Len(recs) /\ recs[n + 1] = Torn
      BY <1>1, <1>2, <1>3
    <2> QED
      BY <1>1, <1>2, <1>3, <2>1, <2>2
  <1>6. Shown = Restored(Newest)
    <2>1. CASE pc \in {"down", "replay"}
      BY <2>1 DEF Shown
    <2>2. CASE pc \notin {"down", "replay"}
      <3>1. pc = "serving" \/ Working
        BY <2>2, Unpacked DEF PC, Working
      <3>2. Content = Restored(Len(Log.recs))
        BY <3>1, Unpacked DEF Recoverable
      <3>3. Newest = Len(Log.recs)
        BY <1>2, <1>3, <1>5, <2>2
      <3> QED
        BY <2>2, <3>2, <3>3 DEF Shown, Restored
    <2> QED
      BY <2>1, <2>2
  <1> QED
    BY <1>1, <1>2, <1>3, <1>4, <1>5, <1>6 DEF MarksFit, Oldest, KeptVersion, Least

LEMMA MarksNext ==
  ASSUME RInv'
  PROVE  MarksFit'
  BY Marks, PTL

LEMMA RestoredTyped ==
  ASSUME Typed, FilesInv, NEW n \in 0 .. Len(Log.recs)
  PROVE  Restored(n) \subseteq Record
  <1>1. PICK recs : recs = Log.recs
    OBVIOUS
  <1>2. /\ recs \in Seq(Entry \cup {Torn}) /\ Len(recs) \in Nat
        /\ \A i \in 1 .. n : recs[i] \in Entry \cup {Torn}
    BY <1>1, LogTyped
  <1>3. \A i \in 1 .. n : recs[i].op = "insert" => recs[i].rec \in Record
    <2>1. Torn.op # "insert"
      BY DEF Torn
    <2> QED
      BY <1>2, <2>1, Entries
  <1>4. Checkpointed \subseteq Record
    <2> SUFFICES ASSUME NEW i \in DOMAIN manifest.refs, NEW r \in files[manifest.refs[i].file]
                 PROVE  r \in Record
      BY DEF Checkpointed
    <2>1. manifest.refs[i].file \in DOMAIN files
      BY DEF FilesInv, ManifestNames
    <2> QED
      BY <2>1 DEF Typed, FilesTyped
  <1>5. ASSUME NEW r \in Restored(n)
        PROVE  r \in Checkpointed \/ \E i \in 1 .. n : recs[i].op = "insert" /\ r = recs[i].rec
    BY <1>1 DEF Restored
  <1> QED
    BY <1>3, <1>4, <1>5

(* The versions are a sequence, the last of which callers see. *)
VersionsFit ==
    /\ Versions \in Seq(SUBSET Record) /\ Len(Versions) = Newest - Oldest + 1
    /\ \A i \in 1 .. Newest - Oldest + 1 : Versions[i] = Restored(Oldest + i - 1)
    /\ KeptVersion \in 1 .. Newest - Oldest + 1

LEMMA VersionsAre == RInv => VersionsFit
  <1> SUFFICES ASSUME RInv PROVE VersionsFit
    OBVIOUS
  <1>1. PICK low, high : low = Oldest /\ high = Newest
    OBVIOUS
  <1>2. high \in 0 .. Len(Log.recs) /\ low \in 0 .. high /\ Len(Log.recs) \in Nat
    BY <1>1, Marks DEF MarksFit
  <1>3. PICK m : m = high - low + 1
    OBVIOUS
  <1>4. m \in Nat
    BY <1>2, <1>3
  <1>5. Versions = [i \in 1 .. m |-> Restored(low + i - 1)]
    BY <1>1, <1>3 DEF Versions
  <1>6. \A i \in 1 .. m : Restored(low + i - 1) \in SUBSET Record
    <2> SUFFICES ASSUME NEW i \in 1 .. m PROVE Restored(low + i - 1) \in SUBSET Record
      OBVIOUS
    <2>1. low + i - 1 \in 0 .. Len(Log.recs)
      BY <1>2, <1>3
    <2> QED
      BY <2>1, Unpacked, RestoredTyped
  <1>7. Versions \in [1 .. m -> SUBSET Record]
    BY <1>5, <1>6
  <1>8. Versions \in Seq(SUBSET Record) /\ Len(Versions) = m
    BY <1>4, <1>7
  <1>9. KeptVersion \in 1 .. m
    BY <1>1, <1>2, <1>3, Marks DEF MarksFit
  <1> QED
    BY <1>1, <1>3, <1>5, <1>8, <1>9 DEF VersionsFit

LEMMA VersionsAreNext ==
  ASSUME RInv'
  PROVE  VersionsFit'
  BY VersionsAre, PTL

(* The versions become a suffix of all. *)
LEMMA Persisted ==
  ASSUME VersionsFit, VersionsFit', NEW all \in Seq(SUBSET Record), NEW d \in 0 .. Len(all) - 1,
         Len(Versions') = Len(all) - d,
         \A i \in 1 .. Len(all) - d : Versions'[i] = all[d + i],
         KeptVersion' + d >= KeptVersion
  PROVE  Durable!Persist(all)
  <1>1. PICK new, m : new = Versions' /\ m = Len(all)
    OBVIOUS
  <1>2. /\ m \in Nat /\ d \in 0 .. m - 1 /\ new \in Seq(SUBSET Record) /\ Len(new) = m - d
        /\ \A i \in 1 .. m - d : new[i] = all[d + i]
        /\ KeptVersion' \in 1 .. Len(new)
    BY <1>1 DEF VersionsFit
  <1>3. PICK tail : tail = SubSeq(all, d + 1, m)
    OBVIOUS
  <1>4. /\ tail \in Seq(SUBSET Record) /\ Len(tail) = m - d
        /\ \A i \in 1 .. m - d : tail[i] = all[d + i]
    <2>1. all \in Seq(SUBSET Record) /\ m = Len(all)
      BY <1>1
    <2>2. PICK e : e = d + 1
      OBVIOUS
    <2>3. /\ e \in 1 .. m /\ m \in Nat /\ m - e + 1 = m - d
          /\ \A i \in 1 .. m - d : e + i - 1 = d + i
      BY ONLY <1>2, <2>2
    <2>4. \A i \in e .. m : all[i] \in SUBSET Record
      BY ONLY <2>1, <2>3
    <2>5. /\ SubSeq(all, e, m) \in Seq(SUBSET Record) /\ Len(SubSeq(all, e, m)) = m - e + 1
          /\ \A i \in 1 .. m - e + 1 : SubSeq(all, e, m)[i] = all[e + i - 1]
      BY ONLY <2>3, <2>4, SubSeqProperties
    <2>6. tail = SubSeq(all, e, m)
      BY ONLY <1>3, <2>2
    <2> QED
      BY ONLY <2>3, <2>5, <2>6
  <1>5. new = tail
    BY <1>2, <1>4, SeqEqual
  <1>6. m - Len(new) = d
    BY <1>2
  <1> QED
    BY <1>1, <1>2, <1>3, <1>5, <1>6 DEF Durable!Persist

(* A log that is the same, or longer on disk: the versions become fewer    *)
(* and the last one stays.                                                 *)
LEMMA Settled ==
  ASSUME RInv, RInv', UNCHANGED Checkpointed, UNCHANGED Newest,
         \A i \in 1 .. Newest : Log'.recs[i] = Log.recs[i],
         Oldest <= Oldest', Least(Log.flushed, Newest) <= Least(Log.flushed, Newest)'
  PROVE  Durable!Persist(Versions) /\ UNCHANGED Shown
  <1>0. MarksFit /\ MarksFit' /\ VersionsFit /\ VersionsFit'
    BY Marks, MarksNext, VersionsAre, VersionsAreNext
  <1>1. PICK low, new, high : low = Oldest /\ new = Oldest' /\ high = Newest
    OBVIOUS
  <1>2. low \in Nat /\ new \in Nat /\ high \in Nat /\ low <= new /\ new <= high /\ Newest' = high
    BY <1>0, <1>1 DEF MarksFit
  <1>3. \A k \in 0 .. high : Restored(k)' = Restored(k)
    <2> SUFFICES ASSUME NEW k \in 0 .. high PROVE Restored(k)' = Restored(k)
      OBVIOUS
    <2>1. k \in Nat /\ \A i \in 1 .. k : Log'.recs[i] = Log.recs[i]
      BY <1>1, <1>2
    <2> QED
      BY <2>1, RestoredKept
  <1>4. Shown' = Shown
    <2>1. Shown' = Restored(high)'
      <3>1. Shown' = Restored(Newest)'
        BY <1>0 DEF MarksFit
      <3> QED
        BY <1>2, <3>1 DEF Restored
    <2>2. Shown = Restored(high)
      BY <1>0, <1>1 DEF MarksFit
    <2>3. high \in 0 .. high
      BY <1>2
    <2> QED
      BY <1>3, <2>1, <2>2, <2>3
  <1>5. PICK d : d = new - low
    OBVIOUS
  <1>6. /\ Versions \in Seq(SUBSET Record) /\ Len(Versions) = high - low + 1
        /\ Len(Versions') = high - new + 1
        /\ d \in 0 .. Len(Versions) - 1 /\ Len(Versions') = Len(Versions) - d
    <2>1. Versions \in Seq(SUBSET Record) /\ Len(Versions) = high - low + 1
      BY <1>0, <1>1 DEF VersionsFit
    <2>2. Len(Versions') = high - new + 1
      BY <1>0, <1>1, <1>2 DEF VersionsFit
    <2>3. d \in 0 .. (high - low + 1) - 1 /\ high - new + 1 = (high - low + 1) - d
      BY <1>2, <1>5
    <2> QED
      BY <2>1, <2>2, <2>3
  <1>7. ASSUME NEW i \in 1 .. high - new + 1
        PROVE  Versions'[i] = Versions[d + i]
    <2>1. PICK k : k = new + i - 1
      OBVIOUS
    <2>2. k \in 0 .. high /\ d + i \in 1 .. high - low + 1 /\ low + (d + i) - 1 = k
      BY <1>2, <1>5, <2>1
    <2>3. Versions[d + i] = Restored(k)
      BY <1>0, <1>1, <2>2 DEF VersionsFit
    <2>4. Versions'[i] = Restored(k)'
      <3>1. i \in 1 .. Newest' - Oldest' + 1
        BY <1>1, <1>2
      <3>2. Versions'[i] = Restored(Oldest + i - 1)'
        BY <1>0, <3>1 DEF VersionsFit
      <3> QED
        BY <1>1, <2>1, <3>2 DEF Restored
    <2> QED
      BY <1>3, <2>2, <2>3, <2>4
  <1>8. KeptVersion' + d >= KeptVersion
    <2>1. PICK f, g : f = Least(Log.flushed, Newest) /\ g = Least(Log.flushed, Newest)'
      OBVIOUS
    <2>2. KeptVersion = f - low + 1 /\ f \in low .. high
      BY <1>0, <1>1, <2>1 DEF MarksFit
    <2>3. KeptVersion' = g - new + 1 /\ g \in new .. high
      BY <1>0, <1>1, <1>2, <2>1 DEF MarksFit
    <2>4. f <= g
      BY <2>1
    <2> QED
      BY <1>2, <1>5, <2>2, <2>3, <2>4
  <1>9. Durable!Persist(Versions)
    BY <1>0, <1>2, <1>5, <1>6, <1>7, <1>8, Persisted
  <1> QED
    BY <1>4, <1>9

(* Between starts, what a step does to the log's marks.                    *)
LEMMA SettledUp ==
  ASSUME RInv, RInv', pc # "down", pc' # "down", UNCHANGED Checkpointed,
         Log'.recs = Log.recs, Log.synced <= Log'.synced, Log.flushed <= Log'.flushed
  PROVE  /\ Durable!Persist(Versions) /\ UNCHANGED Shown
         /\ KeptVersion' = Log'.flushed - Log'.synced + 1
         /\ Len(Versions') = Len(Log.recs) - Log'.synced + 1
  <1>1. MarksFit /\ MarksFit' /\ VersionsFit'
    BY Marks, MarksNext, VersionsAreNext
  <1>2. PICK n, new : n = Len(Log.recs) /\ new = Log'.synced
    OBVIOUS
  <1>3. /\ Newest = n /\ Newest' = n /\ Oldest = Log.synced /\ Oldest' = new
        /\ Least(Log.flushed, Newest) = Log.flushed /\ Least(Log.flushed, Newest)' = Log'.flushed
    BY <1>1, <1>2 DEF MarksFit
  <1>4. Durable!Persist(Versions) /\ UNCHANGED Shown
    BY <1>2, <1>3, Settled
  <1>5. KeptVersion' = Log'.flushed - new + 1 /\ Len(Versions') = n - new + 1
    BY <1>1, <1>3 DEF MarksFit, VersionsFit
  <1> QED
    BY <1>2, <1>4, <1>5

(* Only a new manifest changes what a start would load.                    *)
LEMMA CheckpointStays ==
  ASSUME Typed, FilesInv, [Next]_vars, pc = "manifest" => pc' # "gc"
  PROVE  UNCHANGED manifest /\ UNCHANGED Checkpointed
  <1>0. ~WriteManifest
    BY DEF WriteManifest
  <1>1. UNCHANGED manifest
    BY <1>0 DEF Next, Insert, Delete, AppendFails, EndBatch, Shutdown, Merge, StartCheckpoint,
           WriteSegment, WriteMetadata, RotateWal, GcRemove, GcDone, CheckpointFails,
           ProcessCrash, MachineCrash, Forget, Open, ReplayOne, FinishReplay
  <1>2. ASSUME NEW f \in DOMAIN files, f \in Referenced PROVE files'[f] = files[f]
    <2>1. /\ manifest.generation \in Nat /\ generation \in Nat
          /\ f = NoFile \/ f[1] <= manifest.generation
      BY <1>2, Indices DEF FilesInv, ManifestNames, Referenced
    <2>2. CASE WriteSegment
      <3>1. manifest.generation < generation /\ position # 0
        BY <2>2 DEF WriteSegment, FilesInv, ManifestNames, Typed, WriterTyped
      <3>2. f # <<generation, position>>
        BY <2>1, <3>1 DEF NoFile
      <3> QED
        BY <2>2, <3>2 DEF WriteSegment, Written
    <2>3. CASE WriteMetadata
      <3>1. manifest.generation < generation
        BY <2>3 DEF WriteMetadata, FilesInv, ManifestNames
      <3>2. f # MetaFile(generation)
        BY <2>1, <3>1 DEF NoFile, MetaFile
      <3> QED
        BY <2>3, <3>2 DEF WriteMetadata, Written
    <2>4. CASE GcRemove
      BY <1>2, <2>4 DEF GcRemove
    <2>5. CASE ~WriteSegment /\ ~WriteMetadata /\ ~GcRemove
      <3>1. UNCHANGED files
        BY <1>0, <2>5 DEF Next, Insert, Delete, AppendFails, EndBatch, Shutdown, Merge, StartCheckpoint,
               RotateWal, GcDone, CheckpointFails,
               ProcessCrash, MachineCrash, Forget, Open, ReplayOne, FinishReplay
      <3> QED
        BY <3>1
    <2> QED
      BY <2>2, <2>3, <2>4, <2>5
  <1> QED
    BY <1>1, <1>2, CheckpointKept

Quiet ==
    \/ Merge \/ WriteSegment \/ WriteMetadata \/ GcRemove \/ GcDone \/ CheckpointFails
    \/ ReplayOne \/ FinishReplay \/ UNCHANGED vars

(* These steps leave the log alone. *)
LEMMA QuietHistory ==
  ASSUME HInv, RInv', Quiet
  PROVE  HistoryInv' /\ Durable!Settle
  <1>0. RInv /\ HistoryInv /\ Typed /\ FilesInv
    BY Unpacked DEF HInv
  <1>1. /\ UNCHANGED <<manifest, policy, pending, dirty, crashes>>
        /\ pc' # "serving" => pc # "serving"
        /\ UNCHANGED logs \/ GcRemove
    BY DEF Quiet, Merge, WriteSegment, WriteMetadata, GcRemove, GcDone, CheckpointFails,
           ReplayOne, FinishReplay, Return
  <1>2. UNCHANGED Checkpointed
    <2>1. [Next]_vars
      BY DEF Quiet, Next
    <2>2. pc = "manifest" => pc' # "gc"
      BY DEF Quiet, Merge, WriteSegment, WriteMetadata, GcRemove, GcDone, CheckpointFails,
             ReplayOne, FinishReplay, Return
    <2> QED
      BY <1>0, <2>1, <2>2, CheckpointStays
  <1>3. Log' = Log
    <2>1. CASE GcRemove
      <3>1. UNCHANGED logs \/ \E g \in Generations \ {manifest.wal} : logs' = [logs EXCEPT ![g] = EmptyLog]
        BY <2>1 DEF GcRemove
      <3>2. logs \in [Generations -> LogType]
        BY <1>0 DEF Typed, LogsTyped
      <3>3. logs'[manifest.wal] = logs[manifest.wal] /\ manifest' = manifest
        BY <1>0, <1>1, <3>1, <3>2, LogTyped
      <3> QED
        BY <3>3 DEF Log
    <2> QED
      BY <1>1, <2>1 DEF Log
  <1>4. UNCHANGED Newest /\ UNCHANGED Oldest /\ UNCHANGED Least(Log.flushed, Newest)
    BY <1>3 DEF Newest, Oldest, Least
  <1>5. Durable!Persist(Versions) /\ UNCHANGED Shown
    <2>1. MarksFit
      BY <1>0, Marks
    <2>2. PICK o, f : o = Oldest /\ f = Least(Log.flushed, Newest)
      OBVIOUS
    <2>3. o <= o /\ f <= f
      BY <2>1, <2>2 DEF MarksFit
    <2>4. Oldest <= Oldest' /\ Least(Log.flushed, Newest) <= Least(Log.flushed, Newest)'
      BY <1>4, <2>2, <2>3
    <2> QED
      BY <1>0, <1>2, <1>3, <1>4, <2>4, Settled
  <1>6. HistoryInv'
    BY <1>0, <1>1, <1>3 DEF HistoryInv
  <1> QED
    BY <1>1, <1>5, <1>6 DEF Durable!Settle

LEMMA Flushes ==
  ASSUME Typed, LogsNamed, pc \in {"serving", "rotate"}, UNCHANGED manifest,
         "commit" \notin Faults,
         Commit \/ Sync \/ logs' = [logs EXCEPT ![active] = Flushed(@)]
  PROVE  /\ Log'.recs = Log.recs /\ Log'.flushed = Len(Log.recs)
         /\ Log'.synced \in {Log.synced, Len(Log.recs)}
         /\ Log.synced <= Log'.synced /\ Log.flushed <= Log'.flushed
         /\ Commit /\ policy # "none" /\ dirty => Log'.synced = Len(Log.recs)
  <1>1. active = manifest.wal /\ active \in Generations /\ logs \in [Generations -> LogType]
        /\ logs[active] \in LogType /\ MarksInOrder(logs[active])
    BY DEF LogsNamed, Typed, WriterTyped, LogsTyped
  <1>2. PICK log : log = logs[active]
    OBVIOUS
  <1>3. /\ logs' = [logs EXCEPT ![active] = Flushed(log)] \/ logs' = [logs EXCEPT ![active] = Synced(log)]
        /\ Commit /\ policy # "none" /\ dirty => logs' = [logs EXCEPT ![active] = Synced(log)]
    <2>1. CASE Sync
      BY <1>1, <1>2, <2>1 DEF Sync, Commit, Fails
    <2>2. CASE Commit
      BY <1>1, <1>2, <2>2 DEF Commit, Sync, Fails
    <2>3. CASE logs' = [logs EXCEPT ![active] = Flushed(@)]
      BY <1>1, <1>2, <2>3 DEF Commit, Sync, Fails
    <2> QED
      BY <2>1, <2>2, <2>3
  <1>4. Log = log
    BY <1>1, <1>2 DEF Log
  <1>5. Log' = Flushed(log) \/ Log' = Synced(log)
    BY <1>1, <1>3 DEF Log
  <1>6. Commit /\ policy # "none" /\ dirty => Log' = Synced(log)
    BY <1>1, <1>3 DEF Log
  <1>7. /\ log.synced \in Nat /\ log.flushed \in Nat /\ Len(log.recs) \in Nat
        /\ log.synced <= log.flushed /\ log.flushed <= Len(log.recs)
    BY <1>1, <1>2 DEF LogType, MarksInOrder
  <1>8. /\ Flushed(log).recs = log.recs /\ Flushed(log).flushed = Len(log.recs)
        /\ Flushed(log).synced = log.synced
        /\ Synced(log).recs = log.recs /\ Synced(log).flushed = Len(log.recs)
        /\ Synced(log).synced = Len(log.recs)
    BY <1>1, <1>2 DEF Flushed, Synced, LogType
  <1> QED
    BY <1>4, <1>5, <1>6, <1>7, <1>8

(* The end of a batch answers it, and so does the start of a checkpoint if *)
(* there is something to answer.                                           *)
LEMMA FlushHistory ==
  ASSUME WritesReliable, HInv, RInv', EndBatch \/ Shutdown \/ StartCheckpoint \/ RotateWal
  PROVE  HistoryInv' /\ (Durable!Settle \/ Durable!Answer)
  <1>0. /\ RInv /\ HistoryInv /\ Typed /\ FilesInv /\ LogsNamed /\ "commit" \notin Faults
        /\ Len(Log.recs) \in Nat /\ pending \in 0 .. MaxBatch
    BY Unpacked, LogTyped DEF HInv, WritesReliable, Typed, WriterTyped
  <1>1. /\ pc \in {"serving", "rotate"} /\ pc' \in {"serving", "segments", "manifest"}
        /\ UNCHANGED <<manifest, policy, crashes>>
        /\ \/ Commit /\ pending' = 0
           \/ Sync /\ pending = 0 /\ pending' = 0
           \/ logs' = [logs EXCEPT ![active] = Flushed(@)] /\ pending = 0 /\ pending' = 0
    BY <1>0 DEF EndBatch, Shutdown, StartCheckpoint, RotateWal, CommitAndAnswer, HistoryInv
  <1>2. UNCHANGED Checkpointed
    <2>1. [Next]_vars /\ pc # "manifest"
      BY <1>1 DEF Next
    <2> QED
      BY <1>0, <2>1, CheckpointStays
  <1>3. /\ Log'.recs = Log.recs /\ Log'.flushed = Len(Log.recs)
        /\ Log'.synced \in {Log.synced, Len(Log.recs)}
        /\ Log.synced <= Log'.synced /\ Log.flushed <= Log'.flushed
        /\ Commit /\ policy # "none" /\ dirty => Log'.synced = Len(Log.recs)
    BY <1>0, <1>1, Flushes
  <1>4. /\ Durable!Persist(Versions) /\ UNCHANGED Shown
        /\ KeptVersion' = Log'.flushed - Log'.synced + 1
        /\ Len(Versions') = Len(Log.recs) - Log'.synced + 1
    BY <1>0, <1>1, <1>2, <1>3, SettledUp
  <1>5. HistoryInv'
    BY <1>1, <1>3 DEF HistoryInv
  <1>6. CASE pending = 0
    BY <1>1, <1>4, <1>5, <1>6 DEF Durable!Settle
  <1>7. CASE pending # 0
    <2>1. KeptVersion' = Len(Versions')
      BY <1>3, <1>4
    <2>2. policy # "none" => Len(Versions') = 1
      <3>1. policy # "none" => Log'.synced = Len(Log.recs)
        BY <1>0, <1>1, <1>3, <1>7 DEF HistoryInv
      <3> QED
        BY <1>0, <1>4, <3>1
    <2> QED
      BY <1>1, <1>4, <1>5, <2>1, <2>2 DEF Durable!Answer
  <1> QED
    BY <1>6, <1>7

(* The manifest's log is a new one, and its segments are the last version. *)
LEMMA ManifestHistory ==
  ASSUME HInv, RInv', WriteManifest
  PROVE  HistoryInv' /\ Durable!Settle
  <1>0. /\ RInv /\ Typed /\ FilesInv /\ LogsNamed /\ HistoryInv
        /\ MarksFit /\ MarksFit' /\ VersionsFit /\ VersionsFit'
    BY Unpacked, Marks, MarksNext, VersionsAre, VersionsAreNext DEF HInv
  <1>1. /\ pc = "manifest" /\ pc' = "gc" /\ manifest'.wal = generation
        /\ UNCHANGED <<buffer, heap, segments, logs, policy, pending, crashes>>
    BY <1>0 DEF WriteManifest, NextManifest, LogsNamed
  <1>2. Log' = EmptyLog
    <2>1. /\ manifest.generation < generation /\ manifest.wal = manifest.generation
          /\ manifest.generation \in Nat /\ generation \in Generations
      BY <1>0, <1>1, Indices DEF FilesInv, ManifestNames, LogsNamed, Typed, WriterTyped
    <2>2. logs[generation] = EmptyLog
      BY <1>0, <2>1 DEF LogsNamed
    <2> QED
      BY <1>1, <2>2 DEF Log
  <1>3. /\ Log'.recs = <<>> /\ Log'.flushed = 0 /\ Log'.synced = 0 /\ Len(Log'.recs) = 0
    <2>1. Len(<<>>) = 0
      OBVIOUS
    <2> QED
      BY <1>2, <2>1 DEF EmptyLog
  <1>4. HistoryInv'
    BY <1>0, <1>1, <1>3 DEF HistoryInv
  <1>5. Shown' = Shown
    <2>1. Content' = Content
      BY <1>1 DEF Content
    <2> QED
      BY <1>1, <2>1 DEF Shown
  <1>6. PICK low, high : low = Oldest /\ high = Newest
    OBVIOUS
  <1>7. /\ high \in Nat /\ low \in 0 .. high
        /\ Newest' = 0 /\ Oldest' = 0 /\ Least(Log.flushed, Newest)' = 0
    BY <1>0, <1>1, <1>3, <1>6 DEF MarksFit
  <1>8. PICK d : d = high - low
    OBVIOUS
  <1>9. /\ Versions \in Seq(SUBSET Record) /\ Len(Versions) = d + 1
        /\ Versions[d + 1] = Restored(high) /\ Len(Versions') = 1
    <2>1. Versions \in Seq(SUBSET Record)
      BY <1>0 DEF VersionsFit
    <2>2. Len(Versions) = d + 1
      BY <1>0, <1>6, <1>7, <1>8 DEF VersionsFit
    <2>3. d + 1 \in 1 .. high - low + 1 /\ low + (d + 1) - 1 = high
      BY <1>7, <1>8
    <2>4. Versions[d + 1] = Restored(high)
      BY <1>0, <1>6, <2>3 DEF VersionsFit
    <2>5. Len(Versions') = 1
      BY <1>0, <1>7 DEF VersionsFit
    <2> QED
      BY <2>1, <2>2, <2>4, <2>5
  <1>10. Versions'[1] = Versions[d + 1]
    <2>1. Versions'[1] = Restored(Oldest + 1 - 1)'
      BY <1>0, <1>7 DEF VersionsFit
    <2>2. Restored(Oldest + 1 - 1)' = Restored(Newest)'
      BY <1>7 DEF Restored
    <2>3. Shown = Restored(high) /\ Shown' = Restored(Newest)'
      BY <1>0, <1>6 DEF MarksFit
    <2> QED
      BY <1>5, <1>9, <2>1, <2>2, <2>3
  <1>11. KeptVersion' + d >= KeptVersion /\ d \in Nat
    <2>1. KeptVersion \in 1 .. d + 1 /\ KeptVersion' = 1
      BY <1>0, <1>6, <1>7, <1>8 DEF VersionsFit
    <2> QED
      BY <1>7, <1>8, <2>1
  <1>12. Durable!Persist(Versions)
    <2>1. Len(Versions) - d = 1 /\ d \in 0 .. Len(Versions) - 1 /\ d + 1 = 1 + d
      BY <1>9, <1>11
    <2>2. \A i \in 1 .. Len(Versions) - d : Versions'[i] = Versions[d + i]
      BY <1>10, <2>1
    <2> QED
      BY <1>0, <1>9, <1>11, <2>1, <2>2, Persisted
  <1> QED
    BY <1>1, <1>4, <1>5, <1>12 DEF Durable!Settle

(* A start syncs the log that it cuts. *)
LEMMA OpenHistory ==
  ASSUME HInv, RInv', Open
  PROVE  HistoryInv' /\ Durable!Settle
  <1>0. /\ RInv /\ Typed /\ FilesInv /\ LogsNamed /\ HistoryInv /\ MarksFit /\ MarksFit'
    BY Unpacked, Marks, MarksNext DEF HInv
  <1>1. /\ pc = "down" /\ pc' = "replay" /\ pending = 0
        /\ UNCHANGED <<manifest, policy, pending, crashes>>
        /\ logs' = [logs EXCEPT ![manifest.wal] = Truncated(@)]
    BY <1>0 DEF Open, HistoryInv
  <1>2. UNCHANGED Checkpointed
    <2>1. [Next]_vars
      BY DEF Next
    <2> QED
      BY <1>0, <1>1, <2>1, CheckpointStays
  <1>3. /\ Log' = Truncated(Log) /\ Log \in LogType /\ MarksInOrder(Log)
        /\ Log.recs \in Seq(Entry \cup {Torn}) /\ Log.flushed = Len(Log.recs)
    BY <1>0, <1>1, LogTyped DEF Typed, LogsTyped, Log, HistoryInv
  <1>4. PICK recs, n : recs = Log.recs /\ n = Newest
    OBVIOUS
  <1>5. /\ n \in 0 .. Len(recs) /\ Len(recs) \in Nat
        /\ Log'.recs = SubSeq(recs, 1, n) /\ Len(Log'.recs) = n
        /\ \A i \in 1 .. n : Log'.recs[i] = recs[i]
    <2>1. n \in 0 .. Len(recs) /\ Len(recs) \in Nat
      BY <1>0, <1>4 DEF MarksFit
    <2>2. Log'.recs = SubSeq(recs, 1, n) /\ Len(Log'.recs) = n
      BY <1>3, <1>4, TruncatedTyped DEF Newest
    <2> QED
      BY <1>3, <1>4, <2>1, <2>2
  <1>6. \/ n = Len(recs) /\ Log' = Log
        \/ Log'.flushed = n /\ Log'.synced = n
    BY <1>3, <1>4 DEF Truncated, Newest
  <1>7. HistoryInv'
    BY <1>1, <1>3, <1>4, <1>5, <1>6 DEF HistoryInv
  <1>8. Newest' = n /\ Oldest' = Log'.synced /\ Least(Log.flushed, Newest)' = Log'.flushed
    BY <1>0, <1>1, <1>5 DEF MarksFit
  <1>9. Oldest \in 0 .. n /\ Least(Log.flushed, Newest) \in 0 .. n
    BY <1>0, <1>4 DEF MarksFit
  <1>10. Oldest <= Oldest' /\ Least(Log.flushed, Newest) <= Least(Log.flushed, Newest)'
    <2>1. CASE n = Len(recs) /\ Log' = Log
      <3>1. Oldest' = Oldest /\ Log'.flushed = n
        BY <1>3, <1>4, <1>8, <2>1 DEF Oldest, Newest
      <3> QED
        BY <1>8, <1>9, <3>1
    <2>2. CASE Log'.flushed = n /\ Log'.synced = n
      BY <1>8, <1>9, <2>2
    <2> QED
      BY <1>6, <2>1, <2>2
  <1>11. Durable!Persist(Versions) /\ UNCHANGED Shown
    BY <1>0, <1>2, <1>4, <1>5, <1>8, <1>10, Settled
  <1> QED
    BY <1>1, <1>7, <1>11 DEF Durable!Settle

(* What a cut leaves intact. *)
LEMMA CutIntact ==
  ASSUME NEW log \in LogType, NEW n \in 0 .. Len(log.recs), NEW recs \in Cut(log, n),
         \A i \in 1 .. Len(log.recs) : log.recs[i] = Torn => i = Len(log.recs)
  PROVE  /\ recs \in Seq(Entry \cup {Torn}) /\ Len(recs) \in Nat
         /\ Intact(recs) = Least(n, Intact(log.recs)) /\ Intact(recs) <= Len(recs)
         /\ \A i \in 1 .. Intact(recs) : recs[i] = log.recs[i]
  <1>1. PICK old, cut, h : old = log.recs /\ cut = SubSeq(old, 1, n) /\ h = Intact(old)
    OBVIOUS
  <1>2. old \in Seq(Entry \cup {Torn}) /\ Len(old) \in Nat /\ n \in 0 .. Len(old)
    BY <1>1 DEF LogType
  <1>3. /\ cut \in Seq(Entry \cup {Torn}) /\ Len(cut) = n
        /\ \A i \in 1 .. n : cut[i] = old[i]
    BY <1>1, <1>2
  <1>4. recs = cut \/ (recs = Append(cut, Torn) /\ n < Len(old))
    BY <1>1 DEF Cut
  <1>5. /\ h \in 0 .. Len(old) /\ \A i \in 1 .. h : old[i] # Torn
        /\ h < Len(old) => old[h + 1] = Torn
    BY <1>1, <1>2, IntactPrefix
  <1>6. n < Len(old) => n <= h
    <2> SUFFICES ASSUME n < Len(old), ~(n <= h) PROVE FALSE
      OBVIOUS
    <2>1. h + 1 \in 1 .. Len(old) /\ h + 1 < Len(old) /\ h < Len(old)
      BY <1>2, <1>5
    <2> QED
      BY <1>1, <1>5, <2>1
  <1>7. recs \in Seq(Entry \cup {Torn}) /\ Len(recs) \in Nat
    BY <1>3, <1>4
  <1>8. PICK m : m = Least(n, h)
    OBVIOUS
  <1>9. /\ m \in Nat /\ m <= n /\ m <= h
        /\ m = n \/ (m = h /\ n = Len(old))
    BY <1>2, <1>5, <1>6, <1>8 DEF Least
  <1>10. /\ m \in 0 .. Len(recs)
         /\ \A i \in 1 .. m : recs[i] = old[i] /\ recs[i] # Torn
         /\ m < Len(recs) => recs[m + 1] = Torn
    <2>1. CASE recs = cut
      <3>1. m < n => m = h /\ m < Len(old) /\ m + 1 \in 1 .. n
        BY <1>2, <1>9
      <3> QED
        BY <1>3, <1>5, <1>9, <2>1, <3>1
    <2>2. CASE recs = Append(cut, Torn) /\ n < Len(old)
      <3>1. /\ Len(recs) = n + 1 /\ recs[n + 1] = Torn
            /\ \A i \in 1 .. n : recs[i] = cut[i]
        BY <1>3, <2>2
      <3>2. m = n
        BY <1>2, <1>6, <1>8, <2>2 DEF Least
      <3> QED
        BY <1>3, <1>5, <1>9, <3>1, <3>2
    <2> QED
      BY <1>4, <2>1, <2>2
  <1>11. Intact(recs) = m
    BY <1>7, <1>10, IntactIs
  <1> QED
    BY <1>1, <1>7, <1>8, <1>10, <1>11

LEMMA TornLast ==
  ASSUME RInv
  PROVE  \A i \in 1 .. Len(Log.recs) : Log.recs[i] = Torn => i = Len(Log.recs)
  BY Unpacked, LogTyped DEF LogsNamed

(* A process crash goes back to a version that is not older than the kept  *)
(* one.                                                                    *)
LEMMA ProcessVersions ==
  ASSUME RInv, RInv', UNCHANGED Checkpointed, NEW m, m = Newest',
         m \in Least(Log.flushed, Newest) .. Newest,
         Oldest' = Oldest, Least(Log.flushed, Newest)' = m,
         \A i \in 1 .. m : Log'.recs[i] = Log.recs[i],
         pending' = 0, crashes' = crashes + 1, UNCHANGED policy
  PROVE  Durable!ProcessCrash
  <1>0. MarksFit /\ MarksFit' /\ VersionsFit /\ VersionsFit'
    BY Marks, MarksNext, VersionsAre, VersionsAreNext
  <1>1. PICK low, high, kept : low = Oldest /\ high = Newest /\ kept = Least(Log.flushed, Newest)
    OBVIOUS
  <1>2. /\ low \in Nat /\ high \in Nat /\ kept \in low .. high /\ m \in kept .. high
        /\ Newest' = m /\ Oldest' = low
    BY <1>0, <1>1 DEF MarksFit
  <1>3. PICK c, new : c = m - low + 1 /\ new = Versions'
    OBVIOUS
  <1>4. KeptVersion = kept - low + 1 /\ KeptVersion' = c
    BY <1>0, <1>1, <1>2, <1>3 DEF MarksFit
  <1>5. Versions \in Seq(SUBSET Record) /\ new \in Seq(SUBSET Record)
    BY <1>0, <1>3 DEF VersionsFit
  <1>6. Len(Versions) = high - low + 1 /\ Len(new) = c
    BY <1>0, <1>1, <1>2, <1>3 DEF VersionsFit
  <1>7. c \in kept - low + 1 .. high - low + 1 /\ c \in 1 .. high - low + 1
    BY <1>2, <1>3
  <1>8. ASSUME NEW i \in 1 .. c PROVE new[i] = Versions[i]
    <2>1. PICK k : k = low + i - 1
      OBVIOUS
    <2>2. /\ k \in Nat /\ k <= m /\ i \in 1 .. high - low + 1 /\ i \in 1 .. m - low + 1
      BY <1>2, <1>3, <1>7, <2>1
    <2>3. Versions[i] = Restored(k)
      BY <1>0, <1>1, <2>1, <2>2 DEF VersionsFit
    <2>4. new[i] = Restored(k)'
      <3>1. i \in 1 .. Newest' - Oldest' + 1
        BY <1>2, <2>2
      <3>2. Versions'[i] = Restored(Oldest + i - 1)'
        BY <1>0, <3>1 DEF VersionsFit
      <3> QED
        BY <1>2, <1>3, <2>1, <3>2 DEF Restored
    <2>5. \A j \in 1 .. k : Log'.recs[j] = Log.recs[j]
      BY <1>2, <2>2
    <2> QED
      BY <2>2, <2>3, <2>4, <2>5, RestoredKept
  <1>9. new = SubSeq(Versions, 1, c)
    <2>1. PICK part : part = SubSeq(Versions, 1, c)
      OBVIOUS
    <2>2. /\ part \in Seq(SUBSET Record) /\ Len(part) = c
          /\ \A i \in 1 .. c : part[i] = Versions[i]
      BY <1>2, <1>5, <1>6, <1>7, <2>1
    <2>3. new = part
      BY <1>5, <1>6, <1>8, <2>2, SeqEqual
    <2> QED
      BY <2>1, <2>3
  <1>10. Shown' = new[Len(new)]
    <2>1. c \in 1 .. Newest' - Oldest' + 1 /\ low + c - 1 = m
      BY <1>2, <1>3, <1>7
    <2>2. new[c] = Restored(Oldest + c - 1)'
      BY <1>0, <1>3, <2>1 DEF VersionsFit
    <2>3. Restored(Oldest + c - 1)' = Restored(Newest)'
      BY <1>2, <2>1 DEF Restored
    <2>4. Shown' = Restored(Newest)'
      BY <1>0 DEF MarksFit
    <2> QED
      BY <1>6, <2>2, <2>3, <2>4
  <1> QED
    BY <1>3, <1>4, <1>6, <1>7, <1>9, <1>10 DEF Durable!ProcessCrash, Durable!Last

LEMMA ProcessHistory ==
  ASSUME HInv, RInv', ProcessCrash
  PROVE  HistoryInv' /\ Durable!ProcessCrash
  <1>0. /\ RInv /\ Typed /\ FilesInv /\ LogsNamed /\ HistoryInv /\ MarksFit
        /\ Log \in LogType /\ MarksInOrder(Log) /\ manifest.wal \in Generations
    BY Unpacked, LogTyped, Marks DEF HInv, Typed, LogsTyped, Log
  <1>1. /\ Forget /\ pc' = "down" /\ pending' = 0 /\ crashes' = crashes + 1
        /\ UNCHANGED <<manifest, policy>>
    BY DEF ProcessCrash, Forget
  <1>2. UNCHANGED Checkpointed
    <2>1. [Next]_vars
      BY DEF Next
    <2> QED
      BY <1>0, <1>1, <2>1, CheckpointStays
  <1>3. PICK n \in logs[active].flushed .. Len(logs[active].recs) :
            \E recs \in Cut(logs[active], n) :
                logs' = [logs EXCEPT ![active] =
                            [recs |-> recs, flushed |-> Len(recs), synced |-> @.synced]]
    BY DEF ProcessCrash
  <1>4. PICK recs \in Cut(logs[active], n) :
            logs' = [logs EXCEPT ![active] =
                        [recs |-> recs, flushed |-> Len(recs), synced |-> @.synced]]
    BY <1>3
  <1>5. logs \in [Generations -> LogType] /\ active \in Generations
    BY <1>0 DEF Typed, LogsTyped, WriterTyped
  <1>6. /\ Log.synced \in Nat /\ Log.flushed \in Nat /\ Len(Log.recs) \in Nat
        /\ Log.synced <= Log.flushed /\ Log.flushed <= Len(Log.recs)
        /\ Newest \in 0 .. Len(Log.recs)
    BY <1>0 DEF LogType, MarksInOrder, MarksFit
  <1>7. CASE manifest.wal = active
    <2>1. /\ Log'.recs = recs /\ Log'.flushed = Len(recs) /\ Log'.synced = Log.synced
          /\ n \in Log.flushed .. Len(Log.recs) /\ recs \in Cut(Log, n)
      BY <1>1, <1>4, <1>5, <1>7 DEF Log
    <2>2. n \in 0 .. Len(Log.recs)
      BY <1>6, <2>1
    <2>3. PICK m : m = Least(n, Newest)
      OBVIOUS
    <2>4. /\ Len(recs) \in Nat /\ Intact(recs) = m /\ m <= Len(recs)
          /\ \A i \in 1 .. m : recs[i] = Log.recs[i]
      BY <1>0, <2>1, <2>2, <2>3, CutIntact, TornLast DEF Newest
    <2>5. Newest' = m
      BY <2>1, <2>4 DEF Newest
    <2>6. m \in Least(Log.flushed, Newest) .. Newest
      BY <1>6, <2>1, <2>3 DEF Least
    <2>7. Oldest' = Oldest
      BY <1>6, <2>1, <2>3, <2>5 DEF Oldest, Least
    <2>8. Least(Log.flushed, Newest)' = m
      BY <1>6, <2>1, <2>4, <2>5, <2>6 DEF Least
    <2>9. Durable!ProcessCrash
      BY <1>0, <1>1, <1>2, <2>1, <2>4, <2>5, <2>6, <2>7, <2>8, ProcessVersions
    <2> QED
      BY <1>1, <2>1, <2>9 DEF HistoryInv
  <1>8. CASE manifest.wal # active
    <2>1. Log' = Log
      BY <1>0, <1>1, <1>4, <1>5, <1>8 DEF Log
    <2>2. pending = 0
      BY <1>0, <1>8 DEF LogsNamed, HistoryInv
    <2>3. Log.flushed = Len(Log.recs)
      BY <1>0, <2>2 DEF HistoryInv
    <2>4. PICK m : m = Newest
      OBVIOUS
    <2>5. /\ Newest' = m /\ Oldest' = Oldest
          /\ Least(Log.flushed, Newest)' = Least(Log.flushed, Newest)
      BY <2>1, <2>4 DEF Newest, Oldest, Least
    <2>6. Least(Log.flushed, Newest) = m /\ m \in m .. Newest
      BY <1>6, <2>3, <2>4 DEF Least
    <2>7. Durable!ProcessCrash
      BY <1>0, <1>1, <1>2, <2>1, <2>5, <2>6, ProcessVersions
    <2> QED
      BY <1>1, <2>1, <2>3, <2>7 DEF HistoryInv
  <1> QED
    BY <1>7, <1>8

(* A machine crash leaves one version. *)
LEMMA MachineHistory ==
  ASSUME HInv, RInv', MachineCrash
  PROVE  HistoryInv' /\ Durable!MachineCrash
  <1>0. /\ RInv /\ Typed /\ FilesInv /\ LogsNamed /\ HistoryInv
        /\ MarksFit /\ MarksFit' /\ VersionsFit /\ VersionsFit'
        /\ Log \in LogType /\ MarksInOrder(Log) /\ manifest.wal \in Generations
    BY Unpacked, LogTyped, Marks, MarksNext, VersionsAre, VersionsAreNext
       DEF HInv, Typed, LogsTyped, Log
  <1>1. /\ Forget /\ pc' = "down" /\ pending' = 0 /\ crashes' = crashes + 1
        /\ UNCHANGED <<manifest, policy>>
    BY DEF MachineCrash, Forget
  <1>2. UNCHANGED Checkpointed
    <2>1. [Next]_vars
      BY DEF Next
    <2> QED
      BY <1>0, <1>1, <2>1, CheckpointStays
  <1>3. PICK n \in [manifest.wal .. MaxGeneration -> 0 .. MaxLog], torn \in BOOLEAN :
            /\ \A g \in DOMAIN n : n[g] \in logs[g].synced .. Len(logs[g].recs)
            /\ logs' = [g \in Generations |->
                   IF g \notin DOMAIN n THEN logs[g] ELSE
                   LET cut == SubSeq(logs[g].recs, 1, n[g])
                       recs == IF torn /\ n[g] < Len(logs[g].recs)
                               THEN Append(cut, Torn) ELSE cut
                   IN  [recs |-> recs, flushed |-> Len(recs), synced |-> Len(recs)]]
    BY DEF MachineCrash
  <1>4. PICK k : k = n[manifest.wal]
    OBVIOUS
  <1>5. manifest.wal \in DOMAIN n /\ k \in Log.synced .. Len(Log.recs)
    <2>1. manifest.wal \in DOMAIN n
      BY <1>0, <1>3, Constants DEF Generations
    <2> QED
      BY <1>3, <1>4, <2>1 DEF Log
  <1>6. PICK recs : recs = IF torn /\ k < Len(Log.recs)
                           THEN Append(SubSeq(Log.recs, 1, k), Torn) ELSE SubSeq(Log.recs, 1, k)
    OBVIOUS
  <1>7. /\ recs \in Cut(Log, k)
        /\ Log' = [recs |-> recs, flushed |-> Len(recs), synced |-> Len(recs)]
    <2>1. recs \in Cut(Log, k)
      BY <1>6 DEF Cut
    <2>2. logs'[manifest.wal] = [recs |-> recs, flushed |-> Len(recs), synced |-> Len(recs)]
      BY <1>0, <1>3, <1>4, <1>5, <1>6 DEF Log
    <2> QED
      BY <1>1, <2>1, <2>2 DEF Log
  <1>8. /\ Log.synced \in Nat /\ Len(Log.recs) \in Nat /\ k \in 0 .. Len(Log.recs)
        /\ Newest \in 0 .. Len(Log.recs)
    BY <1>0, <1>5 DEF LogType, MarksFit
  <1>9. PICK m : m = Least(k, Newest)
    OBVIOUS
  <1>10. /\ Len(recs) \in Nat /\ Intact(recs) = m /\ m <= Len(recs)
         /\ \A i \in 1 .. m : recs[i] = Log.recs[i]
    BY <1>0, <1>7, <1>8, <1>9, CutIntact, TornLast DEF Newest
  <1>11. m \in Oldest .. Newest /\ m \in Nat
    BY <1>5, <1>8, <1>9 DEF Oldest, Least
  <1>12. Newest' = m /\ Oldest' = m /\ Least(Log.flushed, Newest)' = m
    BY <1>7, <1>10, <1>11 DEF Newest, Oldest, Least
  <1>13. HistoryInv'
    BY <1>1, <1>7 DEF HistoryInv
  <1>14. PICK low, high, new, j : low = Oldest /\ high = Newest /\ new = Versions' /\ j = m - low + 1
    OBVIOUS
  <1>15. /\ new \in Seq(SUBSET Record) /\ Len(new) = 1 /\ KeptVersion' = 1
         /\ new[1] = Restored(Oldest + 1 - 1)' /\ Shown' = Restored(Newest)'
    <2>1. KeptVersion' = 1
      BY <1>0, <1>11, <1>12 DEF MarksFit
    <2>2. new \in Seq(SUBSET Record) /\ Len(new) = 1
      <3>1. m - m + 1 = 1
        BY <1>11
      <3> QED
        BY <1>0, <1>12, <1>14, <3>1 DEF VersionsFit
    <2>3. 1 \in 1 .. Newest' - Oldest' + 1
      BY <1>11, <1>12
    <2>4. new[1] = Restored(Oldest + 1 - 1)'
      BY <1>0, <1>14, <2>3 DEF VersionsFit
    <2> QED
      BY <1>0, <2>1, <2>2, <2>4 DEF MarksFit
  <1>16. new[1] = Restored(m)' /\ Shown' = new[1]
    BY <1>11, <1>12, <1>15 DEF Restored
  <1>17. Restored(m)' = Restored(m)
    <2>1. \A i \in 1 .. m : Log'.recs[i] = Log.recs[i]
      BY <1>7, <1>10
    <2> QED
      BY <1>2, <1>11, <2>1, RestoredKept
  <1>18. j \in 1 .. Len(Versions) /\ Versions[j] = Restored(m)
    <2>1. low \in Nat /\ high \in Nat /\ m \in low .. high
      BY <1>0, <1>11, <1>14 DEF MarksFit
    <2>2. j \in 1 .. high - low + 1 /\ low + j - 1 = m
      BY <1>14, <2>1
    <2> QED
      BY <1>0, <1>14, <2>2 DEF VersionsFit
  <1>19. new = <<Versions[j]>>
    BY <1>15, <1>16, <1>17, <1>18
  <1> QED
    BY <1>1, <1>13, <1>14, <1>15, <1>16, <1>18, <1>19 DEF Durable!MachineCrash, Durable!Last

(* A write adds a version. *)
LEMMA WriteHistory ==
  ASSUME HInv, RInv', pc = "serving", pc' = "serving", UNCHANGED <<manifest, policy>>,
         UNCHANGED Checkpointed, NEW entry \in Entry, AppendEntry(entry), pending' = pending + 1
  PROVE  /\ HistoryInv' /\ Shown = Content /\ Shown' = Content'
         /\ Durable!Persist(Append(Versions, Shown'))
  <1>0. /\ RInv /\ Typed /\ LogsNamed /\ HistoryInv
        /\ MarksFit /\ MarksFit' /\ VersionsFit /\ VersionsFit'
        /\ Log \in LogType /\ MarksInOrder(Log) /\ manifest.wal \in Generations
        /\ Log.recs \in Seq(Entry \cup {Torn}) /\ pending \in Nat
    BY Unpacked, LogTyped, Marks, MarksNext, VersionsAre, VersionsAreNext
       DEF HInv, Typed, LogsTyped, Log, WriterTyped
  <1>1. Shown = Content /\ Shown' = Content'
    BY DEF Shown
  <1>2. PICK n, s, f : n = Len(Log.recs) /\ s = Log.synced /\ f = Log.flushed
    OBVIOUS
  <1>3. n \in Nat /\ s \in Nat /\ f \in Nat /\ s <= f /\ f <= n
    BY <1>0, <1>2 DEF LogType, MarksInOrder
  <1>4. PICK log : log = Appended(Log, entry)
    OBVIOUS
  <1>5. log.recs = Append(Log.recs, entry) /\ log.flushed = f /\ log.synced = s
    BY <1>0, <1>2, <1>4 DEF Appended, LogType
  <1>6. Len(log.recs) = n + 1 /\ \A i \in 1 .. n : log.recs[i] = Log.recs[i]
    BY <1>0, <1>2, <1>5
  <1>7. /\ Flushed(log).recs = log.recs /\ Flushed(log).flushed = n + 1 /\ Flushed(log).synced = s
        /\ Synced(log).recs = log.recs /\ Synced(log).flushed = n + 1 /\ Synced(log).synced = n + 1
    <2>1. log \in LogType
      BY <1>0, <1>4, LogOps
    <2> QED
      BY <1>5, <1>6, <2>1 DEF Flushed, Synced, LogType
  <1>8. /\ active = manifest.wal /\ Log = logs[active] /\ logs \in [Generations -> LogType]
        /\ Log' = logs'[active]
    BY <1>0 DEF LogsNamed, Log, Typed, LogsTyped
  <1>9. \/ policy = "none" /\ Log' = Flushed(log)
        \/ Log' = Synced(log)
        \/ dirty' = TRUE /\ Log' = log
    BY <1>0, <1>4, <1>8 DEF AppendEntry
  <1>10. PICK s1, f1 : s1 = Log'.synced /\ f1 = Log'.flushed
    OBVIOUS
  <1>11. /\ Log'.recs = log.recs /\ s1 \in {s, n + 1} /\ f1 \in {f, n + 1}
         /\ policy = "none" \/ s1 = n + 1 \/ dirty'
    BY <1>5, <1>7, <1>9, <1>10
  <1>12. HistoryInv'
    BY <1>0, <1>6, <1>10, <1>11 DEF HistoryInv
  <1>13. /\ Newest = n /\ Oldest = s /\ KeptVersion = f - s + 1
         /\ Newest' = n + 1 /\ Oldest' = s1 /\ KeptVersion' = f1 - s1 + 1
    BY <1>0, <1>2, <1>6, <1>10, <1>11 DEF MarksFit
  <1>14. PICK all, d : all = Append(Versions, Shown') /\ d = s1 - s
    OBVIOUS
  <1>15. /\ Versions \in Seq(SUBSET Record) /\ Len(Versions) = n - s + 1
         /\ Len(Versions') = (n + 1) - s1 + 1
    <2>1. Versions \in Seq(SUBSET Record)
      BY <1>0 DEF VersionsFit
    <2>2. Len(Versions) = n - s + 1
      BY <1>0, <1>13 DEF VersionsFit
    <2>3. Len(Versions') = (n + 1) - s1 + 1
      BY <1>0, <1>13 DEF VersionsFit
    <2> QED
      BY <2>1, <2>2, <2>3
  <1>16. Shown' \in SUBSET Record /\ Shown' = Restored(n + 1)'
    <2>1. Shown' = Restored(Newest)'
      BY <1>0 DEF MarksFit
    <2>2. Restored(Newest)' = Restored(n + 1)'
      BY <1>13 DEF Restored
    <2>3. PICK new : new = Versions'
      OBVIOUS
    <2>4. Len(new) \in 1 .. Len(new) /\ Len(new) = (n + 1) - s1 + 1
      BY <1>3, <1>11, <1>15, <2>3
    <2>5. new \in Seq(SUBSET Record)
      BY <1>0, <2>3 DEF VersionsFit
    <2>6. new[Len(new)] \in SUBSET Record
      BY <2>4, <2>5
    <2>7. PICK k : k = Len(new)
      OBVIOUS
    <2>8. k \in 1 .. Newest' - Oldest' + 1 /\ s1 + k - 1 = n + 1
      BY <1>3, <1>11, <1>13, <2>4, <2>7
    <2>9. new[k] = Restored(Oldest + k - 1)'
      BY <1>0, <2>3, <2>8 DEF VersionsFit
    <2>10. Restored(Oldest + k - 1)' = Restored(n + 1)'
      BY <1>13, <2>8 DEF Restored
    <2> QED
      BY <2>1, <2>2, <2>6, <2>7, <2>9, <2>10
  <1>17. /\ all \in Seq(SUBSET Record) /\ Len(all) = n - s + 2
         /\ all[n - s + 2] = Shown'
         /\ \A i \in 1 .. n - s + 1 : all[i] = Versions[i]
    <2>1. all \in Seq(SUBSET Record)
      BY <1>14, <1>15, <1>16
    <2>2. /\ Len(all) = Len(Versions) + 1 /\ all[Len(Versions) + 1] = Shown'
          /\ \A i \in 1 .. Len(Versions) : all[i] = Versions[i]
      BY <1>14, <1>15, <1>16
    <2>3. Len(Versions) + 1 = n - s + 2
      BY <1>3, <1>15
    <2> QED
      BY <1>15, <2>1, <2>2, <2>3
  <1>18. d \in 0 .. Len(all) - 1 /\ Len(Versions') = Len(all) - d
    <2>1. d \in 0 .. (n - s + 2) - 1 /\ (n + 1) - s1 + 1 = (n - s + 2) - d
      <3>1. s1 = s \/ s1 = n + 1
        BY <1>11
      <3> QED
        BY <1>3, <1>14, <3>1
    <2> QED
      BY <1>15, <1>17, <2>1
  <1>19. ASSUME NEW i \in 1 .. Len(all) - d
         PROVE  Versions'[i] = all[d + i]
    <2>1. PICK k : k = s1 + i - 1
      OBVIOUS
    <2>2. /\ i \in 1 .. (n + 1) - s1 + 1 /\ k \in Nat /\ d + i = k - s + 1
          /\ k \in s .. n + 1
      BY <1>3, <1>11, <1>14, <1>17, <2>1
    <2>3. Versions'[i] = Restored(k)'
      <3>1. i \in 1 .. Newest' - Oldest' + 1
        BY <1>13, <2>2
      <3>2. Versions'[i] = Restored(Oldest + i - 1)'
        BY <1>0, <3>1 DEF VersionsFit
      <3> QED
        BY <1>13, <2>1, <3>2 DEF Restored
    <2>4. CASE k = n + 1
      BY <1>3, <1>16, <1>17, <2>2, <2>3, <2>4
    <2>5. CASE k # n + 1
      <3>1. k \in s .. n /\ k - s + 1 \in 1 .. n - s + 1 /\ s + (k - s + 1) - 1 = k
        BY <1>3, <2>2, <2>5
      <3>2. all[d + i] = Versions[k - s + 1]
        BY <1>17, <2>2, <3>1
      <3>3. Versions[k - s + 1] = Restored(k)
        BY <1>0, <1>13, <3>1 DEF VersionsFit
      <3>4. \A j \in 1 .. k : Log'.recs[j] = Log.recs[j]
        <4>1. ASSUME NEW j \in 1 .. k PROVE Log'.recs[j] = Log.recs[j]
          <5>1. j \in 1 .. n
            BY ONLY <1>3, <3>1, j \in 1 .. k
          <5>2. log.recs[j] = Log.recs[j]
            BY ONLY <1>6, <5>1
          <5> QED
            BY ONLY <1>11, <5>2
        <4> QED
          BY ONLY <4>1
      <3>5. Restored(k)' = Restored(k)
        BY <2>2, <3>4, RestoredKept
      <3> QED
        BY ONLY <2>3, <3>2, <3>3, <3>5
    <2> QED
      BY <2>4, <2>5
  <1>20. KeptVersion' + d >= KeptVersion
    BY <1>3, <1>11, <1>13, <1>14
  <1>21. Durable!Persist(all)
    BY <1>0, <1>17, <1>18, <1>19, <1>20, Persisted
  <1> QED
    BY <1>1, <1>12, <1>14, <1>21

LEMMA InsertHistory ==
  ASSUME HInv, RInv', NEW id \in Ids, Insert(id)
  PROVE  HistoryInv' /\ \E v \in Vectors : Durable!Insert(id, v)
  <1>0. /\ RInv /\ Typed /\ FilesInv /\ OneLive /\ MetaInStep
    BY Unpacked DEF HInv
  <1>1. PICK v : v = inserted[id] + 1
    OBVIOUS
  <1>2. v \in Vectors
    BY <1>0, <1>1, Constants DEF Insert, Typed, WriterTyped, Vectors
  <1>3. PICK r : r = <<id, v>>
    OBVIOUS
  <1>4. /\ r \in Record /\ r[1] = id
        /\ InsertEntry(r) \in Entry
    BY <1>2, <1>3, Entries DEF Record
  <1>5. /\ pc = "serving" /\ pc' = "serving" /\ id \notin IdsOf(Content)
        /\ AppendEntry(InsertEntry(r)) /\ ApplyInsert(r)
        /\ UNCHANGED <<manifest, policy, crashes>> /\ pending' = pending + 1
    BY <1>1, <1>3 DEF Insert, Accepts, Validated
  <1>6. UNCHANGED Checkpointed
    <2>1. [Next]_vars
      BY DEF Next
    <2> QED
      BY <1>0, <1>5, <2>1, CheckpointStays
  <1>7. Content' = Content \cup {<<id, v>>}
    BY <1>0, <1>3, <1>4, <1>5, InsertContent
  <1>8. \A w \in Vectors : <<id, w>> \notin Content
    BY <1>5 DEF IdsOf
  <1>9. /\ HistoryInv' /\ Shown = Content /\ Shown' = Content'
        /\ Durable!Persist(Append(Versions, Shown'))
    BY <1>4, <1>5, <1>6, WriteHistory
  <1>10. PICK new : new = Shown'
    OBVIOUS
  <1>11. new = Shown \cup {<<id, v>>} /\ Durable!Persist(Append(Versions, new))
    BY <1>7, <1>9, <1>10
  <1>12. Durable!Insert(id, v)
    BY <1>5, <1>8, <1>9, <1>10, <1>11 DEF Durable!Insert, Durable!Write
  <1> QED
    BY <1>2, <1>9, <1>12

LEMMA DeleteHistory ==
  ASSUME HInv, RInv', NEW id \in Ids, Delete(id)
  PROVE  HistoryInv' /\ Durable!Delete(id)
  <1>0. /\ RInv /\ Typed /\ FilesInv /\ OneLive /\ MetaInStep /\ Recoverable
    BY Unpacked DEF HInv
  <1>1. /\ pc = "serving" /\ pc' = "serving" /\ id \in IdsOf(Content)
        /\ AppendEntry(DeleteEntry(id)) /\ ApplyDelete(id)
        /\ UNCHANGED <<manifest, policy, crashes>> /\ pending' = pending + 1
    BY DEF Delete, Accepts
  <1>2. DeleteEntry(id) \in Entry
    BY Entries
  <1>3. UNCHANGED Checkpointed
    <2>1. [Next]_vars
      BY DEF Next
    <2> QED
      BY <1>0, <1>1, <2>1, CheckpointStays
  <1>4. Content' = { q \in Content : q[1] # id }
    BY <1>0, <1>1, DeleteContent
  <1>5. Content \subseteq Record
    <2>1. \A n : n = Len(Log.recs) => Restored(Len(Log.recs)) = Restored(n)
      OBVIOUS
    <2>2. PICK n : n = Len(Log.recs)
      OBVIOUS
    <2>3. Content = Restored(n) /\ n \in 0 .. Len(Log.recs)
      BY <1>0, <1>1, <2>1, <2>2, LogTyped DEF Recoverable
    <2> QED
      BY <1>0, <2>3, RestoredTyped
  <1>6. PICK r \in Content : r[1] = id
    BY <1>1 DEF IdsOf
  <1>7. PICK v \in Vectors : r = <<id, v>>
    BY <1>5, <1>6 DEF Record
  <1>8. Content' = Content \ {<<id, v>>}
    BY <1>0, <1>4, <1>6, <1>7 DEF OneLive
  <1>9. /\ HistoryInv' /\ Shown = Content /\ Shown' = Content'
        /\ Durable!Persist(Append(Versions, Shown'))
    BY <1>1, <1>2, <1>3, WriteHistory
  <1>10. PICK new : new = Shown'
    OBVIOUS
  <1>11. new = Shown \ {<<id, v>>} /\ Durable!Persist(Append(Versions, new))
    BY <1>8, <1>9, <1>10
  <1>12. Durable!Delete(id)
    BY <1>1, <1>6, <1>7, <1>9, <1>10, <1>11 DEF Durable!Delete, Durable!Write
  <1> QED
    BY <1>9, <1>12

LEMMA InitHistory ==
  ASSUME Init
  PROVE  HInv /\ Durable!Init
  <1>1. RInv
    BY InitTyped, InitFiles, InitRecovery DEF RInv, DiskInv
  <1>2. /\ Log = EmptyLog /\ manifest = NoManifest /\ pc = "serving" /\ pending = 0 /\ crashes = 0
        /\ Len(<<>>) = 0 /\ DOMAIN <<>> = {}
    <2>1. Len(<<>>) = 0 /\ DOMAIN <<>> = {}
      OBVIOUS
    <2> QED
      BY <2>1, Constants DEF Init, Log, NoManifest
  <1>3. HistoryInv
    BY <1>2 DEF HistoryInv, EmptyLog
  <1>4. MarksFit /\ VersionsFit
    BY <1>1, Marks, VersionsAre
  <1>5. Newest = 0 /\ Oldest = 0 /\ Least(Log.flushed, Newest) = 0
    BY <1>2, <1>4 DEF MarksFit, EmptyLog
  <1>6. Restored(0) = {}
    BY <1>2, RestoredNone DEF NoManifest, Checkpointed
  <1>7. Shown = {} /\ KeptVersion = 1 /\ Versions = <<{}>>
    <2>1. Shown = {} /\ KeptVersion = 1
      BY <1>4, <1>5, <1>6 DEF MarksFit
    <2>2. PICK v : v = Versions
      OBVIOUS
    <2>3. v \in Seq(SUBSET Record) /\ Len(v) = 1
      <3>1. 0 - 0 + 1 = 1
        OBVIOUS
      <3>2. v \in Seq(SUBSET Record)
        BY <1>4, <2>2 DEF VersionsFit
      <3> QED
        BY <1>4, <1>5, <2>2, <3>1, <3>2 DEF VersionsFit
    <2>4. v[1] = {}
      <3>1. 1 \in 1 .. Newest - Oldest + 1 /\ Oldest + 1 - 1 = 0
        BY <1>5
      <3> QED
        BY <1>4, <1>6, <2>2, <3>1 DEF VersionsFit
    <2> QED
      BY <2>1, <2>2, <2>3, <2>4
  <1>8. policy \in {"none", "group", "per_op"}
    BY DurabilityAssumption DEF Init
  <1> QED
    BY <1>1, <1>2, <1>3, <1>7, <1>8 DEF HInv, Durable!Init

(* Each step of the server is one of the store, or nothing to it.          *)
LEMMA HistoryStep ==
  ASSUME WritesReliable, HInv, [Next]_vars
  PROVE  HInv' /\ [Durable!Next]_(Durable!vars)
  <1>1. RInv' /\ LogReliable
    BY RecoveryStep DEF HInv, WritesReliable
  <1>2. HistoryInv' /\ Durable!Next
    <2>1. ASSUME NEW id \in Ids, Insert(id) PROVE HistoryInv' /\ Durable!Next
      BY <1>1, <2>1, InsertHistory DEF Durable!Next
    <2>2. ASSUME NEW id \in Ids, Delete(id) PROVE HistoryInv' /\ Durable!Next
      BY <1>1, <2>2, DeleteHistory DEF Durable!Next
    <2>3. ASSUME NEW id \in Ids, AppendFails(id) PROVE HistoryInv' /\ Durable!Next
      BY <1>1, <2>3 DEF AppendFails, Fails, LogReliable
    <2>4. CASE EndBatch \/ Shutdown \/ StartCheckpoint \/ RotateWal
      BY <1>1, <2>4, FlushHistory DEF Durable!Next
    <2>5. CASE Quiet
      BY <1>1, <2>5, QuietHistory DEF Durable!Next
    <2>6. CASE WriteManifest
      BY <1>1, <2>6, ManifestHistory DEF Durable!Next
    <2>7. CASE ProcessCrash
      BY <1>1, <2>7, ProcessHistory DEF Durable!Next
    <2>8. CASE MachineCrash
      BY <1>1, <2>8, MachineHistory DEF Durable!Next
    <2>9. CASE Open
      BY <1>1, <2>9, OpenHistory DEF Durable!Next
    <2> QED
      BY <2>1, <2>2, <2>3, <2>4, <2>5, <2>6, <2>7, <2>8, <2>9 DEF Next, Quiet
  <1> QED
    BY <1>1, <1>2 DEF HInv

LEMMA HistoryInvariant ==
  ASSUME WritesReliable
  PROVE  Spec => []HInv
  <1>1. Init => HInv
    BY InitHistory
  <1>2. HInv /\ [Next]_vars => HInv'
    BY HistoryStep
  <1> QED
    BY <1>1, <1>2, PTL DEF Spec

(* Once every write is answered, a process that dies and is started again  *)
(* has what callers saw: replies come after the log's flush.               *)
THEOREM AnswersOutliveCrashes ==
  ASSUME WritesReliable
  PROVE  Spec => []AnsweredSurvive
  <1>1. HInv => AnsweredSurvive
    <2> SUFFICES ASSUME HInv, pc = "serving", pending = 0
                 PROVE  Restored(Least(Log.flushed, Intact(Log.recs))) = Content
      BY DEF AnsweredSurvive
    <2>1. RInv /\ MarksFit
      BY Marks DEF HInv
    <2>2. PICK n : n = Least(Log.flushed, Intact(Log.recs))
      OBVIOUS
    <2>3. n = Newest
      BY <2>1, <2>2 DEF MarksFit, HInv, HistoryInv, Newest
    <2>4. Restored(n) = Shown /\ Shown = Content
      BY <2>1, <2>3 DEF MarksFit, Shown
    <2> QED
      BY <2>2, <2>4
  <1> QED
    BY <1>1, HistoryInvariant, PTL

(* The server implements the abstract store: each of its steps is a write, *)
(* an answer, a crash or invisible, and a crash never takes back a write   *)
(* further than the policy allows.                                         *)
THEOREM ServerIsDurableStore ==
  ASSUME WritesReliable
  PROVE  Spec => ImplementsDurableStore
  <1>1. Init => Durable!Init
    BY InitHistory
  <1>2. HInv /\ [Next]_vars => [Durable!Next]_(Durable!vars)
    BY HistoryStep
  <1> QED
    BY <1>1, <1>2, HistoryInvariant, PTL DEF Spec, ImplementsDurableStore, Durable!Spec
=============================================================================

----------------------------- MODULE Durability -----------------------------
(***************************************************************************)
(* How SegmentedIndex and the server's writer task survive crashes: the    *)
(* write-ahead log (src/src/storage/wal.rs), checkpoints and the manifest  *)
(* (src/src/storage/mod.rs, checkpoint and open_inner in segmented.rs) and *)
(* group commit (src/src/bin/server.rs).                                   *)
(*                                                                         *)
(* Everything here is done by one thread at a time, the writer; a crash    *)
(* may fall between any two steps.  A step is one call that changes the    *)
(* disk, with what the writer does in memory before the next such call: a  *)
(* crash forgets memory, so it cannot tell more apart.  Sealing a buffer   *)
(* and merging two segments are one step each; module Segments has their   *)
(* interleavings and shows that they move records without losing any.      *)
(*                                                                         *)
(* A record is <<id, n>>, the n-th vector inserted under id, and stands    *)
(* for its metadata too.  A torn or corrupt log record is Torn: the length *)
(* and CRC checks of replay_bytes tell it from an intact one.              *)
(***************************************************************************)
EXTENDS Naturals, Sequences, FiniteSets, SequencesExt

CONSTANTS
    Ids,            \* record ids
    Configurations, \* <<SyncPolicy, seal_threshold>> the server may be started with
    Faults,         \* what may fail: "append", "commit", "file", "manifest", "gc"
    MaxSegments,    \* max_segments
    MaxBatch,       \* MAX_BATCH of the writer task
    InsertsPerId,   \* bound: how often one id may be inserted
    MaxGeneration,  \* bound: checkpoint generations
    MaxCrashes,     \* bound: crashes
    MaxFaults       \* bound: failing I/O calls

ASSUME DurabilityAssumption ==
    /\ Configurations \subseteq {"none", "group", "per_op"} \X (Nat \ {0})
    /\ Faults \subseteq {"append", "commit", "file", "manifest", "gc"}
    /\ MaxSegments \in Nat \ {0, 1}
    /\ {MaxBatch, InsertsPerId, MaxGeneration, MaxCrashes, MaxFaults} \subseteq Nat

VARIABLES
    (* what the server is started with, every time *)
    policy,     \* SyncPolicy
    threshold,  \* seal_threshold
    (* memory *)
    buffer,     \* records of the write buffer
    heap,       \* the segments made or loaded since the start
    segments,   \* the list `segments`: indices into heap
    meta,       \* MetaStore: the records whose metadata it has
    generation, \* generation
    active,     \* generation in the name of the log that is appended to
    dirty,      \* Wal::dirty
    pending,    \* writer task: applied writes whose reply is not sent
    pc,         \* the next step
    clone,      \* checkpoint: its copy of the list
    position,   \* checkpoint: segment to write; recover_wal: record to apply
    (* disk *)
    logs,       \* generation -> its log file, with the tail not yet in the file
    files,      \* segment and metadata files: name -> records
    manifest,
    (* bounds *)
    inserted,   \* id -> how often it was inserted
    crashes, faults

config == <<policy, threshold>>
memory == <<buffer, heap, segments, meta>>
walVars == <<active, dirty>>
ckptVars == <<clone, position>>
disk == <<logs, files, manifest>>
bounds == <<inserted, crashes, faults>>
vars == <<config, memory, generation, walVars, pending, pc, ckptVars, disk, bounds>>

-----------------------------------------------------------------------------
(* Data. *)

Vectors == 1 .. InsertsPerId
Record == Ids \X Vectors
Generations == 0 .. MaxGeneration
MaxLog == 2 * InsertsPerId * Cardinality(Ids) + MaxFaults

IdsOf(R) == { r[1] : r \in R }

(* Segment files are named by the generation that wrote them and their     *)
(* place in its list; place 0 is that generation's metadata file.          *)
FileName == Generations \X Nat
NoFile == <<0, 0>>
MetaFile(g) == <<g, 0>>

(* A directory without a manifest is opened empty, with the log of         *)
(* generation 0.                                                           *)
NoManifest == [generation |-> 0, refs |-> <<>>, meta |-> NoFile, wal |-> 0]

InsertEntry(r) == [op |-> "insert", rec |-> r]
DeleteEntry(id) == [op |-> "delete", rec |-> <<id, 0>>]
Torn == [op |-> "torn"]
Entry == { InsertEntry(r) : r \in Record } \cup { DeleteEntry(id) : id \in Ids }
EmptyLog == [recs |-> <<>>, flushed |-> 0, synced |-> 0]

Live(s) == { r \in s.data : r[1] \notin s.dead }

(* What callers see: the live records of buffer and segments. *)
Content == buffer \cup UNION { Live(heap[segments[i]]) : i \in DOMAIN segments }

(* Every file that the manifest names is there. *)
AllNamedExist ==
    /\ \A i \in DOMAIN manifest.refs : manifest.refs[i].file \in DOMAIN files
    /\ manifest.meta \in DOMAIN files \cup {NoFile}

(* The log that the manifest on disk names, and its intact prefix. *)
Log == logs[manifest.wal]
Intact(recs) ==
    CHOOSE n \in 0 .. Len(recs) :
        /\ \A i \in 1 .. n : recs[i] # Torn
        /\ n < Len(recs) => recs[n + 1] = Torn

(* The records of the segment files, less the manifest's tombstones. *)
Checkpointed ==
    UNION { { r \in files[ref.file] : r[1] \notin ref.dead } :
            ref \in { manifest.refs[i] : i \in DOMAIN manifest.refs } }

(* What a recovery from the disk should give if of the log's intact        *)
(* records the first n are left: for every id the last of them that        *)
(* concerns it decides.                                                    *)
Restored(n) ==
    LET recs == Log.recs
        Concerned(id, m) == \E i \in m .. n : recs[i].rec[1] = id
    IN  { r \in Checkpointed : ~ Concerned(r[1], 1) }
        \cup { recs[i].rec : i \in { j \in 1 .. n :
                 recs[j].op = "insert" /\ ~ Concerned(recs[j].rec[1], j + 1) } }

-----------------------------------------------------------------------------
Init ==
    /\ \E c \in Configurations : policy = c[1] /\ threshold = c[2]
    /\ buffer = {} /\ heap = <<>> /\ segments = <<>> /\ meta = {}
    /\ generation = 0 /\ active = 0 /\ dirty = FALSE
    /\ pending = 0
    /\ pc = "serving"
    /\ clone = <<>> /\ position = 0
    /\ logs = [g \in Generations |-> EmptyLog]
    /\ files = <<>>
    /\ manifest = NoManifest
    /\ inserted = [id \in Ids |-> 0]
    /\ crashes = 0 /\ faults = 0

-----------------------------------------------------------------------------
(* The log. *)

Flushed(log) == [log EXCEPT !.flushed = Len(log.recs)]
Synced(log) == [Flushed(log) EXCEPT !.synced = Len(log.recs)]
Appended(log, entry) == [log EXCEPT !.recs = Append(@, entry)]

(* Wal::append.  Under "group" it syncs if the window has elapsed. *)
AppendEntry(entry) ==
    LET log == Appended(logs[active], entry)
    IN  \/ /\ policy = "none"
           /\ logs' = [logs EXCEPT ![active] = Flushed(log)]
           /\ dirty' = TRUE
        \/ /\ policy \in {"group", "per_op"}
           /\ logs' = [logs EXCEPT ![active] = Synced(log)]
           /\ dirty' = FALSE
        \/ /\ policy = "group"
           /\ logs' = [logs EXCEPT ![active] = log]
           /\ dirty' = TRUE

Sync ==
    /\ logs' = [logs EXCEPT ![active] = IF dirty THEN Synced(@) ELSE Flushed(@)]
    /\ dirty' = FALSE

Fails(call) ==
    /\ call \in Faults /\ faults < MaxFaults
    /\ faults' = faults + 1

(* Mutant: the end of a batch only hands the log to the operating system.  *)
CommitFlushes ==
    /\ logs' = [logs EXCEPT ![active] = Flushed(@)]
    /\ UNCHANGED <<dirty, faults>>

Commit ==
    \/ /\ IF policy = "none"
          THEN logs' = [logs EXCEPT ![active] = Flushed(@)] /\ UNCHANGED dirty
          ELSE Sync
       /\ UNCHANGED faults
    \/ Fails("commit") /\ UNCHANGED <<logs, dirty>>

-----------------------------------------------------------------------------
(* Memory. *)

NewSegment(records) == [data |-> records, dead |-> {}, stored |-> NoFile]

SealBuffer(records) ==
    /\ buffer' = {}
    /\ IF records = {}
       THEN UNCHANGED <<heap, segments>>
       ELSE /\ heap' = Append(heap, NewSegment(records))
            /\ segments' = Append(segments, Len(heap) + 1)

(* apply_insert; the buffer refuses an id it has (DuplicateId). *)
ApplyInsert(r) ==
    LET full == buffer \cup {r}
    IN  IF r[1] \in IdsOf(buffer)
        THEN UNCHANGED memory
        ELSE /\ IF Cardinality(full) >= threshold
                THEN SealBuffer(full)
                ELSE buffer' = full /\ UNCHANGED <<heap, segments>>
             /\ meta' = { m \in meta : m[1] # r[1] } \cup {r}

(* The newest segment of the list that contains id, dead or alive. *)
IsNewest(i, id) ==
    /\ i \in DOMAIN segments
    /\ id \in IdsOf(heap[segments[i]].data)
    /\ \A j \in DOMAIN segments : id \in IdsOf(heap[segments[j]].data) => j <= i

(* In the buffer a record is removed, in the newest segment it gets a      *)
(* tombstone, if it has none yet.                                          *)
DeleteVectorOnly(id) ==
    /\ UNCHANGED segments
    /\ \/ /\ id \in IdsOf(buffer)
          /\ buffer' = { r \in buffer : r[1] # id }
          /\ UNCHANGED heap
       \/ /\ id \notin IdsOf(buffer)
          /\ heap' = [s \in DOMAIN heap |->
                         IF \E i \in DOMAIN segments : IsNewest(i, id) /\ segments[i] = s
                         THEN [heap[s] EXCEPT !.dead = @ \cup {id}] ELSE heap[s]]
          /\ UNCHANGED buffer

Deletes(id) ==
    \/ id \in IdsOf(buffer)
    \/ \E i \in DOMAIN segments : IsNewest(i, id) /\ id \notin heap[segments[i]].dead

(* Mutant: metadata is dropped with a record of the buffer only. *)
ApplyDeleteLeavesMeta(id) ==
    /\ DeleteVectorOnly(id)
    /\ meta' = { m \in meta : m[1] # id \/ id \notin IdsOf(buffer) }

(* Answers NotFound and changes nothing if it deletes nothing. *)
ApplyDelete(id) ==
    /\ DeleteVectorOnly(id)
    /\ meta' = { m \in meta : m[1] # id \/ ~ Deletes(id) }

-----------------------------------------------------------------------------
(* The writer task: a request that changes something, and its reply.  The  *)
(* requests that are refused (DuplicateId, NotFound) change nothing.       *)

(* Mutant: the batch is filled one command too far. *)
AcceptsOneMore == pc = "serving" /\ pending <= MaxBatch

Accepts == pc = "serving" /\ pending < MaxBatch

(* Mutant: validation leaves the buffer to Buffer::insert, which refuses a *)
(* duplicate when it has been logged.                                      *)
ValidatedInSegments(id) ==
    \A i \in DOMAIN segments : id \notin IdsOf(Live(heap[segments[i]]))

(* validate_insert *)
Validated(id) == id \notin IdsOf(Content)

Insert(id) ==
    /\ Accepts
    /\ Validated(id)
    /\ inserted[id] < InsertsPerId
    /\ inserted' = [inserted EXCEPT ![id] = @ + 1]
    /\ AppendEntry(InsertEntry(<<id, inserted[id] + 1>>))
    /\ ApplyInsert(<<id, inserted[id] + 1>>)
    /\ pending' = pending + 1
    /\ UNCHANGED <<config, generation, active, pc, ckptVars, files, manifest,
                   crashes, faults>>

Delete(id) ==
    /\ Accepts
    /\ id \in IdsOf(Content)
    /\ AppendEntry(DeleteEntry(id))
    /\ ApplyDelete(id)
    /\ pending' = pending + 1
    /\ UNCHANGED <<config, generation, active, pc, ckptVars, files, manifest, bounds>>

(* Wal::append fails: nothing, a part or all of the record was written.    *)
(* The writer answers with the error and goes on.                          *)
AppendFails(id) ==
    /\ Accepts
    /\ Fails("append")
    /\ LET entry == IF id \in IdsOf(Content) THEN DeleteEntry(id)
                    ELSE InsertEntry(<<id, inserted[id] + 1>>)
       IN  /\ entry.op = "insert" => inserted[id] < InsertsPerId
           /\ inserted' = IF entry.op = "insert"
                          THEN [inserted EXCEPT ![id] = @ + 1] ELSE inserted
           /\ \/ UNCHANGED <<logs, dirty>>
              \/ /\ logs' = [logs EXCEPT ![active] = Appended(@, Torn)]
                 /\ UNCHANGED dirty
              \/ /\ logs' = [logs EXCEPT ![active] = Appended(@, entry)]
                 /\ dirty' = TRUE
    /\ UNCHANGED <<config, memory, generation, active, pending, pc, ckptVars,
                   files, manifest, crashes>>

(* One commit, then the replies.  At the end of a batch a failed commit    *)
(* makes them all errors, of writes that stay in memory and in the log;    *)
(* before a checkpoint it is ignored.                                      *)
CommitAndAnswer == Commit /\ pending' = 0

EndBatch ==
    /\ pc = "serving" /\ pending > 0
    /\ CommitAndAnswer
    /\ UNCHANGED <<config, memory, generation, active, pc, ckptVars, files,
                   manifest, inserted, crashes>>

(* The channel is closed: flush_wal. *)
Shutdown ==
    /\ pc = "serving" /\ pending = 0
    /\ Sync
    /\ UNCHANGED <<config, memory, generation, active, pending, pc, ckptVars,
                   files, manifest, bounds>>

(* Sorted by live count, the sort being stable. *)
IsSmallest(i, places) ==
    \A j \in places :
        LET li == Cardinality(Live(heap[segments[i]]))
            lj == Cardinality(Live(heap[segments[j]]))
        IN  li < lj \/ (li = lj /\ i <= j)

(* retain, by which the two victims leave the list. *)
Unlisted(i, j) == RemoveAt(RemoveAt(segments, i), IF j < i THEN j ELSE j - 1)

(* merge_smallest_pair_bg, as a whole. *)
Merge ==
    /\ pc \notin {"down", "refused"}
    /\ Len(segments) > MaxSegments
    /\ \E i, j \in DOMAIN segments :
           /\ IsSmallest(i, DOMAIN segments)
           /\ j # i /\ IsSmallest(j, DOMAIN segments \ {i})
           /\ heap' = Append(heap, NewSegment(Live(heap[segments[i]])
                                              \cup Live(heap[segments[j]])))
           /\ segments' = Append(Unlisted(i, j), Len(heap) + 1)
    /\ UNCHANGED <<config, buffer, meta, generation, walVars, pending, pc,
                   ckptVars, disk, bounds>>

-----------------------------------------------------------------------------
(* checkpoint. *)

(* The Checkpoint branch of the writer task answers the batch so far, then *)
(* checkpoint seals the buffer, waits for the threads and copies the list. *)
StartCheckpoint ==
    /\ pc = "serving"
    /\ generation < MaxGeneration
    /\ CommitAndAnswer
    /\ SealBuffer(buffer)
    /\ generation' = generation + 1
    /\ clone' = segments'
    /\ position' = 1
    /\ pc' = "segments"
    /\ UNCHANGED <<config, meta, active, files, manifest, inserted, crashes>>

(* Mutant: a file of that name is taken for this one. *)
WrittenOnce(name, records) ==
    IF name \in DOMAIN files THEN files
    ELSE [f \in DOMAIN files \cup {name} |-> IF f = name THEN records ELSE files[f]]

(* write_file_durable: the rename replaces a file of that name. *)
Written(name, records) ==
    [f \in DOMAIN files \cup {name} |-> IF f = name THEN records ELSE files[f]]

WriteSegment ==
    /\ pc = "segments" /\ position <= Len(clone)
    /\ LET s == clone[position]
           name == <<generation, position>>
       IN  IF heap[s].stored # NoFile
           THEN UNCHANGED <<files, heap>>
           ELSE /\ files' = Written(name, heap[s].data)
                /\ heap' = [heap EXCEPT ![s].stored = name]
    /\ position' = position + 1
    /\ UNCHANGED <<config, buffer, segments, meta, generation, walVars, pending,
                   pc, clone, logs, manifest, bounds>>

WriteMetadata ==
    /\ pc = "segments" /\ position > Len(clone)
    /\ files' = IF meta = {} THEN files ELSE Written(MetaFile(generation), meta)
    /\ pc' = "rotate"
    /\ UNCHANGED <<config, memory, generation, walVars, pending, ckptVars, logs,
                   manifest, bounds>>

(* open_append keeps what a file of that name holds; dropping the old Wal  *)
(* flushes its BufWriter.                                                  *)
RotateWal ==
    /\ pc = "rotate"
    /\ logs' = [logs EXCEPT ![active] = Flushed(@)]
    /\ active' = generation
    /\ dirty' = FALSE
    /\ pc' = "manifest"
    /\ UNCHANGED <<config, memory, generation, pending, ckptVars, files,
                   manifest, bounds>>

(* Mutant: the manifest forgets the tombstones. *)
SegmentRefClean(s) == [file |-> heap[s].stored, dead |-> {}]

(* Only the writer adds tombstones, so they are still what they were when  *)
(* the segment was written.                                                *)
SegmentRef(s) == [file |-> heap[s].stored, dead |-> heap[s].dead]

NextManifest ==
    [generation |-> generation,
     refs |-> [i \in DOMAIN clone |-> SegmentRef(clone[i])],
     meta |-> IF meta = {} THEN NoFile ELSE MetaFile(generation),
     wal |-> active]

WriteManifest ==
    /\ pc = "manifest"
    /\ manifest' = NextManifest
    /\ pc' = "gc"
    /\ UNCHANGED <<config, memory, generation, walVars, pending, ckptVars, logs,
                   files, bounds>>

(* Mutant: the metadata file is not on the list. *)
ReferencedSegments == { manifest.refs[i].file : i \in DOMAIN manifest.refs }

(* Manifest::referenced_files, without the log: what gc_unreferenced keeps. *)
Referenced ==
    { manifest.refs[i].file : i \in DOMAIN manifest.refs } \cup {manifest.meta}

(* gc_unreferenced removes the other files one by one; a log that is gone   *)
(* is opened as an empty one.                                              *)
GcRemove ==
    /\ pc = "gc"
    /\ \/ \E f \in DOMAIN files \ Referenced :
              /\ files' = [g \in DOMAIN files \ {f} |-> files[g]]
              /\ UNCHANGED logs
       \/ \E g \in Generations \ {manifest.wal} :
              /\ logs[g] # EmptyLog
              /\ logs' = [logs EXCEPT ![g] = EmptyLog]
              /\ UNCHANGED files
    /\ UNCHANGED <<config, memory, generation, walVars, pending, pc, ckptVars,
                   manifest, bounds>>

Return == pc' = "serving" /\ clone' = <<>> /\ position' = 0

GcDone ==
    /\ pc = "gc"
    /\ DOMAIN files \subseteq Referenced
    /\ \A g \in Generations \ {manifest.wal} : logs[g] = EmptyLog
    /\ Return
    /\ UNCHANGED <<config, memory, generation, walVars, pending, disk, bounds>>

(* A step of checkpoint returns an error, or a file resists its removal    *)
(* (remove_file is not checked): memory keeps what it did.                 *)
CheckpointFails ==
    /\ \/ pc \in {"segments", "rotate"} /\ Fails("file")
       \/ pc = "manifest" /\ Fails("manifest")
       \/ pc = "gc" /\ Fails("gc")
    /\ Return
    /\ UNCHANGED <<config, memory, generation, walVars, pending, disk, inserted,
                   crashes>>

-----------------------------------------------------------------------------
(* Crash and recovery. *)

(* The first n records of a log, the next one perhaps in part. *)
Cut(log, n) ==
    { SubSeq(log.recs, 1, n) } \cup
    IF n < Len(log.recs) THEN { Append(SubSeq(log.recs, 1, n), Torn) } ELSE {}

Forget ==
    /\ crashes < MaxCrashes
    /\ crashes' = crashes + 1
    /\ pc' = "down"
    /\ buffer' = {} /\ heap' = <<>> /\ segments' = <<>> /\ meta' = {}
    /\ generation' = 0 /\ active' = 0 /\ dirty' = FALSE
    /\ pending' = 0 /\ clone' = <<>> /\ position' = 0
    /\ UNCHANGED <<config, files, manifest, inserted, faults>>

(* The process dies: what was flushed stays, and the BufWriter may have    *)
(* spilled more of the tail.                                               *)
ProcessCrash ==
    /\ \E n \in logs[active].flushed .. Len(logs[active].recs) :
           \E recs \in Cut(logs[active], n) :
               logs' = [logs EXCEPT ![active] =
                           [recs |-> recs, flushed |-> Len(recs), synced |-> @.synced]]
    /\ Forget

(* The machine dies: what was synced stays, of the rest any prefix.  Logs  *)
(* older than the manifest's are left alone, for no start reads them.      *)
MachineCrash ==
    /\ \E n \in [manifest.wal .. MaxGeneration -> 0 .. MaxLog], torn \in BOOLEAN :
           /\ \A g \in DOMAIN n : n[g] \in logs[g].synced .. Len(logs[g].recs)
           /\ logs' = [g \in Generations |->
                  IF g \notin DOMAIN n THEN logs[g] ELSE
                  LET cut == SubSeq(logs[g].recs, 1, n[g])
                      recs == IF torn /\ n[g] < Len(logs[g].recs)
                              THEN Append(cut, Torn) ELSE cut
                  IN  [recs |-> recs, flushed |-> Len(recs), synced |-> Len(recs)]]
    /\ Forget

(* replay cuts a log after its intact prefix and syncs it. *)
Truncated(log) ==
    LET n == Intact(log.recs)
    IN  IF n = Len(log.recs) THEN log
        ELSE [recs |-> SubSeq(log.recs, 1, n), flushed |-> n, synced |-> n]

(* open_inner: the manifest's segments and metadata are loaded, the log is *)
(* read and cut after its intact prefix.                                   *)
Open ==
    /\ pc = "down"
    /\ AllNamedExist
    /\ LET refs == manifest.refs
       IN  /\ heap' = [i \in DOMAIN refs |-> [data |-> files[refs[i].file],
                                              dead |-> refs[i].dead,
                                              stored |-> refs[i].file]]
           /\ segments' = [i \in DOMAIN refs |-> i]
    /\ meta' = IF manifest.meta = NoFile THEN {} ELSE files[manifest.meta]
    /\ generation' = manifest.generation
    /\ active' = manifest.wal
    /\ logs' = [logs EXCEPT ![manifest.wal] = Truncated(@)]
    /\ pc' = "replay" /\ position' = 1
    /\ UNCHANGED <<config, buffer, dirty, pending, clone, files, manifest, bounds>>

(* recover_wal, one record.  An insert that the buffer refuses ends the    *)
(* start; a delete that finds nothing does not.                            *)
ReplayOne ==
    /\ pc = "replay" /\ position <= Len(Log.recs)
    /\ LET entry == Log.recs[position]
           id == entry.rec[1]
       IN  \/ /\ entry.op = "insert"
              /\ ApplyInsert(entry.rec)
              /\ pc' = IF id \in IdsOf(buffer) THEN "refused" ELSE pc
           \/ /\ entry.op = "delete"
              /\ ApplyDelete(id)
              /\ UNCHANGED pc
    /\ position' = position + 1
    /\ UNCHANGED <<config, generation, walVars, pending, clone, disk, bounds>>

FinishReplay ==
    /\ pc = "replay" /\ position > Len(Log.recs)
    /\ pc' = "serving" /\ position' = 0
    /\ UNCHANGED <<config, memory, generation, walVars, pending, clone, disk, bounds>>

Next ==
    \/ \E id \in Ids : Insert(id) \/ Delete(id) \/ AppendFails(id)
    \/ EndBatch \/ Shutdown \/ Merge
    \/ StartCheckpoint \/ WriteSegment \/ WriteMetadata \/ RotateWal
    \/ WriteManifest \/ GcRemove \/ GcDone \/ CheckpointFails
    \/ ProcessCrash \/ MachineCrash
    \/ Open \/ ReplayOne \/ FinishReplay

Spec == Init /\ [][Next]_vars

-----------------------------------------------------------------------------
(* Properties. *)

(* The variables have their types; the log's marks are within it, and an   *)
(* entry of the list is a segment made since the start.                    *)
TypeOK ==
    /\ config \in Configurations
    /\ buffer \subseteq Record /\ meta \subseteq Record
    /\ \A i \in DOMAIN heap :
           heap[i].data \subseteq Record /\ heap[i].dead \subseteq Ids
           /\ heap[i].stored \in FileName
    /\ segments \in Seq(DOMAIN heap) /\ clone \in Seq(DOMAIN heap)
    /\ generation \in Generations /\ active \in Generations
    /\ dirty \in BOOLEAN
    /\ pending \in 0 .. MaxBatch
    /\ pc \in {"serving", "segments", "rotate", "manifest", "gc", "down",
               "replay", "refused"}
    /\ position \in Nat
    /\ \A g \in Generations :
           /\ logs[g].recs \in Seq(Entry \cup {Torn})
           /\ logs[g].synced <= logs[g].flushed
           /\ logs[g].flushed <= Len(logs[g].recs)
    /\ DOMAIN files \subseteq FileName
    /\ \A f \in DOMAIN files : files[f] \subseteq Record
    /\ manifest.wal \in Generations /\ manifest.generation \in Generations
    /\ inserted \in [Ids -> 0 .. InsertsPerId]

(* The manifest on disk never names a file that is missing: neither an     *)
(* interrupted checkpoint nor the collection of old files leaves it so.    *)
ManifestComplete == AllNamedExist

(* A segment that believes it is stored is on disk with exactly its        *)
(* records, even if a file of that name was left behind by a checkpoint    *)
(* that did not finish.  Later checkpoints do not write it again.          *)
StoredIsOnDisk ==
    \A i \in DOMAIN segments :
        LET s == heap[segments[i]]
        IN  s.stored # NoFile => s.stored \in DOMAIN files /\ files[s.stored] = s.data

(* The log holds applied writes only, so replay never inserts an id twice  *)
(* and the server can start.                                               *)
RecoveryOpens == pc # "refused"

(* Metadata of live records is complete and none outlives its record,      *)
(* through checkpoints, crashes and replay.                                *)
MetadataFollows == pc = "serving" => meta = Content

(* Once every write is answered, a process that dies now and is started    *)
(* again has what callers see now: all of it and nothing else.             *)
Least(m, n) == IF m <= n THEN m ELSE n
AnsweredSurvive ==
    pc = "serving" /\ pending = 0 =>
        Restored(Least(Log.flushed, Intact(Log.recs))) = Content

(* The server implements DurableStore.  Its versions are what recoveries   *)
(* give back that find more or less of the log: what was synced is there   *)
(* after a machine crash, what was flushed after one of the process.       *)
Newest == Intact(Log.recs)
Oldest == Least(Log.synced, Newest)
Shown == IF pc \in {"down", "replay"} THEN Restored(Newest) ELSE Content
Versions == [i \in 1 .. Newest - Oldest + 1 |-> Restored(Oldest + i - 1)]
KeptVersion == Least(Log.flushed, Newest) - Oldest + 1
Durable == INSTANCE DurableStore WITH
    content <- Shown, versions <- Versions, kept <- KeptVersion
ImplementsDurableStore == Durable!Spec
=============================================================================

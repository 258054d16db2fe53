------------------------------ MODULE Segments ------------------------------
(***************************************************************************)
(* The in-memory core of SegmentedIndex (src/src/index/segmented.rs): the  *)
(* single writer thread, the write buffer, the queue of buffers being      *)
(* sealed, the list of HNSW segments with their tombstone sets, and the    *)
(* background threads that seal buffers and merge segments.                *)
(*                                                                         *)
(* A step of a thread is one critical section or one atomic operation of   *)
(* the code.  A record is <<id, n>>, the n-th vector inserted under id, so *)
(* a stale copy of an id is told apart from the current one.  A Sealing or *)
(* Segment allocation (an Arc) is an object numbered in the order of its   *)
(* publication; both Vec<Arc<..>> lists are only pushed at the end and     *)
(* filtered with retain, hence a list is the SET of its objects and its    *)
(* order is the order of the numbers.  The data of an object never         *)
(* changes; its tombstone set may.                                         *)
(***************************************************************************)
EXTENDS Naturals, FiniteSets

CONSTANTS
    Ids,            \* record ids
    NoId,           \* "the writer works on no id"
    Requests,       \* bound: the operations clients call
    InsertsPerId,   \* bound: how often one id may be inserted
    MaxObjects,     \* bound: how many Sealing and Segment objects may be made
    SealThreshold,  \* seal_threshold
    MaxSegments,    \* max_segments
    QueueLimit,     \* QUEUE_LIMIT of apply_backpressure
    ValveOpens,     \* may the 60 s safety valve of apply_backpressure fire?
    SealThreads,    \* names of the threads SealContext may have at one time
    MergeThreads    \* names of the threads MergeContext may have at one time

ASSUME IdsAssumption == NoId \notin Ids
ASSUME BoundsAssumption ==
    /\ Requests \subseteq {"insert", "delete", "checkpoint"}
    /\ InsertsPerId \in Nat
    /\ MaxObjects \in Nat
    /\ SealThreshold \in Nat \ {0}          \* set_seal_threshold: n.max(1)
    /\ MaxSegments \in Nat \ {0, 1}         \* set_max_segments: max.max(2)
    /\ QueueLimit \in Nat
    /\ ValveOpens \in BOOLEAN

VARIABLES
    buffer,     \* records of the brute-force write buffer
    sealing,    \* the objects of the `sealing` list
    segments,   \* the objects of the `segments` list
    data,       \* object -> its records (immutable once published)
    tombs,      \* object -> ids in its tombstone set
    fresh,      \* the number the next object gets
    inserted,   \* id -> how often it was inserted
    wpc, wop, wid,      \* writer: next step, operation, id
    taken,      \* writer: `sealed_data`, out of the buffer and in no list yet
    sealFlag,   \* seal_in_flight
    sealer,     \* seal thread -> [pc, obj it builds]
    mergeFlag,  \* merge_in_flight
    merger      \* merge thread -> [pc, victims a b, their snapshots]

writerVars == <<wpc, wop, wid>>
sealerVars == <<sealFlag, sealer>>
mergerVars == <<mergeFlag, merger>>
objectVars == <<data, tombs, fresh>>
vars == <<buffer, sealing, segments, objectVars, inserted, writerVars, taken,
          sealerVars, mergerVars>>

-----------------------------------------------------------------------------
(* Data. *)

Vectors == 1 .. InsertsPerId
Record == Ids \X Vectors
Obj == 1 .. MaxObjects
NoObj == 0

IdsOf(R) == { r[1] : r \in R }

(* The records of an object that its tombstone set does not hide. *)
LiveIn(o) == { r \in data[o] : r[1] \notin tombs[o] }

(* Which of the listed objects contain id, dead or alive. *)
Holding(list, id) == { o \in list : id \in IdsOf(data[o]) }

IsOldest(o, list) == o \in list /\ \A p \in list : o <= p
IsNewest(o, list) == o \in list /\ \A p \in list : p <= o

(* sealing_contains_live, and the same loop over the segments. *)
LiveInList(list, id) == \E o \in list : id \in IdsOf(LiveIn(o))

(* index.len() - tombstones.len(), by which merge victims are ranked. *)
LiveCount(o) == Cardinality(data[o]) - Cardinality(tombs[o])

(* Sorted by live count, the sort being stable: o comes first in the list. *)
IsSmallest(o, list) ==
    /\ o \in list
    /\ \A p \in list : \/ LiveCount(o) < LiveCount(p)
                       \/ LiveCount(o) = LiveCount(p) /\ o <= p

(* What callers can observe once they are told of it: every live record,   *)
(* wherever it is, the buffer contents on their way to the sealing list    *)
(* included.                                                               *)
Content ==
    buffer \cup taken \cup UNION { LiveIn(o) : o \in sealing \cup segments }

-----------------------------------------------------------------------------
WriterPC ==
    {"idle", "ins_buffer", "ins_sealing", "ins_segments", "ins_apply",
     "live_buffer", "live_sealing", "live_segments",
     "del_buffer", "del_sealing", "del_segments",
     "seal_swap", "seal_push", "seal_spawn", "stall",
     "wait_seal", "wait_queue", "wait_merge", "check_seal", "check_queue",
     "check_merge", "ckpt_write"}
SealerPC ==
    {"none", "take", "build", "merge_len", "merge_flag", "release",
     "recheck", "reclaim"}
MergerPC ==
    {"none", "while", "pick", "snap_a", "snap_b", "swap", "release",
     "recheck", "reclaim"}

IdleSealer == [pc |-> "none", obj |-> NoObj]
IdleMerger == [pc |-> "none", a |-> NoObj, b |-> NoObj, aSnap |-> {}, bSnap |-> {}]

Init ==
    /\ buffer = {} /\ sealing = {} /\ segments = {}
    /\ data = [o \in Obj |-> {}]
    /\ tombs = [o \in Obj |-> {}]
    /\ fresh = 1
    /\ inserted = [id \in Ids |-> 0]
    /\ wpc = "idle" /\ wop = "none" /\ wid = NoId /\ taken = {}
    /\ sealFlag = FALSE /\ sealer = [t \in SealThreads |-> IdleSealer]
    /\ mergeFlag = FALSE /\ merger = [t \in MergeThreads |-> IdleMerger]

(* Mutant: the new object is listed before it is allocated. *)
AllocateLate(records, dead) ==
    /\ fresh \in Obj
    /\ data' = [data EXCEPT ![fresh] = records]
    /\ tombs' = [tombs EXCEPT ![fresh] = dead]
    /\ UNCHANGED fresh

(* Push a new object at the end of a list. *)
Allocate(records, dead) ==
    /\ fresh \in Obj
    /\ data' = [data EXCEPT ![fresh] = records]
    /\ tombs' = [tombs EXCEPT ![fresh] = dead]
    /\ fresh' = fresh + 1

(* merge_smallest_pair_bg holds the `segments` read lock while it picks    *)
(* its victims and copies their tombstone sets: no write lock meanwhile.   *)
SegmentsReadLocked ==
    \E t \in MergeThreads : merger[t].pc \in {"snap_a", "snap_b"}

-----------------------------------------------------------------------------
(* The writer: insert_with_meta, delete_shared, and the sealing part of    *)
(* checkpoint.  Every helper below ends in one of GoTo and Return.         *)

GoTo(pc) == wpc' = pc /\ UNCHANGED <<wop, wid>>
Return == wpc' = "idle" /\ wop' = "none" /\ wid' = NoId

Start(op, pc, id) ==
    /\ wpc = "idle"
    /\ op \in Requests
    /\ wpc' = pc /\ wop' = op /\ wid' = id
    /\ UNCHANGED <<buffer, sealing, segments, objectVars, inserted, taken,
                   sealerVars, mergerVars>>

StartInsert(id) == inserted[id] < InsertsPerId /\ Start("insert", "ins_buffer", id)
StartDelete(id) == Start("delete", "live_buffer", id)
StartCheckpoint == Start("checkpoint", "seal_swap", NoId)

(* A read-only step: leave with an answer, or go on to the next check. *)
Check(here, leave, next) ==
    /\ wpc = here
    /\ IF leave THEN Return ELSE GoTo(next)
    /\ UNCHANGED <<buffer, sealing, segments, objectVars, inserted, taken,
                   sealerVars, mergerVars>>

(* Mutant: validate_insert forgets the buffers being sealed. *)
ValidateSealingSkipped == Check("ins_sealing", FALSE, "ins_segments")

(* validate_insert: DuplicateId if live in the buffer, a buffer being      *)
(* sealed, or a segment.                                                   *)
ValidateBuffer == Check("ins_buffer", wid \in IdsOf(buffer), "ins_sealing")
ValidateSealing == Check("ins_sealing", LiveInList(sealing, wid), "ins_segments")
ValidateSegments == Check("ins_segments", LiveInList(segments, wid), "ins_apply")

(* apply_insert: buffer.insert and the decision to seal. *)
ApplyInsert ==
    /\ wpc = "ins_apply"
    /\ IF wid \in IdsOf(buffer)
         THEN Return /\ UNCHANGED <<buffer, inserted>>
         ELSE /\ buffer' = buffer \cup {<<wid, inserted[wid] + 1>>}
              /\ inserted' = [inserted EXCEPT ![wid] = @ + 1]
              /\ IF Cardinality(buffer') >= SealThreshold
                   THEN GoTo("seal_swap") ELSE Return
    /\ UNCHANGED <<sealing, segments, objectVars, taken, sealerVars, mergerVars>>

(* contains_live: the three sources, in the order data moves through them. *)
(* The first that has the id leads to apply_delete, none to NotFound.      *)
Found(here, found, next) ==
    /\ wpc = here
    /\ CASE found -> GoTo("del_buffer")
         [] ~found /\ next # "not_found" -> GoTo(next)
         [] OTHER -> Return
    /\ UNCHANGED <<buffer, sealing, segments, objectVars, inserted, taken,
                   sealerVars, mergerVars>>

ContainsBuffer == Found("live_buffer", wid \in IdsOf(buffer), "live_sealing")
ContainsSealing == Found("live_sealing", LiveInList(sealing, wid), "live_segments")
ContainsSegments == Found("live_segments", LiveInList(segments, wid), "not_found")

(* delete_vector_only, first source: a real removal from the buffer. *)
DeleteFromBuffer ==
    /\ wpc = "del_buffer"
    /\ IF wid \in IdsOf(buffer)
         THEN buffer' = { r \in buffer : r[1] # wid } /\ Return
         ELSE UNCHANGED buffer /\ GoTo("del_sealing")
    /\ UNCHANGED <<sealing, segments, objectVars, inserted, taken, sealerVars,
                   mergerVars>>

(* Mutants: the newest object takes the tombstone whether it has the id or *)
(* not; the oldest that has the id takes it.                               *)
BuryInLast(list) ==
    \E o \in list :
        /\ IsNewest(o, list)
        /\ tombs' = [tombs EXCEPT ![o] = @ \cup {wid}]
BuryInOldest(list) ==
    \E o \in list :
        /\ IsOldest(o, Holding(list, wid))
        /\ tombs' = [tombs EXCEPT ![o] = @ \cup {wid}]

(* The newest listed object that contains the id gets the tombstone; if it *)
(* has it already the answer is NotFound and older ones are not looked at. *)
Bury(list) ==
    \E o \in list :
        /\ IsNewest(o, Holding(list, wid))
        /\ tombs' = [tombs EXCEPT ![o] = @ \cup {wid}]

DeleteFromSealing ==
    /\ wpc = "del_sealing"
    /\ IF Holding(sealing, wid) # {}
         THEN Bury(sealing) /\ Return
         ELSE UNCHANGED tombs /\ GoTo("del_segments")
    /\ UNCHANGED <<buffer, sealing, segments, data, fresh, inserted, taken,
                   sealerVars, mergerVars>>

DeleteFromSegments ==
    /\ wpc = "del_segments"
    /\ IF Holding(segments, wid) # {} THEN Bury(segments) ELSE UNCHANGED tombs
    /\ Return
    /\ UNCHANGED <<buffer, sealing, segments, data, fresh, inserted, taken,
                   sealerVars, mergerVars>>

(* Mutant: checkpoint writes its files without waiting for the threads. *)
AfterSealNoWait == IF wop = "insert" THEN "stall" ELSE "ckpt_write"

(* seal(): an empty buffer is not sealed; else it is swapped for a new one *)
(* and, in a second critical section, pushed on the sealing list.          *)
AfterSeal == IF wop = "insert" THEN "stall" ELSE "wait_seal"

SealSwap ==
    /\ wpc = "seal_swap"
    /\ taken' = buffer
    /\ buffer' = {}
    /\ GoTo(IF buffer = {} THEN AfterSeal ELSE "seal_push")
    /\ UNCHANGED <<sealing, segments, objectVars, inserted, sealerVars, mergerVars>>

SealPush ==
    /\ wpc = "seal_push"
    /\ Allocate(taken, {})
    /\ sealing' = sealing \cup {fresh}
    /\ taken' = {}
    /\ GoTo("seal_spawn")
    /\ UNCHANGED <<buffer, segments, inserted, sealerVars, mergerVars>>

(* SealContext::spawn_if_needed: a new thread unless one is in flight. *)
SealSpawn ==
    /\ wpc = "seal_spawn"
    /\ sealFlag' = TRUE
    /\ IF sealFlag
         THEN UNCHANGED sealer
         ELSE \E t \in SealThreads :
                  /\ sealer[t].pc = "none"
                  /\ sealer' = [sealer EXCEPT ![t].pc = "take"]
    /\ GoTo(AfterSeal)
    /\ UNCHANGED <<buffer, sealing, segments, objectVars, inserted, taken, mergerVars>>

(* Mutant: the limit is off by one. *)
StallOffByOne ==
    /\ wpc = "stall"
    /\ Cardinality(sealing) <= QueueLimit + 1 \/ ValveOpens
    /\ Return
    /\ UNCHANGED <<buffer, sealing, segments, objectVars, inserted, taken,
                   sealerVars, mergerVars>>

(* apply_backpressure: wait for the queue, or for the safety valve. *)
Stall ==
    /\ wpc = "stall"
    /\ Cardinality(sealing) <= QueueLimit \/ ValveOpens
    /\ Return
    /\ UNCHANGED <<buffer, sealing, segments, objectVars, inserted, taken,
                   sealerVars, mergerVars>>

(* wait_for_background: wait_for_seal, wait_for_merge, then one re-check   *)
(* of all three conditions, each a separate load.                          *)
Poll(here, quiet, next, again) ==
    /\ wpc = here
    /\ GoTo(IF quiet THEN next ELSE again)
    /\ UNCHANGED <<buffer, sealing, segments, objectVars, inserted, taken,
                   sealerVars, mergerVars>>

WaitSeal == Poll("wait_seal", ~sealFlag, "wait_queue", "wait_seal")
WaitQueue == Poll("wait_queue", sealing = {}, "wait_merge", "wait_seal")
WaitMerge == Poll("wait_merge", ~mergeFlag, "check_seal", "wait_merge")
CheckSeal == Poll("check_seal", ~sealFlag, "check_queue", "wait_seal")
CheckQueue == Poll("check_queue", sealing = {}, "check_merge", "wait_seal")
CheckMerge == Poll("check_merge", ~mergeFlag, "ckpt_write", "wait_seal")

(* The rest of checkpoint writes files and reads `segments` only. *)
CheckpointWrite ==
    /\ wpc = "ckpt_write"
    /\ Return
    /\ UNCHANGED <<buffer, sealing, segments, objectVars, inserted, taken,
                   sealerVars, mergerVars>>

WriterStep ==
    \/ ValidateBuffer \/ ValidateSealing \/ ValidateSegments \/ ApplyInsert
    \/ ContainsBuffer \/ ContainsSealing \/ ContainsSegments
    \/ DeleteFromBuffer \/ DeleteFromSealing \/ DeleteFromSegments
    \/ SealSwap \/ SealPush \/ SealSpawn \/ Stall
    \/ WaitSeal \/ WaitQueue \/ WaitMerge
    \/ CheckSeal \/ CheckQueue \/ CheckMerge \/ CheckpointWrite

Client ==
    \/ \E id \in Ids : StartInsert(id) \/ StartDelete(id)
    \/ StartCheckpoint

-----------------------------------------------------------------------------
(* The seal thread: SealContext::spawn_if_needed's loop and build_one. *)

SealerAt(t, pc) == sealer[t].pc = pc
SealerGoTo(t, pc) == sealer' = [sealer EXCEPT ![t].pc = pc]
SealerIdle == UNCHANGED <<buffer, inserted, writerVars, taken>>

TakeNext(t) ==
    /\ SealerAt(t, "take")
    /\ IF sealing = {}
         THEN SealerGoTo(t, "release")
         ELSE \E o \in sealing :
                  /\ IsOldest(o, sealing)
                  /\ sealer' = [sealer EXCEPT ![t] = [pc |-> "build", obj |-> o]]
    /\ UNCHANGED <<sealing, segments, objectVars, sealFlag, mergerVars>>
    /\ SealerIdle

(* The HNSW is built from the immutable data without a lock; then, under   *)
(* both write locks, the tombstones that landed meanwhile are carried over *)
(* and the object moves from the queue to the end of the segment list.     *)
BuildOne(t) ==
    LET o == sealer[t].obj IN
    /\ SealerAt(t, "build")
    /\ ~SegmentsReadLocked
    /\ Allocate(data[o], tombs[o])
    /\ segments' = segments \cup {fresh}
    /\ sealing' = sealing \ {o}
    /\ sealer' = [sealer EXCEPT ![t] = [pc |-> "merge_len", obj |-> NoObj]]
    /\ UNCHANGED <<sealFlag, mergerVars>>
    /\ SealerIdle

(* MergeContext::spawn_if_needed, called by the seal thread. *)
MergeNeeded(t) ==
    /\ SealerAt(t, "merge_len")
    /\ SealerGoTo(t, IF Cardinality(segments) <= MaxSegments THEN "take" ELSE "merge_flag")
    /\ UNCHANGED <<sealing, segments, objectVars, sealFlag, mergerVars>>
    /\ SealerIdle

MergeSpawn(t) ==
    /\ SealerAt(t, "merge_flag")
    /\ mergeFlag' = TRUE
    /\ IF mergeFlag
         THEN UNCHANGED merger
         ELSE \E m \in MergeThreads :
                  /\ merger[m].pc = "none"
                  /\ merger' = [merger EXCEPT ![m].pc = "while"]
    /\ SealerGoTo(t, "take")
    /\ UNCHANGED <<sealing, segments, objectVars, sealFlag>>
    /\ SealerIdle

SealRelease(t) ==
    /\ SealerAt(t, "release")
    /\ sealFlag' = FALSE
    /\ SealerGoTo(t, "recheck")
    /\ UNCHANGED <<sealing, segments, objectVars, mergerVars>>
    /\ SealerIdle

(* Mutants: no second look at the queue; the flag claimed before that look *)
(* and kept when the queue is empty.                                       *)
SealRecheckSkipped(t) ==
    /\ SealerAt(t, "recheck")
    /\ SealerGoTo(t, "none")
    /\ UNCHANGED <<sealing, segments, objectVars, sealFlag, mergerVars>>
    /\ SealerIdle
SealRecheckClaims(t) ==
    /\ SealerAt(t, "recheck")
    /\ sealFlag' = TRUE
    /\ SealerGoTo(t, IF sealFlag \/ sealing = {} THEN "none" ELSE "take")
    /\ UNCHANGED <<sealing, segments, objectVars, mergerVars>>
    /\ SealerIdle

(* An element may have entered the queue before the flag was released. *)
SealRecheck(t) ==
    /\ SealerAt(t, "recheck")
    /\ SealerGoTo(t, IF sealing = {} THEN "none" ELSE "reclaim")
    /\ UNCHANGED <<sealing, segments, objectVars, sealFlag, mergerVars>>
    /\ SealerIdle

(* Mutant: the loop goes on whoever holds the flag. *)
SealReclaimAnyway(t) ==
    /\ SealerAt(t, "reclaim")
    /\ sealFlag' = TRUE
    /\ SealerGoTo(t, "take")
    /\ UNCHANGED <<sealing, segments, objectVars, mergerVars>>
    /\ SealerIdle

SealReclaim(t) ==
    /\ SealerAt(t, "reclaim")
    /\ sealFlag' = TRUE
    /\ SealerGoTo(t, IF sealFlag THEN "none" ELSE "take")
    /\ UNCHANGED <<sealing, segments, objectVars, mergerVars>>
    /\ SealerIdle

SealerStep(t) ==
    \/ TakeNext(t) \/ BuildOne(t) \/ MergeNeeded(t) \/ MergeSpawn(t)
    \/ SealRelease(t) \/ SealRecheck(t) \/ SealReclaim(t)

-----------------------------------------------------------------------------
(* The merge thread: MergeContext::spawn_if_needed's loop and              *)
(* merge_smallest_pair_bg.                                                 *)

MergerAt(t, pc) == merger[t].pc = pc
MergerGoTo(t, pc) == merger' = [merger EXCEPT ![t].pc = pc]
MergerIdle == UNCHANGED <<buffer, sealing, inserted, writerVars, taken, sealerVars>>

MergeWhile(t) ==
    /\ MergerAt(t, "while")
    /\ MergerGoTo(t, IF Cardinality(segments) > MaxSegments THEN "pick" ELSE "release")
    /\ UNCHANGED <<segments, objectVars, mergeFlag>>
    /\ MergerIdle

(* Fewer than two segments: nothing to do.  Else the two smallest by live  *)
(* count, the read lock being kept for the two snapshots that follow.      *)
PickVictims(t) ==
    /\ MergerAt(t, "pick")
    /\ IF Cardinality(segments) < 2
         THEN MergerGoTo(t, "while")
         ELSE \E a, b \in segments :
                  /\ IsSmallest(a, segments)
                  /\ IsSmallest(b, segments \ {a})
                  /\ merger' = [merger EXCEPT ![t] =
                         [pc |-> "snap_a", a |-> a, b |-> b, aSnap |-> {}, bSnap |-> {}]]
    /\ UNCHANGED <<segments, objectVars, mergeFlag>>
    /\ MergerIdle

SnapshotA(t) ==
    /\ MergerAt(t, "snap_a")
    /\ merger' = [merger EXCEPT ![t].pc = "snap_b", ![t].aSnap = tombs[merger[t].a]]
    /\ UNCHANGED <<segments, objectVars, mergeFlag>>
    /\ MergerIdle

SnapshotB(t) ==
    /\ MergerAt(t, "snap_b")
    /\ merger' = [merger EXCEPT ![t].pc = "swap", ![t].bSnap = tombs[merger[t].b]]
    /\ UNCHANGED <<segments, objectVars, mergeFlag>>
    /\ MergerIdle

(* Mutants: tombstoned vectors are copied too; the tombstones that landed  *)
(* on the second victim are lost.                                          *)
CopiedAll(victim, snap) == data[victim]
CarriedOfFirst(m) == tombs[m.a] \ m.aSnap

(* What the lock-free rebuild copies from a victim. *)
Copied(victim, snap) == { r \in data[victim] : r[1] \notin snap }

(* The tombstones that landed on the victims during the rebuild. *)
Carried(m) == (tombs[m.a] \ m.aSnap) \cup (tombs[m.b] \ m.bSnap)

(* The swap, under the write lock, if both victims are still listed. *)
MergeSwap(t) ==
    LET m == merger[t] IN
    /\ MergerAt(t, "swap")
    /\ ~SegmentsReadLocked
    /\ IF m.a \in segments /\ m.b \in segments
         THEN /\ Allocate(Copied(m.a, m.aSnap) \cup Copied(m.b, m.bSnap), Carried(m))
              /\ segments' = (segments \ {m.a, m.b}) \cup {fresh}
         ELSE UNCHANGED <<segments, objectVars>>
    /\ merger' = [merger EXCEPT ![t] = [IdleMerger EXCEPT !.pc = "while"]]
    /\ UNCHANGED mergeFlag
    /\ MergerIdle

MergeRelease(t) ==
    /\ MergerAt(t, "release")
    /\ mergeFlag' = FALSE
    /\ MergerGoTo(t, "recheck")
    /\ UNCHANGED <<segments, objectVars>>
    /\ MergerIdle

(* Mutant: no second look at the segments. *)
MergeRecheckSkipped(t) ==
    /\ MergerAt(t, "recheck")
    /\ MergerGoTo(t, "none")
    /\ UNCHANGED <<segments, objectVars, mergeFlag>>
    /\ MergerIdle

(* A segment may have been added before the flag was released. *)
MergeRecheck(t) ==
    /\ MergerAt(t, "recheck")
    /\ MergerGoTo(t, IF Cardinality(segments) <= MaxSegments THEN "none" ELSE "reclaim")
    /\ UNCHANGED <<segments, objectVars, mergeFlag>>
    /\ MergerIdle

MergeReclaim(t) ==
    /\ MergerAt(t, "reclaim")
    /\ mergeFlag' = TRUE
    /\ MergerGoTo(t, IF mergeFlag THEN "none" ELSE "while")
    /\ UNCHANGED <<segments, objectVars>>
    /\ MergerIdle

MergerStep(t) ==
    \/ MergeWhile(t) \/ PickVictims(t) \/ SnapshotA(t) \/ SnapshotB(t)
    \/ MergeSwap(t) \/ MergeRelease(t) \/ MergeRecheck(t) \/ MergeReclaim(t)

-----------------------------------------------------------------------------
Next ==
    \/ Client
    \/ WriterStep
    \/ \E t \in SealThreads : SealerStep(t)
    \/ \E t \in MergeThreads : MergerStep(t)

Spec == Init /\ [][Next]_vars

(* The operating system runs every thread that is ready; a client need not *)
(* send a request, but the writer finishes the one it began.               *)
Fairness ==
    /\ WF_vars(WriterStep)
    /\ \A t \in SealThreads : WF_vars(SealerStep(t))
    /\ \A t \in MergeThreads : WF_vars(MergerStep(t))

FairSpec == Spec /\ Fairness

-----------------------------------------------------------------------------
(* Properties. *)

ListsTypeOK ==
    /\ buffer \in SUBSET Record /\ taken \in SUBSET Record
    /\ data \in [Obj -> SUBSET Record] /\ tombs \in [Obj -> SUBSET Ids]
    /\ fresh \in 1 .. MaxObjects + 1
    /\ sealing \in SUBSET (1 .. fresh - 1) /\ segments \in SUBSET (1 .. fresh - 1)
    /\ inserted \in [Ids -> 0 .. InsertsPerId]
WriterTypeOK ==
    /\ wpc \in WriterPC /\ wop \in {"none", "insert", "delete", "checkpoint"}
    /\ wid \in Ids \cup {NoId}
SealersTypeOK ==
    /\ sealFlag \in BOOLEAN
    /\ sealer \in [SealThreads -> [pc : SealerPC, obj : Obj \cup {NoObj}]]
MergersTypeOK ==
    /\ mergeFlag \in BOOLEAN
    /\ merger \in [MergeThreads ->
           [pc : MergerPC, a : Obj \cup {NoObj}, b : Obj \cup {NoObj},
            aSnap : SUBSET Ids, bSnap : SUBSET Ids]]

(* Every variable has its type; a list holds allocated objects only. *)
TypeOK == ListsTypeOK /\ WriterTypeOK /\ SealersTypeOK /\ MergersTypeOK

(* The places a live record can be: each listed object, and the writer's   *)
(* own two (the buffer, and the contents being handed to the queue).       *)
WriterHeld == buffer \cup taken

(* "at most one live copy can exist" of an id, wherever the background     *)
(* threads have moved its records: search deduplicates and delete stops at *)
(* the first copy only because of this.                                    *)
AtMostOneLive ==
    /\ \A r, q \in Content : r[1] = q[1] => r = q
    /\ \A o, p \in sealing \cup segments :
           o # p => LiveIn(o) \cap LiveIn(p) = {}
    /\ \A o \in sealing \cup segments : LiveIn(o) \cap WriterHeld = {}
    /\ buffer \cap taken = {}

(* A tombstone hides a record of its own object: len_shared and the merge  *)
(* ranking subtract the two sizes as unsigned numbers.                     *)
TombstonesWithinData ==
    \A o \in sealing \cup segments : tombs[o] \subseteq IdsOf(data[o])

(* "a merge insert cannot fail": the two victims never hand the rebuild    *)
(* the same id, although their snapshots are taken one after the other     *)
(* while deletes go on.                                                    *)
MergeInsertCannotFail ==
    \A t \in MergeThreads :
        LET m == merger[t] IN
        m.pc = "swap" =>
            IdsOf(Copied(m.a, m.aSnap)) \cap IdsOf(Copied(m.b, m.bSnap)) = {}

(* "A SINGLE worker drains the queue", and one merge runs at a time, for   *)
(* all the threads that overlap while a flag is released and re-claimed.   *)
SealerActive(t) == sealer[t].pc \notin {"none", "recheck", "reclaim"}
MergerActive(t) == merger[t].pc \notin {"none", "recheck", "reclaim"}
SingleWorkers ==
    /\ \A t, u \in SealThreads : SealerActive(t) /\ SealerActive(u) => t = u
    /\ \A t, u \in MergeThreads : MergerActive(t) /\ MergerActive(u) => t = u

(* When checkpoint stops waiting it writes the segments and rotates the    *)
(* log, so every live record must by then be in a segment.                 *)
CheckpointSeesAll ==
    wpc = "ckpt_write" => Content = UNION { LiveIn(o) : o \in segments }

(* Backpressure: without the safety valve the queue never holds more than  *)
(* one buffer over the limit.                                              *)
QueueBounded == ~ValveOpens => Cardinality(sealing) <= QueueLimit + 1

(* An insert that returned has left its id live (Ok or DuplicateId); a     *)
(* delete that returned has left it dead (Ok or NotFound).                 *)
Answers(deleteHolds) ==
    wpc # "idle" /\ wpc' = "idle" =>
        /\ wop = "insert" => wid \in IdsOf(Content')
        /\ wop = "delete" => wid \notin IdsOf(Content') \/ ~deleteHolds
AnswersHold == [][Answers(TRUE)]_vars

(* The same, but for deletes of an id an old copy of which a merge has put *)
(* behind a newer one: newest-first tombstoning is right as long as the    *)
(* order of the segments is the order of the insertions of that id.        *)
CopiesInOrder(id) ==
    \A o, p \in segments : \A r \in data[o], q \in data[p] :
        o < p /\ r[1] = id /\ q[1] = id => r[2] <= q[2]
AnswersHoldInOrder == [][Answers(CopiesInOrder(wid))]_vars

(* Sealing, building, merging and swapping are invisible: callers see the  *)
(* abstract map, changed by inserts and deletes only.                      *)
AbstractStore == INSTANCE Store WITH content <- Content
ImplementsStore == AbstractStore!Spec

(* Inserts being bounded, every buffer handed to the queue becomes a       *)
(* segment: no wake-up is lost between a push and the seal thread's exit.  *)
QueueDrains == sealing # {} ~> sealing = {}

(* The segment count comes back under its ceiling. *)
CeilingRestored ==
    Cardinality(segments) > MaxSegments ~> Cardinality(segments) <= MaxSegments

(* The writer always comes back to its next request: neither backpressure  *)
(* nor wait_for_background waits for ever.                                 *)
WriterReturns == wpc # "idle" ~> wpc = "idle"
=============================================================================

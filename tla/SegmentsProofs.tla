--------------------------- MODULE SegmentsProofs ---------------------------
(***************************************************************************)
(* What is proved of Segments for every set of ids, every threshold, limit *)
(* and bound, and any number of seal and merge threads: the inductive      *)
(* invariant and what follows from it, and that the segmented index        *)
(* implements the abstract store.                                          *)
(***************************************************************************)
EXTENDS Segments, FiniteSetTheorems, TLAPS

Listed == sealing \cup segments

(* The parts of the inductive invariant. *)

(* A live id is in one place: AtMostOneLive, in the form the steps use. *)
LiveUnique ==
    /\ \A o, p \in Listed : \A r \in LiveIn(o), q \in LiveIn(p) :
           r[1] = q[1] => o = p /\ r = q
    /\ \A o \in Listed : \A r \in LiveIn(o), q \in WriterHeld : r[1] # q[1]
    /\ \A r, q \in WriterHeld : r[1] = q[1] => r = q
    /\ buffer \cap taken = {}

ListsDisjoint == sealing \cap segments = {}

(* What the writer has established at each of its steps. *)
WriterKnows ==
    /\ wpc # "seal_push" => taken = {}
    /\ wpc \in {"ins_buffer", "ins_sealing", "ins_segments", "ins_apply"} =>
           wid \in Ids /\ inserted[wid] < InsertsPerId
    /\ wpc \in {"live_buffer", "live_sealing", "live_segments", "del_buffer",
                "del_sealing", "del_segments"} => wid \in Ids
    /\ wpc \in {"ins_sealing", "ins_segments", "ins_apply"} => wid \notin IdsOf(buffer)
    /\ wpc \in {"ins_segments", "ins_apply"} => ~LiveInList(sealing, wid)
    /\ wpc = "ins_apply" => ~LiveInList(segments, wid)

(* The flags admit one active thread each. *)
FlagsOwned ==
    /\ SingleWorkers
    /\ \A t \in SealThreads : SealerActive(t) => sealFlag
    /\ \A t \in MergeThreads : MergerActive(t) => mergeFlag

(* What a thread works on is still listed. *)
BuildsListed == \A t \in SealThreads : sealer[t].pc = "build" => sealer[t].obj \in sealing
Merging(t) == merger[t].pc \in {"snap_a", "snap_b", "swap"}
VictimsListed ==
    \A t \in MergeThreads : Merging(t) =>
        /\ merger[t].a \in segments /\ merger[t].b \in segments
        /\ merger[t].a # merger[t].b

(* A snapshot is a part of the victim's tombstone set, and what it leaves  *)
(* to copy from one victim is not live in the other.                       *)
SnapshotSound(victim, snap, other) ==
    /\ snap \subseteq tombs[victim]
    /\ \A r \in Copied(victim, snap), q \in LiveIn(other) : r[1] # q[1]
SnapshotsSound ==
    \A t \in MergeThreads :
        LET m == merger[t] IN
        /\ m.pc \in {"snap_b", "swap"} => SnapshotSound(m.a, m.aSnap, m.b)
        /\ m.pc = "swap" =>
              /\ SnapshotSound(m.b, m.bSnap, m.a)
              /\ \A r \in Copied(m.a, m.aSnap), q \in Copied(m.b, m.bSnap) : r[1] # q[1]

DataInv == LiveUnique /\ TombstonesWithinData /\ ListsDisjoint
ThreadInv == FlagsOwned /\ BuildsListed /\ VictimsListed /\ SnapshotsSound
IInv == TypeOK /\ DataInv /\ WriterKnows /\ ThreadInv

-----------------------------------------------------------------------------
USE DEF vars, objectVars, writerVars, sealerVars, mergerVars

LEMMA InitInv == Init => IInv
  <1> SUFFICES ASSUME Init PROVE IInv
    OBVIOUS
  <1>1. ListsTypeOK
    BY BoundsAssumption DEF Init, ListsTypeOK
  <1>2. WriterTypeOK
    BY DEF Init, WriterTypeOK, WriterPC
  <1>3. SealersTypeOK
    BY DEF Init, SealersTypeOK, SealerPC, IdleSealer
  <1>4. MergersTypeOK
    BY DEF Init, MergersTypeOK, MergerPC, IdleMerger
  <1>5. DataInv
    BY DEF Init, DataInv, LiveUnique, Listed, WriterHeld, TombstonesWithinData, ListsDisjoint
  <1>6. WriterKnows
    BY DEF Init, WriterKnows
  <1>7. ThreadInv
    BY DEF Init, ThreadInv, FlagsOwned, SingleWorkers, SealerActive, MergerActive, BuildsListed,
           VictimsListed, SnapshotsSound, Merging, IdleSealer, IdleMerger
  <1> QED
    BY <1>1, <1>2, <1>3, <1>4, <1>5, <1>6, <1>7 DEF IInv, TypeOK

(* The writer's program counter and operation stay in their types. *)
LEMMA WriterTypeStep ==
  ASSUME WriterTypeOK, [Next]_vars
  PROVE  WriterTypeOK'
  <1> USE DEF WriterTypeOK, WriterPC, GoTo, Return
  <1>1. CASE Client
    BY <1>1 DEF Client, StartInsert, StartDelete, StartCheckpoint, Start
  <1>2. CASE WriterStep
    <2>1. CASE ValidateBuffer \/ ValidateSealing \/ ValidateSegments \/ ApplyInsert
      BY <2>1 DEF ValidateBuffer, ValidateSealing, ValidateSegments, Check, ApplyInsert
    <2>2. CASE ContainsBuffer \/ ContainsSealing \/ ContainsSegments
      BY <2>2 DEF ContainsBuffer, ContainsSealing, ContainsSegments, Found
    <2>3. CASE DeleteFromBuffer \/ DeleteFromSealing \/ DeleteFromSegments
      BY <2>3 DEF DeleteFromBuffer, DeleteFromSealing, DeleteFromSegments
    <2>4. CASE SealSwap \/ SealPush \/ SealSpawn \/ Stall \/ CheckpointWrite
      BY <2>4 DEF SealSwap, SealPush, SealSpawn, Stall, CheckpointWrite, AfterSeal
    <2>5. CASE WaitSeal \/ WaitQueue \/ WaitMerge \/ CheckSeal \/ CheckQueue \/ CheckMerge
      BY <2>5 DEF WaitSeal, WaitQueue, WaitMerge, CheckSeal, CheckQueue, CheckMerge, Poll
    <2> QED
      BY <1>2, <2>1, <2>2, <2>3, <2>4, <2>5 DEF WriterStep
  <1>3. ASSUME NEW t \in SealThreads, SealerStep(t)
        PROVE  WriterTypeOK'
    BY <1>3 DEF SealerStep, TakeNext, BuildOne, MergeNeeded, MergeSpawn, SealRelease,
                SealRecheck, SealReclaim, SealerIdle
  <1>4. ASSUME NEW t \in MergeThreads, MergerStep(t)
        PROVE  WriterTypeOK'
    BY <1>4 DEF MergerStep, MergeWhile, PickVictims, SnapshotA, SnapshotB, MergeSwap,
                MergeRelease, MergeRecheck, MergeReclaim, MergerIdle
  <1>5. CASE UNCHANGED vars
    BY <1>5
  <1> QED
    BY <1>1, <1>2, <1>3, <1>4, <1>5 DEF Next

-----------------------------------------------------------------------------
(* What each kind of step leaves alone. *)

indexVars == <<buffer, sealing, segments, objectVars, inserted, taken>>

(* Eight kinds of step change the records or where they are. *)
LEMMA IndexSteps ==
  ASSUME [Next]_vars
  PROVE  \/ UNCHANGED indexVars
         \/ ApplyInsert \/ DeleteFromBuffer \/ DeleteFromSealing \/ DeleteFromSegments
         \/ SealSwap \/ SealPush
         \/ \E t \in SealThreads : BuildOne(t)
         \/ \E t \in MergeThreads : MergeSwap(t)
  <1> USE DEF indexVars
  <1>1. CASE Client
    BY <1>1 DEF Client, StartInsert, StartDelete, StartCheckpoint, Start
  <1>2. CASE WriterStep
    <2>1. CASE ValidateBuffer \/ ValidateSealing \/ ValidateSegments
      BY <2>1 DEF ValidateBuffer, ValidateSealing, ValidateSegments, Check
    <2>2. CASE ContainsBuffer \/ ContainsSealing \/ ContainsSegments
      BY <2>2 DEF ContainsBuffer, ContainsSealing, ContainsSegments, Found
    <2>3. CASE SealSpawn \/ Stall \/ CheckpointWrite
      BY <2>3 DEF SealSpawn, Stall, CheckpointWrite
    <2>4. CASE WaitSeal \/ WaitQueue \/ WaitMerge \/ CheckSeal \/ CheckQueue \/ CheckMerge
      BY <2>4 DEF WaitSeal, WaitQueue, WaitMerge, CheckSeal, CheckQueue, CheckMerge, Poll
    <2> QED
      BY <1>2, <2>1, <2>2, <2>3, <2>4 DEF WriterStep
  <1>3. ASSUME NEW t \in SealThreads, SealerStep(t)
        PROVE  UNCHANGED indexVars \/ BuildOne(t)
    BY <1>3 DEF SealerStep, TakeNext, MergeNeeded, MergeSpawn, SealRelease, SealRecheck,
                SealReclaim, SealerIdle
  <1>4. ASSUME NEW t \in MergeThreads, MergerStep(t)
        PROVE  UNCHANGED indexVars \/ MergeSwap(t)
    BY <1>4 DEF MergerStep, MergeWhile, PickVictims, SnapshotA, SnapshotB, MergeRelease,
                MergeRecheck, MergeReclaim, MergerIdle
  <1>5. CASE UNCHANGED vars
    BY <1>5
  <1> QED
    BY <1>1, <1>2, <1>3, <1>4, <1>5 DEF Next

(* Only spawning and the seal threads themselves change their state. *)
LEMMA SealerSteps ==
  ASSUME [Next]_vars
  PROVE  UNCHANGED sealerVars \/ SealSpawn \/ \E t \in SealThreads : SealerStep(t)
  <1>1. CASE Client
    BY <1>1 DEF Client, StartInsert, StartDelete, StartCheckpoint, Start
  <1>2. CASE WriterStep
    BY <1>2 DEF WriterStep, ValidateBuffer, ValidateSealing, ValidateSegments, Check, ApplyInsert,
                ContainsBuffer, ContainsSealing, ContainsSegments, Found,
                DeleteFromBuffer, DeleteFromSealing, DeleteFromSegments, SealSwap, SealPush,
                Stall, WaitSeal, WaitQueue, WaitMerge, CheckSeal, CheckQueue, CheckMerge, Poll,
                CheckpointWrite
  <1>3. ASSUME NEW t \in MergeThreads, MergerStep(t)
        PROVE  UNCHANGED sealerVars
    BY <1>3 DEF MergerStep, MergeWhile, PickVictims, SnapshotA, SnapshotB, MergeSwap,
                MergeRelease, MergeRecheck, MergeReclaim, MergerIdle
  <1> QED
    BY <1>1, <1>2, <1>3 DEF Next

(* Only the seal threads' spawning and the merge threads change theirs. *)
LEMMA MergerSteps ==
  ASSUME [Next]_vars
  PROVE  \/ UNCHANGED mergerVars
         \/ \E t \in SealThreads : MergeSpawn(t)
         \/ \E t \in MergeThreads : MergerStep(t)
  <1>1. CASE Client
    BY <1>1 DEF Client, StartInsert, StartDelete, StartCheckpoint, Start
  <1>2. CASE WriterStep
    BY <1>2 DEF WriterStep, ValidateBuffer, ValidateSealing, ValidateSegments, Check, ApplyInsert,
                ContainsBuffer, ContainsSealing, ContainsSegments, Found,
                DeleteFromBuffer, DeleteFromSealing, DeleteFromSegments, SealSwap, SealPush,
                SealSpawn, Stall, WaitSeal, WaitQueue, WaitMerge, CheckSeal, CheckQueue,
                CheckMerge, Poll, CheckpointWrite
  <1>3. ASSUME NEW t \in SealThreads, SealerStep(t)
        PROVE  UNCHANGED mergerVars \/ MergeSpawn(t)
    BY <1>3 DEF SealerStep, TakeNext, BuildOne, MergeNeeded, SealRelease, SealRecheck, SealReclaim
  <1> QED
    BY <1>1, <1>2, <1>3 DEF Next

-----------------------------------------------------------------------------
(* Listed objects have been allocated; the next one has not. *)
LEMMA ListedAllocated ==
  ASSUME ListsTypeOK
  PROVE  /\ sealing \subseteq Obj /\ segments \subseteq Obj
         /\ \A o \in Listed : o # fresh /\ data[o] \in SUBSET Record /\ tombs[o] \in SUBSET Ids
  <1>1. sealing \subseteq Obj /\ segments \subseteq Obj
    BY BoundsAssumption DEF ListsTypeOK, Obj
  <1>2. fresh \notin sealing /\ fresh \notin segments
    BY BoundsAssumption DEF ListsTypeOK
  <1> QED
    BY <1>1, <1>2 DEF ListsTypeOK, Listed

LEMMA SealersTypeStep ==
  ASSUME ListsTypeOK, SealersTypeOK, [Next]_vars
  PROVE  SealersTypeOK'
  <1> USE DEF SealersTypeOK, SealerPC
  <1>1. CASE UNCHANGED sealerVars
    BY <1>1
  <1>2. CASE SealSpawn
    BY <1>2 DEF SealSpawn
  <1>3. ASSUME NEW t \in SealThreads, SealerStep(t)
        PROVE  SealersTypeOK'
    <2> USE DEF SealerGoTo
    <2>1. CASE TakeNext(t)
      <3>1. sealing \subseteq Obj
        BY ListedAllocated
      <3>2. CASE sealing = {}
        BY <2>1, <3>2 DEF TakeNext
      <3>3. ASSUME NEW o \in sealing,
                   sealer' = [sealer EXCEPT ![t] = [pc |-> "build", obj |-> o]]
            PROVE  sealer' \in [SealThreads -> [pc : SealerPC, obj : Obj \cup {NoObj}]]
        BY <3>1, <3>3
      <3> QED
        BY <2>1, <3>2, <3>3 DEF TakeNext
    <2>2. CASE BuildOne(t)
      BY <2>2 DEF BuildOne
    <2>3. CASE MergeNeeded(t)
      BY <2>3 DEF MergeNeeded
    <2>4. CASE MergeSpawn(t)
      BY <2>4 DEF MergeSpawn
    <2>5. CASE SealRelease(t)
      BY <2>5 DEF SealRelease
    <2>6. CASE SealRecheck(t)
      BY <2>6 DEF SealRecheck
    <2>7. CASE SealReclaim(t)
      BY <2>7 DEF SealReclaim
    <2> QED
      BY <1>3, <2>1, <2>2, <2>3, <2>4, <2>5, <2>6, <2>7 DEF SealerStep
  <1> QED
    BY <1>1, <1>2, <1>3, SealerSteps

LEMMA MergersTypeStep ==
  ASSUME ListsTypeOK, MergersTypeOK, VictimsListed, [Next]_vars
  PROVE  MergersTypeOK'
  <1> USE DEF MergersTypeOK, MergerPC
  <1>1. CASE UNCHANGED mergerVars
    BY <1>1
  <1>2. ASSUME NEW t \in SealThreads, MergeSpawn(t)
        PROVE  MergersTypeOK'
    BY <1>2 DEF MergeSpawn
  <1>3. ASSUME NEW t \in MergeThreads, MergerStep(t)
        PROVE  MergersTypeOK'
    <2>g. ASSUME NEW pc \in MergerPC, MergerGoTo(t, pc)
          PROVE  merger' \in [MergeThreads ->
                     [pc : MergerPC, a : Obj \cup {NoObj}, b : Obj \cup {NoObj},
                      aSnap : SUBSET Ids, bSnap : SUBSET Ids]]
      BY <2>g DEF MergerGoTo
    <2> USE DEF MergerGoTo
    <2>1. CASE MergeWhile(t)
      BY <2>1 DEF MergeWhile
    <2>2. CASE PickVictims(t)
      <3>1. segments \subseteq Obj
        BY ListedAllocated
      <3>2. CASE Cardinality(segments) < 2
        BY <2>2, <3>2 DEF PickVictims
      <3>3. ASSUME NEW a \in segments, NEW b \in segments,
                   merger' = [merger EXCEPT ![t] =
                       [pc |-> "snap_a", a |-> a, b |-> b, aSnap |-> {}, bSnap |-> {}]]
            PROVE  merger' \in [MergeThreads ->
                       [pc : MergerPC, a : Obj \cup {NoObj}, b : Obj \cup {NoObj},
                        aSnap : SUBSET Ids, bSnap : SUBSET Ids]]
        BY <3>1, <3>3
      <3>4. UNCHANGED mergeFlag
        BY <2>2 DEF PickVictims
      <3> QED
        BY <2>2, <3>2, <3>3, <3>4 DEF PickVictims
    <2>3. CASE SnapshotA(t)
      <3>1. merger[t].a \in Listed
        BY <2>3 DEF SnapshotA, MergerAt, VictimsListed, Merging, Listed
      <3>2. PICK snap \in SUBSET Ids : snap = tombs[merger[t].a]
        BY <3>1, ListedAllocated
      <3>3. /\ merger' = [merger EXCEPT ![t].pc = "snap_b", ![t].aSnap = snap]
            /\ UNCHANGED mergeFlag
        BY <2>3, <3>2 DEF SnapshotA
      <3> HIDE DEF MergerGoTo
      <3> QED
        BY <3>3, ZenonT(60)
    <2>4. CASE SnapshotB(t)
      <3>1. merger[t].b \in Listed
        BY <2>4 DEF SnapshotB, MergerAt, VictimsListed, Merging, Listed
      <3>2. PICK snap \in SUBSET Ids : snap = tombs[merger[t].b]
        BY <3>1, ListedAllocated
      <3>3. /\ merger' = [merger EXCEPT ![t].pc = "swap", ![t].bSnap = snap]
            /\ UNCHANGED mergeFlag
        BY <2>4, <3>2 DEF SnapshotB
      <3> HIDE DEF MergerGoTo
      <3> QED
        BY <3>3, ZenonT(60)
    <2>5. CASE MergeSwap(t)
      <3>1. PICK State, idle : /\ idle = [IdleMerger EXCEPT !.pc = "while"]
                               /\ State = [pc : MergerPC, a : Obj \cup {NoObj}, b : Obj \cup {NoObj},
                                           aSnap : SUBSET Ids, bSnap : SUBSET Ids]
        OBVIOUS
      <3>2. merger' = [merger EXCEPT ![t] = idle] /\ UNCHANGED mergeFlag
        BY <2>5, <3>1, ZenonT(30) DEF MergeSwap
      <3>3. idle \in State
        BY <3>1 DEF IdleMerger
      <3>4. merger \in [MergeThreads -> State] /\ mergeFlag \in BOOLEAN
        BY <3>1
      <3>5. merger' \in [MergeThreads -> State] /\ mergeFlag' \in BOOLEAN
        BY ONLY <3>2, <3>3, <3>4
      <3> QED
        BY ONLY <3>1, <3>5, Zenon DEF MergersTypeOK
    <2>6. CASE MergeRelease(t)
      <3> HIDE DEF MergerGoTo
      <3>1. mergeFlag' \in BOOLEAN /\ MergerGoTo(t, "recheck")
        BY <2>6 DEF MergeRelease
      <3> QED
        BY ONLY <3>1, <2>g DEF MergersTypeOK, MergerPC
    <2>7. CASE MergeRecheck(t)
      BY <2>7 DEF MergeRecheck
    <2>8. CASE MergeReclaim(t)
      BY <2>8 DEF MergeReclaim
    <2> QED
      BY <1>3, <2>1, <2>2, <2>3, <2>4, <2>5, <2>6, <2>7, <2>8 DEF MergerStep
  <1> QED
    BY <1>1, <1>2, <1>3, MergerSteps

LEMMA ListsTypeStep ==
  ASSUME ListsTypeOK, WriterTypeOK, MergersTypeOK, WriterKnows, BuildsListed, [Next]_vars
  PROVE  ListsTypeOK'
  <1> USE DEF ListsTypeOK
  <1>0. ASSUME NEW records \in SUBSET Record, NEW dead \in SUBSET Ids, Allocate(records, dead),
               sealing' \subseteq sealing \cup {fresh}, segments' \subseteq segments \cup {fresh}
        PROVE  /\ data' \in [Obj -> SUBSET Record] /\ tombs' \in [Obj -> SUBSET Ids]
               /\ fresh' \in 1 .. MaxObjects + 1
               /\ sealing' \in SUBSET (1 .. fresh' - 1) /\ segments' \in SUBSET (1 .. fresh' - 1)
    BY <1>0, BoundsAssumption DEF Allocate, Obj
  <1>1. CASE UNCHANGED indexVars
    BY <1>1 DEF indexVars
  <1>2. CASE ApplyInsert
    BY <1>2, BoundsAssumption DEF ApplyInsert, WriterKnows, Record, Vectors
  <1>3. CASE DeleteFromBuffer
    BY <1>3 DEF DeleteFromBuffer
  <1>4. CASE DeleteFromSealing
    BY <1>4 DEF DeleteFromSealing, Bury, WriterKnows
  <1>5. CASE DeleteFromSegments
    BY <1>5 DEF DeleteFromSegments, Bury, WriterKnows
  <1>6. CASE SealSwap
    BY <1>6 DEF SealSwap
  <1>7. CASE SealPush
    BY <1>0, <1>7 DEF SealPush
  <1>8. ASSUME NEW t \in SealThreads, BuildOne(t)
        PROVE  ListsTypeOK'
    <2>1. sealer[t].obj \in Listed
      BY <1>8 DEF BuildOne, SealerAt, BuildsListed, Listed
    <2>2. PICK records \in SUBSET Record, dead \in SUBSET Ids : Allocate(records, dead)
      BY <1>8, <2>1, ListedAllocated DEF BuildOne
    <2>3. segments' = segments \cup {fresh} /\ sealing' \subseteq sealing
          /\ UNCHANGED <<buffer, inserted, taken>>
      BY <1>8 DEF BuildOne, SealerIdle
    <2> QED
      BY <2>2, <2>3, <1>0
  <1>9. ASSUME NEW t \in MergeThreads, MergeSwap(t)
        PROVE  ListsTypeOK'
    <2> DEFINE m == merger[t]
    <2>1. UNCHANGED <<buffer, inserted, taken, sealing>>
      BY <1>9 DEF MergeSwap, MergerIdle
    <2>2. CASE ~(m.a \in segments /\ m.b \in segments)
      BY <1>9, <2>1, <2>2 DEF MergeSwap
    <2>3. CASE m.a \in segments /\ m.b \in segments
      <3>1. m.a \in Listed /\ m.b \in Listed
        BY <2>3 DEF Listed
      <3>2. PICK records \in SUBSET Record, dead \in SUBSET Ids : Allocate(records, dead)
        BY <1>9, <2>3, <3>1, ListedAllocated DEF MergeSwap, Copied, Carried
      <3>3. segments' \subseteq segments \cup {fresh}
        BY <1>9, <2>3 DEF MergeSwap
      <3> QED
        BY <2>1, <3>2, <3>3, <1>0
    <2> QED
      BY <2>2, <2>3
  <1> QED
    BY <1>1, <1>2, <1>3, <1>4, <1>5, <1>6, <1>7, <1>8, <1>9, IndexSteps

-----------------------------------------------------------------------------
(* The records. *)

(* Publishing an object leaves what is live in the others alone. *)
LEMMA AllocateLive ==
  ASSUME ListsTypeOK, NEW f, f = fresh,
         NEW records \in SUBSET Record, NEW dead \in SUBSET Ids, Allocate(records, dead)
  PROVE  /\ f \notin Listed
         /\ data'[f] = records /\ tombs'[f] = dead
         /\ \A o \in Listed : data'[o] = data[o] /\ tombs'[o] = tombs[o]
         /\ \A o \in Listed : LiveIn(o)' = LiveIn(o)
         /\ LiveIn(f)' = { r \in records : r[1] \notin dead }
  <1>1. f \notin Listed /\ f \in Obj
    BY ListedAllocated DEF Allocate
  <1>2. data'[f] = records /\ tombs'[f] = dead
    BY <1>1 DEF Allocate, ListsTypeOK
  <1>3. \A o \in Listed : data'[o] = data[o] /\ tombs'[o] = tombs[o]
    BY <1>1, ListedAllocated DEF Allocate, ListsTypeOK, Listed
  <1> QED
    BY <1>1, <1>2, <1>3 DEF LiveIn

(* A new tombstone hides the records of that id in that object, and no     *)
(* other.                                                                  *)
LEMMA BuryLive ==
  ASSUME ListsTypeOK, NEW list \in SUBSET Listed, Bury(list), UNCHANGED data
  PROVE  \E b \in list :
           /\ wid \in IdsOf(data[b])
           /\ tombs'[b] = tombs[b] \cup {wid}
           /\ \A o \in Listed : o # b => tombs'[o] = tombs[o]
           /\ LiveIn(b)' = { r \in LiveIn(b) : r[1] # wid }
           /\ \A o \in Listed : o # b => LiveIn(o)' = LiveIn(o)
  <1>1. PICK b \in list : /\ IsNewest(b, Holding(list, wid))
                          /\ tombs' = [tombs EXCEPT ![b] = @ \cup {wid}]
    BY DEF Bury, IsNewest, Holding
  <1>2. b \in Obj /\ wid \in IdsOf(data[b])
    BY <1>1, ListedAllocated DEF IsNewest, Holding, Listed
  <1>3. tombs'[b] = tombs[b] \cup {wid}
    BY <1>1, <1>2 DEF ListsTypeOK
  <1>4. \A o \in Listed : o # b => tombs'[o] = tombs[o]
    BY <1>1, ListedAllocated DEF ListsTypeOK, Listed
  <1>5. LiveIn(b)' = { r \in LiveIn(b) : r[1] # wid }
    BY <1>3 DEF LiveIn
  <1>6. \A o \in Listed : o # b => LiveIn(o)' = LiveIn(o)
    BY <1>4 DEF LiveIn
  <1> QED
    BY <1>2, <1>3, <1>4, <1>5, <1>6

(* Diff-replay: what is live in the merged segment is what is live in its  *)
(* two victims at the swap, whatever was deleted during the rebuild.       *)
LEMMA MergeLive ==
  ASSUME NEW t \in MergeThreads, merger[t].pc = "swap", VictimsListed, SnapshotsSound,
         TombstonesWithinData
  PROVE  LET m == merger[t]
             merged == Copied(m.a, m.aSnap) \cup Copied(m.b, m.bSnap)
         IN  /\ { r \in merged : r[1] \notin Carried(m) } = LiveIn(m.a) \cup LiveIn(m.b)
             /\ Carried(m) \subseteq IdsOf(merged)
  <1> DEFINE m == merger[t]
             merged == Copied(m.a, m.aSnap) \cup Copied(m.b, m.bSnap)
  <1>1. SnapshotSound(m.a, m.aSnap, m.b) /\ SnapshotSound(m.b, m.bSnap, m.a)
    BY DEF SnapshotsSound
  <1>2. tombs[m.a] \subseteq IdsOf(data[m.a]) /\ tombs[m.b] \subseteq IdsOf(data[m.b])
    BY DEF VictimsListed, Merging, TombstonesWithinData
  <1>3. tombs[m.a] \ m.aSnap \subseteq IdsOf(Copied(m.a, m.aSnap))
    BY <1>2 DEF IdsOf, Copied
  <1>4. tombs[m.b] \ m.bSnap \subseteq IdsOf(Copied(m.b, m.bSnap))
    BY <1>2 DEF IdsOf, Copied
  <1>5. Carried(m) \subseteq IdsOf(merged)
    BY <1>3, <1>4 DEF Carried, IdsOf
  <1>6. ASSUME NEW r \in merged, r[1] \notin Carried(m)
        PROVE  r \in LiveIn(m.a) \cup LiveIn(m.b)
    BY <1>6 DEF Carried, Copied, LiveIn
  <1>7. ASSUME NEW r \in LiveIn(m.a)
        PROVE  r \in merged /\ r[1] \notin Carried(m)
    <2>1. r \in Copied(m.a, m.aSnap)
      BY <1>1 DEF SnapshotSound, Copied, LiveIn
    <2>2. r[1] \notin tombs[m.b] \ m.bSnap
      BY <1>1, <1>4, <1>7 DEF SnapshotSound, IdsOf
    <2> QED
      BY <2>1, <2>2, <1>7 DEF Carried, LiveIn
  <1>8. ASSUME NEW r \in LiveIn(m.b)
        PROVE  r \in merged /\ r[1] \notin Carried(m)
    <2>1. r \in Copied(m.b, m.bSnap)
      BY <1>1 DEF SnapshotSound, Copied, LiveIn
    <2>2. r[1] \notin tombs[m.a] \ m.aSnap
      BY <1>1, <1>3, <1>8 DEF SnapshotSound, IdsOf
    <2> QED
      BY <2>1, <2>2, <1>8 DEF Carried, LiveIn
  <1> QED
    BY <1>5, <1>6, <1>7, <1>8

(* The three steps that move live records to a new object f: what the      *)
(* writer took goes to the sealing list, a sealing object o becomes a      *)
(* segment, two victims become one segment.                                *)
Published(f) ==
    /\ f = fresh /\ f \notin Listed
    /\ \A x \in Listed : data'[x] = data[x] /\ tombs'[x] = tombs[x]
    /\ \A x \in Listed : LiveIn(x)' = LiveIn(x)
    /\ tombs'[f] \subseteq IdsOf(data'[f])

PushMoves(f) ==
    /\ Published(f)
    /\ sealing' = sealing \cup {f} /\ UNCHANGED segments
    /\ UNCHANGED buffer /\ taken' = {}
    /\ data'[f] = taken /\ LiveIn(f)' = taken

BuildMoves(f, o) ==
    /\ Published(f)
    /\ o \in sealing /\ \E t \in SealThreads : SealerAt(t, "build") /\ sealer[t].obj = o
    /\ sealing' = sealing \ {o} /\ segments' = segments \cup {f}
    /\ UNCHANGED <<buffer, taken>>
    /\ data'[f] = data[o] /\ LiveIn(f)' = LiveIn(o)

MergeMoves(f, a, b) ==
    /\ Published(f)
    /\ a \in segments /\ b \in segments
    /\ segments' = (segments \ {a, b}) \cup {f} /\ UNCHANGED sealing
    /\ UNCHANGED <<buffer, taken>>
    /\ LiveIn(f)' = LiveIn(a) \cup LiveIn(b)
    /\ data'[f] \subseteq data[a] \cup data[b]
    /\ \A x, y \in data'[f] : x[1] = y[1] => {x, y} \subseteq data[a] \/ {x, y} \subseteq data[b]

LEMMA SealPushMoves ==
  ASSUME IInv, SealPush
  PROVE  \E f : PushMoves(f)
  <1>1. PICK f : f = fresh
    OBVIOUS
  <1>2. /\ Allocate(taken, {}) /\ sealing' = sealing \cup {f} /\ taken' = {}
        /\ UNCHANGED <<buffer, segments>> /\ taken \in SUBSET Record
    BY <1>1 DEF SealPush, IInv, TypeOK, ListsTypeOK
  <1>3. ListsTypeOK /\ {} \in SUBSET Ids
    BY DEF IInv, TypeOK
  <1>4. { r \in taken : r[1] \notin {} } = taken
    OBVIOUS
  <1>5. /\ f \notin Listed /\ data'[f] = taken /\ tombs'[f] = {}
        /\ \A x \in Listed : data'[x] = data[x] /\ tombs'[x] = tombs[x]
        /\ \A x \in Listed : LiveIn(x)' = LiveIn(x)
        /\ LiveIn(f)' = { r \in taken : r[1] \notin {} }
    BY <1>1, <1>2, <1>3, AllocateLive
  <1> QED
    BY <1>1, <1>2, <1>4, <1>5 DEF PushMoves, Published

LEMMA BuildOneMoves ==
  ASSUME IInv, NEW t \in SealThreads, BuildOne(t)
  PROVE  \E f, o : BuildMoves(f, o)
  <1>1. PICK f, o : f = fresh /\ o = sealer[t].obj
    OBVIOUS
  <1>2. /\ o \in sealing /\ o \in Listed
        /\ Allocate(data[o], tombs[o]) /\ segments' = segments \cup {f} /\ sealing' = sealing \ {o}
        /\ UNCHANGED <<buffer, taken>>
    BY <1>1 DEF BuildOne, SealerIdle, SealerAt, IInv, ThreadInv, BuildsListed, Listed
  <1>3. ListsTypeOK
    BY DEF IInv, TypeOK
  <1>4. PICK records \in SUBSET Record, dead \in SUBSET Ids : records = data[o] /\ dead = tombs[o]
    BY <1>2, <1>3, ListedAllocated
  <1>5. Allocate(records, dead)
    BY <1>2, <1>4
  <1>6. /\ f \notin Listed /\ data'[f] = records /\ tombs'[f] = dead
        /\ \A x \in Listed : data'[x] = data[x] /\ tombs'[x] = tombs[x]
        /\ \A x \in Listed : LiveIn(x)' = LiveIn(x)
        /\ LiveIn(f)' = { r \in records : r[1] \notin dead }
    BY <1>1, <1>3, <1>5, AllocateLive
  <1>7. dead \subseteq IdsOf(records)
    BY <1>2, <1>4 DEF IInv, DataInv, TombstonesWithinData, Listed
  <1>8. LiveIn(f)' = LiveIn(o)
    BY <1>4, <1>6 DEF LiveIn
  <1>9. SealerAt(t, "build")
    BY DEF BuildOne
  <1> QED
    BY <1>1, <1>2, <1>4, <1>6, <1>7, <1>8, <1>9 DEF BuildMoves, Published

LEMMA MergeSwapMoves ==
  ASSUME IInv, NEW t \in MergeThreads, MergeSwap(t)
  PROVE  \E f, a, b : MergeMoves(f, a, b)
  <1> DEFINE m == merger[t]
             merged == Copied(m.a, m.aSnap) \cup Copied(m.b, m.bSnap)
  <1>1. PICK f : f = fresh
    OBVIOUS
  <1>2. m.pc = "swap" /\ m.a \in segments /\ m.b \in segments
    BY DEF MergeSwap, MergerAt, IInv, ThreadInv, VictimsListed, Merging
  <1>3. /\ Allocate(merged, Carried(m)) /\ segments' = (segments \ {m.a, m.b}) \cup {f}
        /\ UNCHANGED <<buffer, taken, sealing>>
    BY <1>1, <1>2 DEF MergeSwap, MergerIdle
  <1>4. ListsTypeOK
    BY DEF IInv, TypeOK
  <1>5. merged \in SUBSET Record /\ Carried(m) \in SUBSET Ids
    BY <1>2, <1>4, ListedAllocated DEF Copied, Carried, Listed
  <1>6. /\ { r \in merged : r[1] \notin Carried(m) } = LiveIn(m.a) \cup LiveIn(m.b)
        /\ Carried(m) \subseteq IdsOf(merged)
    BY <1>2, MergeLive DEF IInv, ThreadInv, DataInv
  <1>8. /\ merged \subseteq data[m.a] \cup data[m.b]
        /\ \A x, y \in merged : x[1] = y[1] => {x, y} \subseteq data[m.a] \/ {x, y} \subseteq data[m.b]
    <2>1. \A x \in Copied(m.a, m.aSnap), y \in Copied(m.b, m.bSnap) : x[1] # y[1]
      BY <1>2 DEF IInv, ThreadInv, SnapshotsSound
    <2> QED
      BY <2>1 DEF Copied
  <1> HIDE DEF m, merged
  <1>7. /\ f \notin Listed /\ data'[f] = merged /\ tombs'[f] = Carried(m)
        /\ \A x \in Listed : data'[x] = data[x] /\ tombs'[x] = tombs[x]
        /\ \A x \in Listed : LiveIn(x)' = LiveIn(x)
        /\ LiveIn(f)' = { r \in merged : r[1] \notin Carried(m) }
    BY <1>1, <1>3, <1>4, <1>5, AllocateLive
  <1> QED
    BY <1>1, <1>2, <1>3, <1>6, <1>7, <1>8 DEF MergeMoves, Published

(* Handing what is live in some listed objects, or in the writer's hands,  *)
(* to one new object keeps every live id in one place.                     *)
LEMMA MoveKeepsUnique ==
  ASSUME ListsTypeOK, LiveUnique, NEW f, f \notin Listed,
         NEW gone \in SUBSET Listed, Listed' = (Listed \ gone) \cup {f},
         \A o \in Listed : LiveIn(o)' = LiveIn(o),
         NEW given \in SUBSET WriterHeld, WriterHeld' = WriterHeld \ given, (buffer \cap taken)' = {},
         \A r \in LiveIn(f)' : r \in given \/ \E o \in gone : r \in LiveIn(o)
  PROVE  LiveUnique'
  <1>1. ASSUME NEW o \in Listed', NEW p \in Listed', NEW r \in LiveIn(o)', NEW q \in LiveIn(p)',
               r[1] = q[1]
        PROVE  o = p /\ r = q
    BY <1>1 DEF LiveUnique
  <1>2. ASSUME NEW o \in Listed', NEW r \in LiveIn(o)', NEW q \in WriterHeld'
        PROVE  r[1] # q[1]
    BY <1>2 DEF LiveUnique
  <1>3. ASSUME NEW r \in WriterHeld', NEW q \in WriterHeld', r[1] = q[1]
        PROVE  r = q
    BY <1>3 DEF LiveUnique
  <1> QED
    BY <1>1, <1>2, <1>3 DEF LiveUnique

(* Losing live records, wherever, keeps every live id in one place. *)
LEMMA LossKeepsUnique ==
  ASSUME LiveUnique, UNCHANGED Listed,
         \A o \in Listed : LiveIn(o)' \subseteq LiveIn(o),
         buffer' \subseteq buffer, taken' = taken
  PROVE  LiveUnique'
  BY DEF LiveUnique, WriterHeld

LEMMA DataStep ==
  ASSUME IInv, [Next]_vars
  PROVE  DataInv'
  <1> USE DEF DataInv, IInv, TypeOK
  <1>1. CASE UNCHANGED indexVars
    BY <1>1 DEF indexVars, LiveUnique, Listed, LiveIn, WriterHeld, TombstonesWithinData,
                ListsDisjoint
  <1>2. CASE ApplyInsert
    <2>1. UNCHANGED <<sealing, segments, data, tombs, taken>>
      BY <1>2 DEF ApplyInsert
    <2>2. \A o \in Listed : LiveIn(o)' = LiveIn(o)
      BY <2>1 DEF LiveIn
    <2>3. taken = {}
      BY <1>2 DEF ApplyInsert, WriterKnows
    <2>4. /\ \A r \in buffer : r[1] # wid
          /\ \A o \in Listed : \A r \in LiveIn(o) : r[1] # wid
      BY <1>2 DEF ApplyInsert, WriterKnows, LiveInList, IdsOf, Listed
    <2>5. \A r \in buffer' : r \in buffer \/ r = <<wid, inserted[wid] + 1>>
      BY <1>2 DEF ApplyInsert
    <2>6. LiveUnique'
      BY <2>1, <2>2, <2>3, <2>4, <2>5 DEF LiveUnique, Listed, WriterHeld
    <2> QED
      BY <2>1, <2>6 DEF TombstonesWithinData, ListsDisjoint
  <1>3. CASE DeleteFromBuffer
    <2>1. UNCHANGED <<sealing, segments, data, tombs, taken>> /\ buffer' \subseteq buffer
      BY <1>3 DEF DeleteFromBuffer
    <2>2. LiveUnique'
      BY <2>1, LossKeepsUnique DEF LiveIn, Listed
    <2> QED
      BY <2>1, <2>2 DEF TombstonesWithinData, ListsDisjoint
  <1>4. ASSUME UNCHANGED <<buffer, sealing, segments, data, taken>>,
               UNCHANGED tombs \/ \E list \in SUBSET Listed : Bury(list)
        PROVE  DataInv'
    <2>1. CASE UNCHANGED tombs
      BY <1>4, <2>1 DEF LiveUnique, Listed, LiveIn, WriterHeld, TombstonesWithinData, ListsDisjoint
    <2>2. ASSUME NEW list \in SUBSET Listed, Bury(list)
          PROVE  DataInv'
      <3>1. PICK b \in list :
               /\ wid \in IdsOf(data[b])
               /\ tombs'[b] = tombs[b] \cup {wid}
               /\ \A o \in Listed : o # b => tombs'[o] = tombs[o]
               /\ LiveIn(b)' = { r \in LiveIn(b) : r[1] # wid }
               /\ \A o \in Listed : o # b => LiveIn(o)' = LiveIn(o)
        BY <1>4, <2>2, BuryLive
      <3>2. LiveUnique'
        BY <1>4, <3>1, LossKeepsUnique DEF Listed
      <3>3. TombstonesWithinData'
        BY <1>4, <3>1 DEF TombstonesWithinData, Listed
      <3> QED
        BY <1>4, <3>2, <3>3 DEF ListsDisjoint
    <2> QED
      BY <1>4, <2>1, <2>2
  <1>5. CASE DeleteFromSealing
    BY <1>4, <1>5 DEF DeleteFromSealing, Listed
  <1>6. CASE DeleteFromSegments
    BY <1>4, <1>6 DEF DeleteFromSegments, Listed
  <1>7. CASE SealSwap
    <2>1. UNCHANGED <<sealing, segments, data, tombs>> /\ taken' = buffer /\ buffer' = {}
      BY <1>7 DEF SealSwap
    <2>2. taken = {}
      BY <1>7 DEF SealSwap, WriterKnows
    <2> QED
      BY <2>1, <2>2 DEF LiveUnique, Listed, LiveIn, WriterHeld, TombstonesWithinData, ListsDisjoint
  <1>8. CASE SealPush
    <2>1. PICK f : PushMoves(f)
      BY <1>8, SealPushMoves
    <2>2. LiveUnique'
      <3>1. taken \in SUBSET WriterHeld /\ WriterHeld' = WriterHeld \ taken /\ (buffer \cap taken)' = {}
        BY <2>1 DEF WriterHeld, LiveUnique, PushMoves, Published
      <3>2. ListsTypeOK /\ LiveUnique
        OBVIOUS
      <3>3. Listed' = (Listed \ {}) \cup {f} /\ f \notin Listed
        BY <2>1 DEF PushMoves, Published, Listed
      <3>4. /\ {} \in SUBSET Listed
            /\ \A o \in Listed : LiveIn(o)' = LiveIn(o)
            /\ \A r \in LiveIn(f)' : r \in taken \/ \E o \in {} : r \in LiveIn(o)
        BY <2>1 DEF PushMoves, Published
      <3> QED
        BY ONLY <3>1, <3>2, <3>3, <3>4, MoveKeepsUnique
    <2>3. TombstonesWithinData'
      BY <2>1 DEF TombstonesWithinData, Listed, PushMoves, Published
    <2> QED
      BY <2>1, <2>2, <2>3 DEF ListsDisjoint, Listed, PushMoves, Published
  <1>9. ASSUME NEW t \in SealThreads, BuildOne(t)
        PROVE  DataInv'
    <2>1. PICK f, o : BuildMoves(f, o)
      BY <1>9, BuildOneMoves
    <2>2. Listed' = (Listed \ {o}) \cup {f} /\ o \in Listed /\ f \notin Listed
      BY <2>1 DEF Listed, ListsDisjoint, BuildMoves, Published
    <2>3. LiveUnique'
      <3>1. WriterHeld' = WriterHeld \ {} /\ (buffer \cap taken)' = {} /\ {} \in SUBSET WriterHeld
            /\ {o} \in SUBSET Listed
        BY <2>1, <2>2 DEF WriterHeld, LiveUnique, BuildMoves, Published
      <3>2. \A r \in LiveIn(f)' : \E x \in {o} : r \in LiveIn(x)
        BY <2>1 DEF BuildMoves, Published
      <3>3. ListsTypeOK /\ LiveUnique
        OBVIOUS
      <3>4. \A p \in Listed : LiveIn(p)' = LiveIn(p)
        BY <2>1 DEF BuildMoves, Published
      <3>5. \A r \in LiveIn(f)' : r \in {} \/ \E x \in {o} : r \in LiveIn(x)
        BY <3>2
      <3> QED
        BY ONLY <2>2, <3>1, <3>3, <3>4, <3>5, MoveKeepsUnique
    <2>4. TombstonesWithinData'
      BY <2>1, <2>2 DEF TombstonesWithinData, Listed, BuildMoves, Published
    <2> QED
      BY <2>1, <2>3, <2>4 DEF ListsDisjoint, Listed, BuildMoves, Published
  <1>10. ASSUME NEW t \in MergeThreads, MergeSwap(t)
         PROVE  DataInv'
    <2>1. PICK f, a, b : MergeMoves(f, a, b)
      BY <1>10, MergeSwapMoves
    <2>2. Listed' = (Listed \ {a, b}) \cup {f} /\ {a, b} \subseteq Listed /\ f \notin Listed
      BY <2>1 DEF Listed, ListsDisjoint, MergeMoves, Published
    <2>3. LiveUnique'
      <3>0. PICK olds : olds = {a, b}
        OBVIOUS
      <3>1. WriterHeld' = WriterHeld \ {} /\ (buffer \cap taken)' = {} /\ {} \in SUBSET WriterHeld
            /\ olds \in SUBSET Listed
        BY <2>1, <2>2, <3>0 DEF WriterHeld, LiveUnique, MergeMoves, Published
      <3>2. LiveIn(f)' = LiveIn(a) \cup LiveIn(b)
        BY <2>1 DEF MergeMoves
      <3>3. ListsTypeOK /\ LiveUnique
        OBVIOUS
      <3>4. \A o \in Listed : LiveIn(o)' = LiveIn(o)
        BY <2>1 DEF MergeMoves, Published
      <3>5. \A r \in LiveIn(f)' : r \in {} \/ \E x \in olds : r \in LiveIn(x)
        BY <3>0, <3>2
      <3>6. Listed' = (Listed \ olds) \cup {f} /\ f \notin Listed
        BY <2>2, <3>0
      <3> QED
        BY ONLY <3>1, <3>3, <3>4, <3>5, <3>6, MoveKeepsUnique
    <2>4. TombstonesWithinData'
      BY <2>1, <2>2 DEF TombstonesWithinData, Listed, MergeMoves, Published
    <2> QED
      BY <2>1, <2>3, <2>4 DEF ListsDisjoint, Listed, MergeMoves, Published
  <1> QED
    BY <1>1, <1>2, <1>3, <1>5, <1>6, <1>7, <1>8, <1>9, <1>10, IndexSteps

-----------------------------------------------------------------------------
(* What the writer knows: the background threads move live records towards *)
(* the segments only, the direction in which the writer looks for them.    *)
LEMMA WriterKnowsStep ==
  ASSUME IInv, [Next]_vars
  PROVE  WriterKnows'
  <1> USE DEF IInv
  <1>1. CASE Client
    BY <1>1 DEF Client, StartInsert, StartDelete, StartCheckpoint, Start, WriterKnows
  <1>2. CASE ValidateBuffer \/ ValidateSealing \/ ValidateSegments
    <2>1. UNCHANGED <<buffer, sealing, segments, data, tombs, inserted, taken>>
      BY <1>2 DEF ValidateBuffer, ValidateSealing, ValidateSegments, Check
    <2>2. \A id : /\ LiveInList(sealing, id)' = LiveInList(sealing, id)
                  /\ LiveInList(segments, id)' = LiveInList(segments, id)
      BY <2>1 DEF LiveInList, LiveIn
    <2>3. CASE ValidateBuffer
      BY <2>1, <2>2, <2>3 DEF ValidateBuffer, Check, GoTo, Return, WriterKnows, TypeOK, WriterTypeOK
    <2>4. CASE ValidateSealing
      BY <2>1, <2>2, <2>4 DEF ValidateSealing, Check, GoTo, Return, WriterKnows
    <2>5. CASE ValidateSegments
      BY <2>1, <2>2, <2>5 DEF ValidateSegments, Check, GoTo, Return, WriterKnows
    <2> QED
      BY <1>2, <2>3, <2>4, <2>5
  <1>3. CASE ApplyInsert
    BY <1>3 DEF ApplyInsert, GoTo, Return, WriterKnows
  <1>4. CASE ContainsBuffer \/ ContainsSealing \/ ContainsSegments
    BY <1>4 DEF ContainsBuffer, ContainsSealing, ContainsSegments, Found, GoTo, Return, WriterKnows
  <1>5. CASE DeleteFromBuffer \/ DeleteFromSealing \/ DeleteFromSegments
    BY <1>5 DEF DeleteFromBuffer, DeleteFromSealing, DeleteFromSegments, GoTo, Return, WriterKnows
  <1>6. CASE SealSwap \/ SealPush \/ SealSpawn \/ Stall \/ CheckpointWrite
    BY <1>6 DEF SealSwap, SealPush, SealSpawn, Stall, CheckpointWrite, GoTo, Return, AfterSeal,
                WriterKnows
  <1>7. CASE WaitSeal \/ WaitQueue \/ WaitMerge \/ CheckSeal \/ CheckQueue \/ CheckMerge
    BY <1>7 DEF WaitSeal, WaitQueue, WaitMerge, CheckSeal, CheckQueue, CheckMerge, Poll, GoTo,
                WriterKnows
  <1>8. ASSUME UNCHANGED <<wpc, wop, wid, buffer, inserted, taken>>,
               \A id : LiveInList(sealing, id)' => LiveInList(sealing, id),
               \A id : LiveInList(segments, id)' =>
                          LiveInList(segments, id) \/ LiveInList(sealing, id)
        PROVE  WriterKnows'
    BY <1>8 DEF WriterKnows
  <1>9. ASSUME UNCHANGED <<wpc, wop, wid, buffer, inserted, taken>>,
               UNCHANGED <<sealing, segments, data, tombs>>
        PROVE  WriterKnows'
    BY <1>8, <1>9 DEF LiveInList, LiveIn
  <1>10. ASSUME NEW t \in SealThreads, SealerStep(t)
         PROVE  WriterKnows'
    <2>1. UNCHANGED <<wpc, wop, wid, buffer, inserted, taken>>
      BY <1>10 DEF SealerStep, TakeNext, BuildOne, MergeNeeded, MergeSpawn, SealRelease,
                   SealRecheck, SealReclaim, SealerIdle
    <2>2. CASE BuildOne(t)
      <3>1. PICK f, o : BuildMoves(f, o)
        BY <2>2, BuildOneMoves
      <3>2. \A id : LiveInList(sealing, id)' => LiveInList(sealing, id)
        BY <3>1 DEF BuildMoves, Published, LiveInList, Listed
      <3>3. \A id : LiveInList(segments, id)' => LiveInList(segments, id) \/ LiveInList(sealing, id)
        BY <3>1 DEF BuildMoves, Published, LiveInList, Listed
      <3> QED
        BY <1>8, <2>1, <3>2, <3>3
    <2>3. CASE ~BuildOne(t)
      BY <1>9, <1>10, <2>1, <2>3 DEF SealerStep, TakeNext, MergeNeeded, MergeSpawn, SealRelease,
                   SealRecheck, SealReclaim
    <2> QED
      BY <2>2, <2>3
  <1>11. ASSUME NEW t \in MergeThreads, MergerStep(t)
         PROVE  WriterKnows'
    <2>1. UNCHANGED <<wpc, wop, wid, buffer, inserted, taken>>
      BY <1>11 DEF MergerStep, MergeWhile, PickVictims, SnapshotA, SnapshotB, MergeSwap,
                   MergeRelease, MergeRecheck, MergeReclaim, MergerIdle
    <2>2. CASE MergeSwap(t)
      <3>1. PICK f, a, b : MergeMoves(f, a, b)
        BY <2>2, MergeSwapMoves
      <3>2. \A id : LiveInList(sealing, id)' => LiveInList(sealing, id)
        BY <3>1 DEF MergeMoves, Published, LiveInList, Listed
      <3>3. \A id : LiveInList(segments, id)' => LiveInList(segments, id) \/ LiveInList(sealing, id)
        BY <3>1 DEF MergeMoves, Published, LiveInList, Listed, IdsOf
      <3> QED
        BY <1>8, <2>1, <3>2, <3>3
    <2>3. CASE ~MergeSwap(t)
      BY <1>9, <1>11, <2>1, <2>3 DEF MergerStep, MergeWhile, PickVictims, SnapshotA, SnapshotB,
                   MergeRelease, MergeRecheck, MergeReclaim, MergerIdle
    <2> QED
      BY <2>2, <2>3
  <1>12. CASE UNCHANGED vars
    BY <1>9, <1>12
  <1> QED
    BY <1>1, <1>2, <1>3, <1>4, <1>5, <1>6, <1>7, <1>10, <1>11, <1>12 DEF Next, WriterStep

-----------------------------------------------------------------------------
(* The threads. *)

LEMMA FlagsStep ==
  ASSUME SealersTypeOK, MergersTypeOK, FlagsOwned, [Next]_vars
  PROVE  FlagsOwned'
  <1> USE DEF FlagsOwned, SingleWorkers, SealerActive, MergerActive
  <1>1. /\ \A t, u \in SealThreads : SealerActive(t)' /\ SealerActive(u)' => t = u
        /\ \A t \in SealThreads : SealerActive(t)' => sealFlag'
    <2>1. CASE UNCHANGED sealerVars
      BY <2>1
    <2>2. CASE SealSpawn
      BY <2>2 DEF SealSpawn, SealersTypeOK
    <2>3. ASSUME NEW t \in SealThreads, SealerStep(t)
          PROVE  /\ \A v, u \in SealThreads : SealerActive(v)' /\ SealerActive(u)' => v = u
                 /\ \A u \in SealThreads : SealerActive(u)' => sealFlag'
      BY <2>3 DEF SealerStep, TakeNext, BuildOne, MergeNeeded, MergeSpawn, SealRelease,
                  SealRecheck, SealReclaim, SealerGoTo, SealerAt, SealersTypeOK
    <2> QED
      BY <2>1, <2>2, <2>3, SealerSteps
  <1>2. /\ \A t, u \in MergeThreads : MergerActive(t)' /\ MergerActive(u)' => t = u
        /\ \A t \in MergeThreads : MergerActive(t)' => mergeFlag'
    <2>1. CASE UNCHANGED mergerVars
      BY <2>1
    <2>2. ASSUME NEW t \in SealThreads, MergeSpawn(t)
          PROVE  /\ \A v, u \in MergeThreads : MergerActive(v)' /\ MergerActive(u)' => v = u
                 /\ \A u \in MergeThreads : MergerActive(u)' => mergeFlag'
      BY <2>2 DEF MergeSpawn, MergersTypeOK
    <2>3. ASSUME NEW t \in MergeThreads, MergerStep(t)
          PROVE  /\ \A v, u \in MergeThreads : MergerActive(v)' /\ MergerActive(u)' => v = u
                 /\ \A u \in MergeThreads : MergerActive(u)' => mergeFlag'
      <3> USE DEF MergersTypeOK, MergerGoTo, MergerAt
      <3>1. CASE MergeWhile(t)
        BY <3>1 DEF MergeWhile
      <3>2. CASE PickVictims(t)
        <4>1. merger[t].pc = "pick" /\ UNCHANGED mergeFlag
          BY <3>2 DEF PickVictims
        <4>2. PICK m : merger' = [merger EXCEPT ![t] = m]
          BY <3>2 DEF PickVictims
        <4> QED
          BY <4>1, <4>2
      <3>3. CASE SnapshotA(t)
        BY <3>3 DEF SnapshotA
      <3>4. CASE SnapshotB(t)
        BY <3>4 DEF SnapshotB
      <3>5. CASE MergeSwap(t)
        BY <3>5 DEF MergeSwap
      <3>6. CASE MergeRelease(t)
        BY <3>6 DEF MergeRelease
      <3>7. CASE MergeRecheck(t)
        BY <3>7 DEF MergeRecheck
      <3>8. CASE MergeReclaim(t)
        BY <3>8 DEF MergeReclaim
      <3> QED
        BY <2>3, <3>1, <3>2, <3>3, <3>4, <3>5, <3>6, <3>7, <3>8 DEF MergerStep
    <2> QED
      BY <2>1, <2>2, <2>3, MergerSteps
  <1> QED
    BY <1>1, <1>2

(* A listed object keeps its records, and its tombstones only grow. *)
LEMMA Persist ==
  ASSUME IInv, [Next]_vars
  PROVE  \A o \in Listed : data'[o] = data[o] /\ tombs[o] \subseteq tombs'[o]
  <1>1. ListsTypeOK
    BY DEF IInv, TypeOK
  <1>2. CASE UNCHANGED indexVars \/ ApplyInsert \/ DeleteFromBuffer \/ SealSwap
    BY <1>2 DEF indexVars, ApplyInsert, DeleteFromBuffer, SealSwap
  <1>3. ASSUME NEW list \in SUBSET Listed, Bury(list), UNCHANGED data
        PROVE  \A o \in Listed : data'[o] = data[o] /\ tombs[o] \subseteq tombs'[o]
    BY <1>1, <1>3, BuryLive
  <1>4. CASE DeleteFromSealing
    BY <1>3, <1>4 DEF DeleteFromSealing, Listed
  <1>5. CASE DeleteFromSegments
    BY <1>3, <1>5 DEF DeleteFromSegments, Listed
  <1>6. CASE SealPush
    BY <1>6, SealPushMoves DEF PushMoves, Published
  <1>7. CASE \E t \in SealThreads : BuildOne(t)
    BY <1>7, BuildOneMoves DEF BuildMoves, Published
  <1>8. CASE \E t \in MergeThreads : MergeSwap(t)
    BY <1>8, MergeSwapMoves DEF MergeMoves, Published
  <1> QED
    BY <1>2, <1>4, <1>5, <1>6, <1>7, <1>8, IndexSteps

(* Only the thread that builds an object takes it off the queue. *)
LEMMA BuildsListedStep ==
  ASSUME IInv, [Next]_vars
  PROVE  BuildsListed'
  <1>0. SealersTypeOK /\ FlagsOwned /\ BuildsListed
    BY DEF IInv, TypeOK, ThreadInv
  <1>1. CASE sealer' = sealer /\ sealing \subseteq sealing'
    BY <1>0, <1>1 DEF BuildsListed
  <1>3. CASE SealSpawn
    BY <1>0, <1>3 DEF SealSpawn, BuildsListed, SealersTypeOK
  <1>4. ASSUME NEW t \in SealThreads, SealerStep(t)
        PROVE  BuildsListed'
    <2>1. CASE TakeNext(t)
      BY <1>0, <2>1 DEF TakeNext, SealerGoTo, BuildsListed, SealersTypeOK
    <2>2. CASE BuildOne(t)
      <3>1. sealer[t].pc = "build" /\ sealer' = [sealer EXCEPT ![t] = [pc |-> "merge_len", obj |-> NoObj]]
        BY <2>2 DEF BuildOne, SealerAt
      <3>2. \A u \in SealThreads : sealer[u].pc = "build" => u = t
        BY <1>0, <3>1 DEF FlagsOwned, SingleWorkers, SealerActive
      <3> QED
        BY <1>0, <3>1, <3>2 DEF BuildsListed, SealersTypeOK
    <2>3. CASE MergeNeeded(t) \/ MergeSpawn(t) \/ SealRelease(t) \/ SealRecheck(t) \/ SealReclaim(t)
      <3>1. UNCHANGED sealing
        BY <2>3 DEF MergeNeeded, MergeSpawn, SealRelease, SealRecheck, SealReclaim
      <3>2. PICK pc : SealerGoTo(t, pc) /\ pc # "build"
        BY <2>3 DEF MergeNeeded, MergeSpawn, SealRelease, SealRecheck, SealReclaim
      <3> QED
        BY <1>0, <3>1, <3>2 DEF SealerGoTo, BuildsListed, SealersTypeOK
    <2> QED
      BY <1>4, <2>1, <2>2, <2>3 DEF SealerStep
  <1>5. CASE UNCHANGED sealerVars
    <2>1. CASE UNCHANGED indexVars
      BY <1>1, <1>5, <2>1 DEF indexVars
    <2>2. CASE ApplyInsert \/ DeleteFromBuffer \/ DeleteFromSealing \/ DeleteFromSegments \/ SealSwap
      BY <1>1, <1>5, <2>2 DEF ApplyInsert, DeleteFromBuffer, DeleteFromSealing, DeleteFromSegments,
                              SealSwap
    <2>3. CASE SealPush
      BY <1>1, <1>5, <2>3 DEF SealPush
    <2>4. CASE \E t \in SealThreads : BuildOne(t)
      BY <1>4, <2>4 DEF SealerStep
    <2>5. CASE \E t \in MergeThreads : MergeSwap(t)
      BY <1>1, <1>5, <2>5 DEF MergeSwap, MergerIdle
    <2> QED
      BY <2>1, <2>2, <2>3, <2>4, <2>5, IndexSteps
  <1> QED
    BY <1>3, <1>4, <1>5, SealerSteps

(* A step that is not a merge thread's keeps the segments it finds. *)
LEMMA SegmentsKept ==
  ASSUME IInv, [Next]_vars, ~\E t \in MergeThreads : MergeSwap(t)
  PROVE  segments \subseteq segments'
  <1>1. CASE UNCHANGED indexVars \/ ApplyInsert \/ DeleteFromBuffer \/ SealSwap
    BY <1>1 DEF indexVars, ApplyInsert, DeleteFromBuffer, SealSwap
  <1>2. CASE DeleteFromSealing \/ DeleteFromSegments \/ SealPush
    BY <1>2 DEF DeleteFromSealing, DeleteFromSegments, SealPush
  <1>3. CASE \E t \in SealThreads : BuildOne(t)
    BY <1>3 DEF BuildOne
  <1> QED
    BY <1>1, <1>2, <1>3, IndexSteps

(* Only the thread that merges two segments takes them off the list. *)
LEMMA VictimsListedStep ==
  ASSUME IInv, [Next]_vars
  PROVE  VictimsListed'
  <1>0. ListsTypeOK /\ MergersTypeOK /\ FlagsOwned /\ VictimsListed
    BY DEF IInv, TypeOK, ThreadInv
  <1> USE DEF VictimsListed, Merging
  <1>1. ASSUME NEW t \in MergeThreads, MergeSwap(t)
        PROVE  VictimsListed'
    <2>1. merger[t].pc = "swap" /\ merger' = [merger EXCEPT ![t] = [IdleMerger EXCEPT !.pc = "while"]]
      BY <1>1 DEF MergeSwap, MergerAt
    <2>2. \A u \in MergeThreads : Merging(u) => u = t
      BY <1>0, <2>1 DEF FlagsOwned, SingleWorkers, MergerActive
    <2> QED
      BY <1>0, <2>1, <2>2 DEF MergersTypeOK, IdleMerger
  <1>2. ASSUME segments \subseteq segments', UNCHANGED mergerVars
        PROVE  VictimsListed'
    BY <1>0, <1>2
  <1>3. ASSUME segments \subseteq segments', NEW t \in SealThreads, MergeSpawn(t)
        PROVE  VictimsListed'
    <2>1. CASE UNCHANGED merger
      BY <1>0, <1>3, <2>1
    <2>2. CASE \E m \in MergeThreads : merger' = [merger EXCEPT ![m].pc = "while"]
      BY <1>0, <1>3, <2>2 DEF MergersTypeOK
    <2> QED
      BY <1>3, <2>1, <2>2 DEF MergeSpawn
  <1>4. ASSUME segments \subseteq segments', NEW t \in MergeThreads, MergerStep(t), ~MergeSwap(t)
        PROVE  VictimsListed'
    <2>1. CASE PickVictims(t)
      <3>1. CASE Cardinality(segments) < 2
        BY <1>0, <1>4, <2>1, <3>1 DEF PickVictims, MergerGoTo, MergersTypeOK
      <3>2. CASE ~(Cardinality(segments) < 2)
        <4>1. PICK a \in segments, b \in segments :
                  /\ IsSmallest(b, segments \ {a})
                  /\ merger' = [merger EXCEPT ![t] =
                         [pc |-> "snap_a", a |-> a, b |-> b, aSnap |-> {}, bSnap |-> {}]]
          BY <2>1, <3>2 DEF PickVictims
        <4>2. a # b
          BY <4>1 DEF IsSmallest
        <4> QED
          BY <1>0, <1>4, <4>1, <4>2 DEF MergersTypeOK
      <3> QED
        BY <3>1, <3>2
    <2>2. CASE SnapshotA(t) \/ SnapshotB(t)
      BY <1>0, <1>4, <2>2 DEF SnapshotA, SnapshotB, MergerAt, MergersTypeOK
    <2>3. CASE MergeWhile(t) \/ MergeRelease(t) \/ MergeRecheck(t) \/ MergeReclaim(t)
      <3>1. PICK pc : MergerGoTo(t, pc) /\ (pc = "pick" \/ pc \notin {"snap_a", "snap_b", "swap"})
        BY <2>3 DEF MergeWhile, MergeRelease, MergeRecheck, MergeReclaim
      <3> QED
        BY <1>0, <1>4, <3>1 DEF MergerGoTo, MergersTypeOK
    <2> QED
      BY <1>4, <2>1, <2>2, <2>3 DEF MergerStep
  <1>5. ASSUME NEW t \in MergeThreads, MergerStep(t), ~MergeSwap(t)
        PROVE  segments \subseteq segments'
    BY <1>5 DEF MergerStep, MergeWhile, PickVictims, SnapshotA, SnapshotB, MergeRelease,
                MergeRecheck, MergeReclaim
  <1>6. CASE UNCHANGED mergerVars
    BY <1>1, <1>2, <1>6, SegmentsKept
  <1>7. CASE \E t \in SealThreads : MergeSpawn(t)
    BY <1>3, <1>7 DEF MergeSpawn
  <1> QED
    BY <1>1, <1>4, <1>5, <1>6, <1>7, MergerSteps

(* A snapshot goes stale in one direction only: deletes shrink what is     *)
(* live in the other victim and never what was copied.                     *)
LEMMA SnapshotsSoundStep ==
  ASSUME IInv, [Next]_vars
  PROVE  SnapshotsSound'
  <1> DEFINE Apart(x, xSnap, y, ySnap) ==
                 \A r \in Copied(x, xSnap), q \in Copied(y, ySnap) : r[1] # q[1]
             Sound(t) ==
                 LET m == merger[t] IN
                 /\ m.pc \in {"snap_b", "swap"} => SnapshotSound(m.a, m.aSnap, m.b)
                 /\ m.pc = "swap" => /\ SnapshotSound(m.b, m.bSnap, m.a)
                                     /\ Apart(m.a, m.aSnap, m.b, m.bSnap)
  <1>0. MergersTypeOK /\ VictimsListed /\ LiveUnique
    BY DEF IInv, TypeOK, ThreadInv, DataInv
  <1>1. ASSUME NEW a \in Listed, NEW b \in Listed, NEW snap, SnapshotSound(a, snap, b)
        PROVE  SnapshotSound(a, snap, b)'
    BY <1>1, Persist DEF SnapshotSound, Copied, LiveIn
  <1>2. ASSUME NEW a \in Listed, NEW b \in Listed, NEW s1, NEW s2, Apart(a, s1, b, s2)
        PROVE  Apart(a, s1, b, s2)'
    BY <1>2, Persist DEF Copied
  <1>3. ASSUME NEW t \in MergeThreads
        PROVE  Sound(t) /\ (Merging(t) => merger[t].a \in Listed /\ merger[t].b \in Listed)
    <2>1. Sound(t)
      BY DEF IInv, ThreadInv, SnapshotsSound
    <2> QED
      BY <1>0, <2>1 DEF VictimsListed, Listed
  <1>4. ASSUME NEW t \in MergeThreads, merger'[t] = merger[t]
        PROVE  Sound(t)'
    <2>1. PICK m : m = merger[t]
      OBVIOUS
    <2>2. CASE m.pc \notin {"snap_b", "swap"}
      BY <1>4, <2>1, <2>2
    <2>3. CASE m.pc \in {"snap_b", "swap"}
      <3>1. m.a \in Listed /\ m.b \in Listed /\ SnapshotSound(m.a, m.aSnap, m.b)
        BY <1>3, <2>1, <2>3 DEF Merging
      <3>2. SnapshotSound(m.a, m.aSnap, m.b)'
        BY <1>1, <3>1
      <3>3. m.pc = "swap" => SnapshotSound(m.b, m.bSnap, m.a)' /\ Apart(m.a, m.aSnap, m.b, m.bSnap)'
        <4>1. m.pc = "swap" => SnapshotSound(m.b, m.bSnap, m.a) /\ Apart(m.a, m.aSnap, m.b, m.bSnap)
          BY <1>3, <2>1
        <4> HIDE DEF Apart
        <4> QED
          BY <1>1, <1>2, <3>1, <4>1
      <3> QED
        BY <1>4, <2>1, <3>2, <3>3
    <2> QED
      BY <2>2, <2>3
  <1>5. ASSUME NEW t \in MergeThreads, merger'[t].pc \notin {"snap_b", "swap"}
        PROVE  Sound(t)'
    BY <1>5
  <1>6. ASSUME NEW t \in MergeThreads, SnapshotA(t)
        PROVE  Sound(t)'
    <2>1. PICK a, b : a = merger[t].a /\ b = merger[t].b
      OBVIOUS
    <2>2. a \in Listed /\ b \in Listed /\ a # b
      BY <1>0, <1>6, <2>1 DEF SnapshotA, MergerAt, VictimsListed, Merging, Listed
    <2>3. /\ merger'[t].pc = "snap_b" /\ merger'[t].a = a /\ merger'[t].b = b
          /\ merger'[t].aSnap = tombs[a] /\ UNCHANGED <<data, tombs>>
      BY <1>0, <1>6, <2>1 DEF SnapshotA, MergersTypeOK
    <2>4. Copied(a, tombs[a]) = LiveIn(a)
      BY DEF Copied, LiveIn
    <2>5. SnapshotSound(a, tombs[a], b)
      BY <1>0, <2>2, <2>4 DEF SnapshotSound, LiveUnique
    <2>6. PICK snap : snap = tombs[a]
      OBVIOUS
    <2>7. SnapshotSound(a, snap, b)'
      BY <1>1, <2>2, <2>5, <2>6
    <2> QED
      BY <2>3, <2>6, <2>7
  <1>7. ASSUME NEW t \in MergeThreads, SnapshotB(t)
        PROVE  Sound(t)'
    <2>1. PICK a, b, aSnap, bSnap :
             /\ a = merger[t].a /\ b = merger[t].b
             /\ aSnap = merger[t].aSnap /\ bSnap = tombs[merger[t].b]
      OBVIOUS
    <2>2. a \in Listed /\ b \in Listed /\ a # b
      BY <1>0, <1>7, <2>1 DEF SnapshotB, MergerAt, VictimsListed, Merging, Listed
    <2>3. /\ merger'[t].pc = "swap" /\ merger'[t].a = a /\ merger'[t].b = b
          /\ merger'[t].aSnap = aSnap /\ merger'[t].bSnap = bSnap
      BY <1>0, <1>7, <2>1 DEF SnapshotB, MergersTypeOK
    <2>4. SnapshotSound(a, aSnap, b)
      BY <1>3, <1>7, <2>1 DEF SnapshotB, MergerAt
    <2>5. Copied(b, bSnap) = LiveIn(b)
      BY <2>1 DEF Copied, LiveIn
    <2>6. SnapshotSound(b, bSnap, a)
      BY <1>0, <2>1, <2>2, <2>5 DEF SnapshotSound, LiveUnique
    <2>7. Apart(a, aSnap, b, bSnap)
      BY <2>4, <2>5 DEF SnapshotSound
    <2>8. SnapshotSound(a, aSnap, b)' /\ SnapshotSound(b, bSnap, a)'
      BY <1>1, <2>2, <2>4, <2>6
    <2>9. Apart(a, aSnap, b, bSnap)'
      BY <1>2, <2>2, <2>7
    <2> QED
      BY <2>3, <2>8, <2>9
  <1>8. ASSUME NEW u \in MergeThreads, MergerStep(u), NEW t \in MergeThreads
        PROVE  Sound(t)'
    <2> HIDE DEF Sound
    <2>1. CASE t # u
      <3>1. merger'[t] = merger[t]
        BY <1>0, <1>8, <2>1 DEF MergerStep, MergeWhile, PickVictims, SnapshotA, SnapshotB, MergeSwap,
                            MergeRelease, MergeRecheck, MergeReclaim, MergerGoTo, MergersTypeOK
      <3> QED
        BY <1>4, <3>1
    <2>2. CASE t = u /\ ~SnapshotA(t) /\ ~SnapshotB(t)
      <3>1. CASE PickVictims(t)
        <4>1. CASE MergerGoTo(t, "while")
          BY <1>0, <1>5, <4>1 DEF MergerGoTo, MergersTypeOK
        <4>2. CASE ~MergerGoTo(t, "while")
          <5>1. PICK a, b : merger' = [merger EXCEPT ![t] =
                    [pc |-> "snap_a", a |-> a, b |-> b, aSnap |-> {}, bSnap |-> {}]]
            BY <3>1, <4>2 DEF PickVictims
          <5> QED
            BY <1>0, <1>5, <5>1 DEF MergersTypeOK
        <4> QED
          BY <4>1, <4>2
      <3>2. CASE MergeSwap(t)
        BY <1>0, <1>5, <3>2 DEF MergeSwap, IdleMerger, MergersTypeOK
      <3>3. CASE MergeWhile(t) \/ MergeRelease(t) \/ MergeRecheck(t) \/ MergeReclaim(t)
        <4>1. PICK pc : MergerGoTo(t, pc) /\ pc \notin {"snap_b", "swap"}
          BY <3>3 DEF MergeWhile, MergeRelease, MergeRecheck, MergeReclaim
        <4> QED
          BY <1>0, <1>5, <4>1 DEF MergerGoTo, MergersTypeOK
      <3> QED
        BY <1>8, <2>2, <3>1, <3>2, <3>3 DEF MergerStep
    <2> QED
      BY <1>6, <1>7, <2>1, <2>2
  <1>9. ASSUME NEW u \in SealThreads, MergeSpawn(u), NEW t \in MergeThreads
        PROVE  Sound(t)'
    <2>1. merger'[t] = merger[t] \/ merger'[t].pc = "while"
      BY <1>0, <1>9 DEF MergeSpawn, MergersTypeOK
    <2> HIDE DEF Sound
    <2> QED
      BY <1>4, <1>5, <2>1
  <1>10. ASSUME UNCHANGED mergerVars, NEW t \in MergeThreads
         PROVE  Sound(t)'
    BY <1>4, <1>10
  <1>11. \A t \in MergeThreads : Sound(t)'
    <2> HIDE DEF Sound
    <2> QED
      BY <1>8, <1>9, <1>10, MergerSteps
  <1> QED
    BY <1>11 DEF SnapshotsSound

-----------------------------------------------------------------------------
(* The theorems. *)

LEMMA StepInv == IInv /\ [Next]_vars => IInv'
  <1> SUFFICES ASSUME IInv, [Next]_vars PROVE IInv'
    OBVIOUS
  <1>1. /\ ListsTypeOK /\ WriterTypeOK /\ SealersTypeOK /\ MergersTypeOK /\ WriterKnows
        /\ FlagsOwned /\ BuildsListed /\ VictimsListed
    BY DEF IInv, TypeOK, ThreadInv
  <1>2. TypeOK'
    BY <1>1, ListsTypeStep, WriterTypeStep, SealersTypeStep, MergersTypeStep DEF TypeOK
  <1>3. FlagsOwned'
    BY <1>1, FlagsStep
  <1>4. ThreadInv'
    BY <1>3, BuildsListedStep, VictimsListedStep, SnapshotsSoundStep DEF ThreadInv
  <1> QED
    BY <1>2, <1>4, DataStep, WriterKnowsStep DEF IInv

(* IInv is inductive: every reachable state of the index satisfies it. *)
THEOREM Invariant == Spec => []IInv
  BY InitInv, StepInv, PTL DEF Spec

(* The index's state has its type whatever the bounds are. *)
THEOREM TypeCorrect == Spec => []TypeOK
  <1>1. IInv => TypeOK
    BY DEF IInv
  <1> QED
    BY <1>1, Invariant, PTL

(* At most one live copy of an id exists, however sealing, merging and     *)
(* deletes interleave.                                                     *)
THEOREM OneLive == Spec => []AtMostOneLive
  <1>1. IInv => AtMostOneLive
    <2> SUFFICES ASSUME IInv PROVE AtMostOneLive
      OBVIOUS
    <2>1. LiveUnique
      BY DEF IInv, DataInv
    <2>2. \A r \in Content : r \in WriterHeld \/ \E o \in Listed : r \in LiveIn(o)
      BY DEF Content, WriterHeld, Listed
    <2>3. \A r, q \in Content : r[1] = q[1] => r = q
      BY <2>1, <2>2 DEF LiveUnique
    <2> QED
      BY <2>1, <2>3 DEF AtMostOneLive, LiveUnique, Listed
  <1> QED
    BY <1>1, Invariant, PTL

(* The unsigned subtraction of len_shared and of the merge ranking never   *)
(* underflows.                                                             *)
THEOREM TombstonesCounted == Spec => []TombstonesWithinData
  <1>1. IInv => TombstonesWithinData
    BY DEF IInv, DataInv
  <1> QED
    BY <1>1, Invariant, PTL

(* The expect("a merge insert cannot fail") of the merge thread holds.     *)
THEOREM MergeInsertSucceeds == Spec => []MergeInsertCannotFail
  <1>1. IInv => MergeInsertCannotFail
    BY DEF IInv, ThreadInv, SnapshotsSound, MergeInsertCannotFail, IdsOf
  <1> QED
    BY <1>1, Invariant, PTL

(* At most one thread drains the sealing queue and at most one merges. *)
THEOREM OneWorkerEach == Spec => []SingleWorkers
  <1>1. IInv => SingleWorkers
    BY DEF IInv, ThreadInv, FlagsOwned
  <1> QED
    BY <1>1, Invariant, PTL

-----------------------------------------------------------------------------
(* The waiting part of checkpoint. *)

AfterSwap == {"seal_push", "seal_spawn", "stall", "wait_seal", "wait_queue", "wait_merge",
              "check_seal", "check_queue", "check_merge", "ckpt_write"}

(* The writer being the only one that inserts, what it saw empty stays so. *)
CheckpointKnows ==
    /\ wpc \in AfterSwap => buffer = {}
    /\ wpc \in {"check_merge", "ckpt_write"} => sealing = {}

LEMMA CheckpointStep == IInv /\ CheckpointKnows /\ [Next]_vars => CheckpointKnows'
  <1> SUFFICES ASSUME IInv, CheckpointKnows, [Next]_vars PROVE CheckpointKnows'
    OBVIOUS
  <1> USE DEF CheckpointKnows, AfterSwap, GoTo, Return
  <1>1. CASE Client
    BY <1>1 DEF Client, StartInsert, StartDelete, StartCheckpoint, Start
  <1>2. CASE ValidateBuffer \/ ValidateSealing \/ ValidateSegments
    BY <1>2 DEF ValidateBuffer, ValidateSealing, ValidateSegments, Check
  <1>3. CASE ApplyInsert
    BY <1>3 DEF ApplyInsert
  <1>4. CASE ContainsBuffer \/ ContainsSealing \/ ContainsSegments
    BY <1>4 DEF ContainsBuffer, ContainsSealing, ContainsSegments, Found
  <1>5. CASE DeleteFromBuffer \/ DeleteFromSealing \/ DeleteFromSegments
    BY <1>5 DEF DeleteFromBuffer, DeleteFromSealing, DeleteFromSegments
  <1>6. CASE SealSwap \/ SealPush \/ SealSpawn \/ Stall \/ CheckpointWrite
    BY <1>6 DEF SealSwap, SealPush, SealSpawn, Stall, CheckpointWrite, AfterSeal
  <1>7. CASE WaitSeal \/ WaitQueue \/ WaitMerge \/ CheckSeal \/ CheckQueue \/ CheckMerge
    BY <1>7 DEF WaitSeal, WaitQueue, WaitMerge, CheckSeal, CheckQueue, CheckMerge, Poll
  <1>8. ASSUME UNCHANGED <<wpc, buffer>>, sealing' \subseteq sealing
        PROVE  CheckpointKnows'
    BY <1>8
  <1>9. ASSUME NEW t \in SealThreads, SealerStep(t)
        PROVE  UNCHANGED <<wpc, buffer>> /\ sealing' \subseteq sealing
    BY <1>9 DEF SealerStep, TakeNext, BuildOne, MergeNeeded, MergeSpawn, SealRelease,
                SealRecheck, SealReclaim, SealerIdle
  <1>10. ASSUME NEW t \in MergeThreads, MergerStep(t)
         PROVE  UNCHANGED <<wpc, buffer, sealing>>
    BY <1>10 DEF MergerStep, MergeWhile, PickVictims, SnapshotA, SnapshotB, MergeSwap,
                 MergeRelease, MergeRecheck, MergeReclaim, MergerIdle
  <1>11. CASE UNCHANGED vars
    BY <1>11
  <1> QED
    BY <1>1, <1>2, <1>3, <1>4, <1>5, <1>6, <1>7, <1>8, <1>9, <1>10, <1>11 DEF Next, WriterStep

(* When wait_for_background lets a checkpoint go on, every live record is  *)
(* in a segment, so the rotated log orphans none.                          *)
THEOREM CheckpointComplete == Spec => []CheckpointSeesAll
  <1>1. Init => CheckpointKnows
    BY DEF Init, CheckpointKnows, AfterSwap
  <1>2. IInv /\ CheckpointKnows => CheckpointSeesAll
    BY DEF IInv, WriterKnows, CheckpointKnows, AfterSwap, CheckpointSeesAll, Content
  <1> QED
    BY <1>1, <1>2, CheckpointStep, Invariant, PTL DEF Spec

-----------------------------------------------------------------------------
(* Backpressure. *)

Full == {"seal_spawn", "stall", "wait_seal", "wait_queue", "wait_merge", "check_seal",
         "check_queue", "check_merge", "ckpt_write"}

(* Only between a push and the end of the wait that follows it can the     *)
(* queue be one over the limit.                                            *)
QueueKnows ==
    /\ IsFiniteSet(sealing)
    /\ ~ValveOpens => /\ Cardinality(sealing) <= QueueLimit + 1
                      /\ wpc \notin Full => Cardinality(sealing) <= QueueLimit

LEMMA QueueStep == IInv /\ CheckpointKnows /\ QueueKnows /\ [Next]_vars => QueueKnows'
  <1> SUFFICES ASSUME IInv, CheckpointKnows, QueueKnows, [Next]_vars PROVE QueueKnows'
    OBVIOUS
  <1> USE DEF QueueKnows, Full, GoTo, Return
  <1>0. QueueLimit \in Nat /\ Cardinality(sealing) \in Nat
    BY BoundsAssumption, FS_CardinalityType
  <1>1. ASSUME UNCHANGED sealing, wpc \in Full => wpc' \in Full
        PROVE  QueueKnows'
    BY <1>1
  <1>2. CASE Client
    BY <1>2 DEF Client, StartInsert, StartDelete, StartCheckpoint, Start
  <1>3. CASE ValidateBuffer \/ ValidateSealing \/ ValidateSegments
    BY <1>3 DEF ValidateBuffer, ValidateSealing, ValidateSegments, Check
  <1>4. CASE ApplyInsert
    BY <1>4 DEF ApplyInsert
  <1>5. CASE ContainsBuffer \/ ContainsSealing \/ ContainsSegments
    BY <1>1, <1>5 DEF ContainsBuffer, ContainsSealing, ContainsSegments, Found
  <1>6. CASE DeleteFromBuffer \/ DeleteFromSealing \/ DeleteFromSegments
    BY <1>1, <1>6 DEF DeleteFromBuffer, DeleteFromSealing, DeleteFromSegments
  <1>7. CASE SealSwap \/ SealSpawn
    BY <1>1, <1>7 DEF SealSwap, SealSpawn, AfterSeal
  <1>8. CASE SealPush
    <2>1. wpc = "seal_push" /\ wpc' = "seal_spawn" /\ sealing' = sealing \cup {fresh}
      BY <1>8 DEF SealPush
    <2>2. IsFiniteSet(sealing') /\ Cardinality(sealing') <= Cardinality(sealing) + 1
      BY <1>0, <2>1, FS_AddElement
    <2>3. Cardinality(sealing') \in Nat
      BY <2>2, FS_CardinalityType
    <2> QED
      BY <1>0, <2>1, <2>2, <2>3
  <1>9. CASE Stall
    BY <1>9 DEF Stall
  <1>10. CASE CheckpointWrite
    <2>1. sealing = {} /\ UNCHANGED sealing
      BY <1>10 DEF CheckpointWrite, CheckpointKnows
    <2> QED
      BY <1>0, <2>1, FS_EmptySet
  <1>11. CASE WaitSeal \/ WaitQueue \/ WaitMerge \/ CheckSeal \/ CheckQueue \/ CheckMerge
    BY <1>1, <1>11 DEF WaitSeal, WaitQueue, WaitMerge, CheckSeal, CheckQueue, CheckMerge, Poll
  <1>12. ASSUME UNCHANGED wpc, sealing' \subseteq sealing
         PROVE  QueueKnows'
    <2>1. IsFiniteSet(sealing') /\ Cardinality(sealing') <= Cardinality(sealing)
      BY <1>12, FS_Subset
    <2>2. Cardinality(sealing') \in Nat
      BY <2>1, FS_CardinalityType
    <2> QED
      BY <1>0, <1>12, <2>1, <2>2
  <1>13. ASSUME NEW t \in SealThreads, SealerStep(t)
         PROVE  UNCHANGED wpc /\ sealing' \subseteq sealing
    BY <1>13 DEF SealerStep, TakeNext, BuildOne, MergeNeeded, MergeSpawn, SealRelease,
                 SealRecheck, SealReclaim, SealerIdle
  <1>14. ASSUME NEW t \in MergeThreads, MergerStep(t)
         PROVE  UNCHANGED <<wpc, sealing>>
    BY <1>14 DEF MergerStep, MergeWhile, PickVictims, SnapshotA, SnapshotB, MergeSwap,
                 MergeRelease, MergeRecheck, MergeReclaim, MergerIdle
  <1>15. CASE UNCHANGED vars
    BY <1>1, <1>15
  <1> QED
    BY <1>2, <1>3, <1>4, <1>5, <1>6, <1>7, <1>8, <1>9, <1>10, <1>11, <1>12, <1>13, <1>14, <1>15
       DEF Next, WriterStep

(* Unless the safety valve opens, at most QueueLimit + 1 full buffers wait *)
(* in memory, whatever the speed of the seal threads.                      *)
THEOREM QueueLimited == Spec => []QueueBounded
  <1>1. Init => CheckpointKnows /\ QueueKnows
    BY BoundsAssumption, FS_EmptySet DEF Init, CheckpointKnows, AfterSwap, QueueKnows, Full
  <1>2. QueueKnows => QueueBounded
    BY DEF QueueKnows, QueueBounded
  <1> QED
    BY <1>1, <1>2, CheckpointStep, QueueStep, Invariant, PTL DEF Spec

-----------------------------------------------------------------------------
(* For every value of the constants, the segmented index implements the    *)
(* abstract store: its inserts and deletes are the store's, all it does in *)
(* the background is invisible, and what it answers is what it did.        *)

USE DEF objectVars

LEMMA ContentMembers ==
  \A r : r \in Content <=> \/ r \in buffer \/ r \in taken
                           \/ \E o \in Listed : r \in LiveIn(o)
  BY DEF Content, Listed

LEMMA ContentTyped ==
  ASSUME IInv
  PROVE  /\ \A r \in Content : r[1] \in Ids /\ r[2] \in Vectors /\ r = <<r[1], r[2]>>
         /\ \A r, q \in Content : r[1] = q[1] => r = q
  <1>1. ListsTypeOK /\ LiveUnique
    BY DEF IInv, TypeOK, DataInv
  <1>2. \A o \in Listed : LiveIn(o) \subseteq Record
    BY <1>1, ListedAllocated DEF LiveIn
  <1>3. buffer \subseteq Record /\ taken \subseteq Record
    BY <1>1 DEF ListsTypeOK
  <1>4. Content \subseteq Record
    BY <1>2, <1>3, ContentMembers
  <1>5. \A r, q \in Content : r[1] = q[1] => r = q
    BY <1>1, ContentMembers DEF LiveUnique, WriterHeld
  <1> QED
    BY <1>4, <1>5 DEF Record

(* Removing the one live record of an id is the store's Delete. *)
LEMMA DeleteRefines ==
  ASSUME IInv, NEW id \in Ids, NEW r \in Content, r[1] = id,
         Content' = { q \in Content : q[1] # id }
  PROVE  AbstractStore!Delete(id)
  <1>1. r[2] \in Vectors /\ r = <<id, r[2]>>
    BY ContentTyped
  <1>2. Content' = Content \ {<<id, r[2]>>}
    BY <1>1, ContentTyped
  <1> QED
    BY <1>1, <1>2 DEF AbstractStore!Delete

LEMMA BuryRefines ==
  ASSUME IInv, WriterKnows, wid \in Ids, NEW list \in SUBSET Listed, Bury(list),
         UNCHANGED <<buffer, sealing, segments, data, taken>>
  PROVE  AbstractStore!Delete(wid) \/ UNCHANGED Content
  <1>1. ListsTypeOK /\ LiveUnique
    BY DEF IInv, TypeOK, DataInv
  <1>2. PICK b \in list :
           /\ LiveIn(b)' = { r \in LiveIn(b) : r[1] # wid }
           /\ \A o \in Listed : o # b => LiveIn(o)' = LiveIn(o)
    BY <1>1, BuryLive
  <1>3. CASE \E r \in LiveIn(b) : r[1] = wid
    <2>1. PICK r \in LiveIn(b) : r[1] = wid
      BY <1>3
    <2>2. r \in Content
      BY <2>1, ContentMembers
    <2>3. \A q : q \in Content' <=> q \in Content /\ q[1] # wid
      <3>1. /\ \A q \in WriterHeld : q[1] # wid
            /\ \A o \in Listed : o # b => \A q \in LiveIn(o) : q[1] # wid
        BY <1>1, <2>1 DEF LiveUnique
      <3>2. \A o \in Listed : LiveIn(o)' = { q \in LiveIn(o) : q[1] # wid }
        BY <1>2, <3>1
      <3>3. \A q : q \in Content' <=> \/ q \in buffer' \/ q \in taken'
                                      \/ \E o \in Listed' : q \in LiveIn(o)'
        BY DEF Content, Listed
      <3> QED
        BY <3>1, <3>2, <3>3, ContentMembers DEF WriterHeld, Listed
    <2>4. Content' = { q \in Content : q[1] # wid }
      BY <2>3
    <2> QED
      BY <2>1, <2>2, <2>4, DeleteRefines
  <1>4. CASE ~\E r \in LiveIn(b) : r[1] = wid
    <2>1. \A o \in Listed : LiveIn(o)' = LiveIn(o)
      BY <1>2, <1>4
    <2> QED
      BY <2>1 DEF Content, Listed
  <1> QED
    BY <1>3, <1>4

(* Moving what is live changes nothing a caller can see. *)
LEMMA MovesInvisible ==
  ASSUME IInv, NEW f, Published(f),
         NEW gone \in SUBSET Listed, Listed' = (Listed \ gone) \cup {f},
         NEW given \in SUBSET WriterHeld, WriterHeld' = WriterHeld \ given,
         \A r : r \in LiveIn(f)' <=> r \in given \/ \E o \in gone : r \in LiveIn(o)
  PROVE  UNCHANGED Content
  <1>1. \A r : r \in Content' <=> r \in WriterHeld' \/ \E o \in Listed' : r \in LiveIn(o)'
    BY DEF Content, Listed, WriterHeld
  <1>2. \A r : r \in Content <=> r \in WriterHeld \/ \E o \in Listed : r \in LiveIn(o)
    BY DEF Content, Listed, WriterHeld
  <1>3. \A o \in Listed : LiveIn(o)' = LiveIn(o)
    BY DEF Published
  <1>4. \A r : r \in Content' <=> r \in Content
    BY <1>1, <1>2, <1>3
  <1> QED
    BY <1>4 DEF Content

(* What a step does to the content, and which writer step does it. *)
Inserting ==
    /\ wid \in Ids /\ wid \notin IdsOf(Content)
    /\ inserted[wid] + 1 \in Vectors
    /\ inserted' = [inserted EXCEPT ![wid] = @ + 1]
    /\ Content' = Content \cup {<<wid, inserted[wid] + 1>>}
Removing ==
    /\ wpc \in {"del_buffer", "del_sealing", "del_segments"} /\ wpc' # wpc
    /\ wid \in Ids
    /\ AbstractStore!Delete(wid)
    /\ UNCHANGED inserted
Invisible == UNCHANGED <<Content, inserted>>

LEMMA ContentSteps ==
  ASSUME IInv, [Next]_vars
  PROVE  Inserting \/ Removing \/ Invisible
  <1>0. ListsTypeOK /\ LiveUnique /\ WriterKnows /\ ListsDisjoint
    BY DEF IInv, TypeOK, DataInv
  <1>1. CASE UNCHANGED indexVars
    BY <1>1 DEF indexVars, Content, LiveIn, Invisible
  <1>2. CASE ApplyInsert
    <2>1. UNCHANGED <<sealing, segments, data, tombs, taken>> /\ taken = {}
      BY <1>0, <1>2 DEF ApplyInsert, WriterKnows
    <2>2. wid \in Ids /\ inserted[wid] + 1 \in Vectors
      BY <1>0, <1>2, BoundsAssumption DEF ApplyInsert, WriterKnows, ListsTypeOK, Vectors
    <2>3. wid \notin IdsOf(Content)
      BY <1>0, <1>2, <2>1, ContentMembers
         DEF ApplyInsert, WriterKnows, LiveInList, IdsOf, Listed
    <2>4. CASE UNCHANGED <<buffer, inserted>>
      BY <2>1, <2>4 DEF Content, LiveIn, Invisible
    <2>5. CASE /\ buffer' = buffer \cup {<<wid, inserted[wid] + 1>>}
               /\ inserted' = [inserted EXCEPT ![wid] = @ + 1]
      <3>1. Content' = Content \cup {<<wid, inserted[wid] + 1>>}
        BY <2>1, <2>5 DEF Content, LiveIn
      <3> QED
        BY <2>2, <2>3, <2>5, <3>1 DEF Inserting
    <2> QED
      BY <1>2, <2>4, <2>5 DEF ApplyInsert
  <1>3. CASE DeleteFromBuffer
    <2>1. /\ UNCHANGED <<sealing, segments, data, tombs, taken, inserted>>
          /\ taken = {} /\ wid \in Ids /\ wpc = "del_buffer" /\ wpc' # wpc
      BY <1>0, <1>3 DEF DeleteFromBuffer, WriterKnows, GoTo, Return
    <2>2. CASE UNCHANGED buffer
      BY <2>1, <2>2 DEF Content, LiveIn, Invisible
    <2>3. CASE wid \in IdsOf(buffer)
      <3>1. PICK r \in buffer : r[1] = wid
        BY <2>3 DEF IdsOf
      <3>2. r \in Content
        BY <3>1, ContentMembers
      <3>3. buffer' = { q \in buffer : q[1] # wid }
        BY <1>3, <2>3 DEF DeleteFromBuffer
      <3>4. \A o \in Listed : \A q \in LiveIn(o) : q[1] # wid
        BY <1>0, <3>1 DEF LiveUnique, WriterHeld
      <3>5. Content' = { q \in Content : q[1] # wid }
        BY <2>1, <3>3, <3>4 DEF Content, LiveIn, Listed
      <3> QED
        BY <2>1, <3>1, <3>2, <3>5, DeleteRefines DEF Removing
    <2> QED
      BY <1>3, <2>2, <2>3 DEF DeleteFromBuffer
  <1>4. ASSUME UNCHANGED <<buffer, sealing, segments, data, taken, inserted>>, wid \in Ids,
               wpc \in {"del_sealing", "del_segments"}, wpc' # wpc,
               UNCHANGED tombs \/ \E list \in SUBSET Listed : Bury(list)
        PROVE  Removing \/ Invisible
    <2>1. CASE UNCHANGED tombs
      BY <1>4, <2>1 DEF Content, LiveIn, Invisible
    <2>2. CASE \E list \in SUBSET Listed : Bury(list)
      BY <1>0, <1>4, <2>2, BuryRefines DEF Removing, Invisible
    <2> QED
      BY <1>4, <2>1, <2>2
  <1>5. CASE DeleteFromSealing
    BY <1>0, <1>4, <1>5 DEF DeleteFromSealing, Listed, WriterKnows, GoTo, Return
  <1>6. CASE DeleteFromSegments
    BY <1>0, <1>4, <1>6 DEF DeleteFromSegments, Listed, WriterKnows, Return
  <1>7. CASE SealSwap
    BY <1>0, <1>7 DEF SealSwap, WriterKnows, Content, LiveIn, Invisible
  <1>8. CASE SealPush
    <2>1. PICK f : PushMoves(f)
      BY <1>8, SealPushMoves
    <2>2. Listed' = (Listed \ {}) \cup {f} /\ WriterHeld' = WriterHeld \ taken
      BY <1>0, <2>1 DEF PushMoves, Listed, WriterHeld, LiveUnique
    <2> QED
      BY <1>8, <2>1, <2>2, MovesInvisible DEF SealPush, PushMoves, WriterHeld, Invisible
  <1>9. ASSUME NEW t \in SealThreads, BuildOne(t)
        PROVE  Invisible
    <2>1. PICK f, o : BuildMoves(f, o)
      BY <1>9, BuildOneMoves
    <2>2. Listed' = (Listed \ {o}) \cup {f} /\ WriterHeld' = WriterHeld \ {} /\ o \in Listed
      BY <1>0, <2>1 DEF BuildMoves, Published, Listed, WriterHeld, ListsDisjoint
    <2>3. \A r : r \in LiveIn(f)' <=> r \in {} \/ \E x \in {o} : r \in LiveIn(x)
      BY <2>1 DEF BuildMoves
    <2>4. Published(f) /\ {o} \in SUBSET Listed /\ {} \in SUBSET WriterHeld
      BY <2>1, <2>2 DEF BuildMoves
    <2> QED
      BY <1>9, <2>2, <2>3, <2>4, MovesInvisible DEF BuildOne, SealerIdle, Invisible
  <1>10. ASSUME NEW t \in MergeThreads, MergeSwap(t)
         PROVE  Invisible
    <2>1. PICK f, a, b : MergeMoves(f, a, b)
      BY <1>10, MergeSwapMoves
    <2>2. Listed' = (Listed \ {a, b}) \cup {f} /\ WriterHeld' = WriterHeld \ {}
      BY <1>0, <2>1 DEF MergeMoves, Published, Listed, WriterHeld, ListsDisjoint
    <2>3. \A r : r \in LiveIn(f)' <=> r \in {} \/ \E x \in {a, b} : r \in LiveIn(x)
      BY <2>1 DEF MergeMoves
    <2>4. Published(f) /\ {a, b} \in SUBSET Listed /\ {} \in SUBSET WriterHeld
      BY <2>1 DEF MergeMoves, Listed
    <2> QED
      BY <1>10, <2>2, <2>3, <2>4, MovesInvisible DEF MergeSwap, MergerIdle, Invisible
  <1> QED
    BY <1>1, <1>2, <1>3, <1>5, <1>6, <1>7, <1>8, <1>9, <1>10, IndexSteps

LEMMA StepRefines == IInv /\ [Next]_vars => [AbstractStore!Next]_Content
  <1> SUFFICES ASSUME IInv, [Next]_vars
               PROVE  AbstractStore!Next \/ UNCHANGED Content
    OBVIOUS
  <1>1. CASE Inserting
    BY <1>1 DEF Inserting, AbstractStore!Next, AbstractStore!Insert, AbstractStore!IdsOf, IdsOf
  <1>2. CASE Removing
    BY <1>2 DEF Removing, AbstractStore!Next
  <1> QED
    BY <1>1, <1>2, ContentSteps DEF Invisible

(* Sealing, building, merging, swapping and rejected requests are          *)
(* invisible; an insert of an absent id and a delete of a present one are  *)
(* the only changes callers can observe.                                   *)
THEOREM Implements == Spec => ImplementsStore
  <1>1. Init => AbstractStore!Init
    BY DEF Init, AbstractStore!Init, Content
  <1> QED
    BY <1>1, StepRefines, Invariant, PTL DEF Spec, ImplementsStore, AbstractStore!Spec

-----------------------------------------------------------------------------
(* Objects outlive their lists: a search may still read them. *)
Allocated == 1 .. fresh - 1

(* An object keeps its records and its tombstones, which only grow, and it *)
(* loses a live record only when that record is deleted.                   *)
LEMMA ObjectsKept ==
  ASSUME IInv, [Next]_vars
  PROVE  /\ Allocated \subseteq Allocated'
         /\ \A o \in Allocated : LiveIn(o)' \subseteq LiveIn(o)
         /\ \A o \in Allocated : \A x \in LiveIn(o) : x \in Content' => x \in LiveIn(o)'
  <1>0. ListsTypeOK /\ LiveUnique /\ fresh \in Nat /\ Listed \subseteq Allocated /\ Allocated \subseteq Obj
    <2>1. ListsTypeOK /\ LiveUnique
      BY DEF IInv, TypeOK, DataInv
    <2> QED
      BY <2>1, BoundsAssumption DEF ListsTypeOK, Listed, Allocated, Obj
  <1>1. ASSUME UNCHANGED <<data, tombs, fresh>>
        PROVE  /\ Allocated \subseteq Allocated'
               /\ \A o \in Allocated : LiveIn(o)' = LiveIn(o)
    BY <1>1 DEF Allocated, LiveIn
  <1>2. ASSUME NEW records, NEW buried, Allocate(records, buried)
        PROVE  /\ Allocated \subseteq Allocated'
               /\ \A o \in Allocated : LiveIn(o)' = LiveIn(o)
    <2>1. \A o \in Allocated : data'[o] = data[o] /\ tombs'[o] = tombs[o]
      BY <1>0, <1>2 DEF Allocate, Allocated, ListsTypeOK
    <2>2. fresh' = fresh + 1
      BY <1>2 DEF Allocate
    <2> QED
      BY <1>0, <2>1, <2>2 DEF Allocated, LiveIn
  <1>3. ASSUME NEW list \in SUBSET Listed, Bury(list),
               UNCHANGED <<buffer, sealing, segments, data, fresh, taken>>
        PROVE  /\ Allocated \subseteq Allocated'
               /\ \A o \in Allocated : LiveIn(o)' \subseteq LiveIn(o)
               /\ \A o \in Allocated : \A x \in LiveIn(o) : x \in Content' => x \in LiveIn(o)'
    <2>1. PICK b \in list : tombs' = [tombs EXCEPT ![b] = @ \cup {wid}]
      BY <1>3 DEF Bury, IsNewest, Holding
    <2>2. b \in Listed /\ b \in Allocated /\ tombs \in [Obj -> SUBSET Ids]
      BY <1>0, <2>1 DEF ListsTypeOK
    <2>3. /\ LiveIn(b)' = { x \in LiveIn(b) : x[1] # wid }
          /\ \A o \in Allocated : o # b => LiveIn(o)' = LiveIn(o)
      BY <1>0, <1>3, <2>1, <2>2 DEF LiveIn
    <2>4. ASSUME NEW x \in LiveIn(b), x[1] = wid
          PROVE  x \notin Content'
      <3>1. /\ x \notin WriterHeld
            /\ \A o \in Listed : o # b => x \notin LiveIn(o)
        BY <1>0, <2>2, <2>4 DEF LiveUnique
      <3>2. x \notin LiveIn(b)'
        BY <2>3, <2>4
      <3>3. \A o \in Listed : x \notin LiveIn(o)'
        BY <1>0, <2>3, <3>1, <3>2
      <3> QED
        BY <1>3, <3>1, <3>3 DEF Content, Listed, WriterHeld
    <2>5. Allocated' = Allocated
      BY <1>3 DEF Allocated
    <2> QED
      BY <2>3, <2>4, <2>5
  <1>4. CASE UNCHANGED indexVars
    BY <1>1, <1>4 DEF indexVars
  <1>5. CASE ApplyInsert \/ DeleteFromBuffer \/ SealSwap
    BY <1>1, <1>5 DEF ApplyInsert, DeleteFromBuffer, SealSwap
  <1>6. CASE DeleteFromSealing
    BY <1>1, <1>3, <1>6 DEF DeleteFromSealing, Listed
  <1>7. CASE DeleteFromSegments
    BY <1>1, <1>3, <1>7 DEF DeleteFromSegments, Listed
  <1>8. CASE SealPush
    BY <1>2, <1>8 DEF SealPush
  <1>9. ASSUME NEW t \in SealThreads, BuildOne(t)
        PROVE  /\ Allocated \subseteq Allocated'
               /\ \A o \in Allocated : LiveIn(o)' = LiveIn(o)
    BY <1>2, <1>9 DEF BuildOne
  <1>10. ASSUME NEW t \in MergeThreads, MergeSwap(t)
         PROVE  /\ Allocated \subseteq Allocated'
                /\ \A o \in Allocated : LiveIn(o)' = LiveIn(o)
    BY <1>1, <1>2, <1>10 DEF MergeSwap
  <1> QED
    BY <1>4, <1>5, <1>6, <1>7, <1>8, <1>9, <1>10, IndexSteps

-----------------------------------------------------------------------------
(* Answers.  An id may have old copies, dead, in other objects.  The live  *)
(* one has the number of the last insert, a copy in a buffer being sealed  *)
(* is newer than the copies in older buffers and in all segments, and no   *)
(* record is listed twice.                                                 *)

CopiesSound ==
    /\ \A x \in Content : x[2] = inserted[x[1]]
    /\ \A o \in Listed : \A x, y \in data[o] : x[1] = y[1] => x = y
    /\ \A o \in Listed : \A x \in data[o] : x[2] <= inserted[x[1]]
CopiesOrdered ==
    /\ \A o, p \in segments : o # p => data[o] \cap data[p] = {}
    /\ \A o \in Listed : \A p \in sealing : o \in segments \/ o < p =>
           \A x \in data[o], y \in data[p] : x[1] = y[1] => x[2] < y[2]
    /\ \A o \in Listed : \A x \in data[o], y \in WriterHeld : x[1] = y[1] => x[2] < y[2]

(* The queue is drained from its old end. *)
BuildsOldest == \A t \in SealThreads : SealerAt(t, "build") => IsOldest(sealer[t].obj, sealing)

(* What a request is about at each step, and what it has found so far. *)
DeletePC == {"live_buffer", "live_sealing", "live_segments", "del_buffer", "del_sealing", "del_segments"}
WaitPC == {"wait_seal", "wait_queue", "wait_merge", "check_seal", "check_queue", "check_merge", "ckpt_write"}
RequestKnows ==
    /\ wpc \in {"ins_buffer", "ins_sealing", "ins_segments", "ins_apply", "stall"} => wop = "insert"
    /\ wpc \in DeletePC => wop = "delete"
    /\ wpc \in {"seal_swap", "seal_push", "seal_spawn"} => wop \in {"insert", "checkpoint"}
    /\ wpc \in WaitPC => wop = "checkpoint"
InsertKnows ==
    wop = "insert" /\ wpc \in {"seal_swap", "seal_push", "seal_spawn", "stall"} => wid \in IdsOf(Content)
DeleteKnows ==
    /\ wpc \in {"live_sealing", "live_segments", "del_sealing", "del_segments"} => wid \notin IdsOf(buffer)
    /\ wpc \in {"live_segments", "del_segments"} => ~LiveInList(sealing, wid)

AnswerInv == CopiesSound /\ CopiesOrdered /\ BuildsOldest /\ RequestKnows /\ InsertKnows /\ DeleteKnows

(* Records and their numbers. *)
LEMMA Numbers ==
  ASSUME IInv
  PROVE  /\ \A o \in Listed : \A x \in data[o] : x[1] \in Ids /\ x[2] \in Nat
         /\ \A x \in Content : x[1] \in Ids /\ x[2] \in Nat
         /\ \A id \in Ids : inserted[id] \in Nat
         /\ WriterHeld \subseteq Content
         /\ \A o \in Listed : LiveIn(o) \subseteq Content /\ LiveIn(o) \subseteq data[o]
         /\ \A o \in Listed : o \in Nat /\ o < fresh
  <1>1. ListsTypeOK
    BY DEF IInv, TypeOK
  <1>2. \A o \in Listed : data[o] \subseteq Record
    BY <1>1, ListedAllocated
  <1>3. \A v \in Vectors : v \in Nat
    BY DEF Vectors
  <1>4. \A o \in Listed : o \in Nat /\ o < fresh
    BY <1>1, BoundsAssumption DEF ListsTypeOK, Listed
  <1>5. \A id \in Ids : inserted[id] \in Nat
    BY <1>1, BoundsAssumption DEF ListsTypeOK
  <1> QED
    BY <1>2, <1>3, <1>4, <1>5, ContentTyped, ContentMembers DEF Record, WriterHeld, LiveIn

(* A live record has the number of the last insert of its id. *)
LEMMA LastLiveStep ==
  ASSUME IInv, CopiesSound, [Next]_vars
  PROVE  /\ \A x \in Content' : x[2] = inserted'[x[1]]
         /\ \A id \in Ids : inserted[id] <= inserted'[id]
  <1>0. inserted \in [Ids -> 0 .. InsertsPerId] /\ \A id \in Ids : inserted[id] \in Nat
    BY Numbers DEF IInv, TypeOK, ListsTypeOK
  <1>1. CASE Inserting
    <2>1. PICK w, n : w = wid /\ n = inserted[w] + 1
      OBVIOUS
    <2>2. /\ w \in Ids /\ w \notin IdsOf(Content) /\ inserted' = [inserted EXCEPT ![w] = @ + 1]
          /\ Content' = Content \cup {<<w, n>>}
      BY <1>1, <2>1 DEF Inserting
    <2>3. inserted'[w] = n /\ \A id \in Ids : id # w => inserted'[id] = inserted[id]
      BY <1>0, <2>1, <2>2
    <2>4. \A x \in Content : x[1] # w /\ x[1] \in Ids
      BY <2>2, Numbers DEF IdsOf
    <2>5. \A x \in Content' : x \in Content \/ (x[1] = w /\ x[2] = n)
      BY <2>2
    <2>6. \A id \in Ids : inserted[id] <= inserted'[id]
      BY <1>0, <2>1, <2>2, <2>3
    <2> QED
      BY <2>3, <2>4, <2>5, <2>6 DEF CopiesSound
  <1>2. CASE Removing
    <2>1. Content' \subseteq Content /\ inserted' = inserted
      BY <1>2 DEF Removing, AbstractStore!Delete
    <2> QED
      BY <1>0, <2>1 DEF CopiesSound
  <1>3. CASE Invisible
    BY <1>0, <1>3 DEF Invisible, CopiesSound
  <1> QED
    BY <1>1, <1>2, <1>3, ContentSteps

(* The lists and their objects stay; what the writer adds is a new number. *)
LEMMA CopiesUnmoved ==
  ASSUME IInv, CopiesSound, CopiesOrdered, [Next]_vars, UNCHANGED <<sealing, segments, data>>,
         \A y \in WriterHeld' : y \in WriterHeld \/ (y[1] \in Ids /\ y[2] = inserted[y[1]] + 1)
  PROVE  CopiesSound' /\ CopiesOrdered'
  <1>1. Listed' = Listed
    BY DEF Listed
  <1>2. \A o \in Listed : \A x \in data[o] : x[2] <= inserted'[x[1]]
    <2> SUFFICES ASSUME NEW o \in Listed, NEW x \in data[o] PROVE x[2] <= inserted'[x[1]]
      OBVIOUS
    <2>1. /\ x[2] \in Nat /\ inserted[x[1]] \in Nat /\ x[2] <= inserted[x[1]]
          /\ inserted[x[1]] <= inserted'[x[1]]
      BY Numbers, LastLiveStep DEF CopiesSound
    <2>2. inserted'[x[1]] \in Nat
      <3>1. IInv'
        BY StepInv
      <3>2. \A id \in Ids : inserted'[id] \in Nat
        BY <3>1, BoundsAssumption DEF IInv, TypeOK, ListsTypeOK
      <3> QED
        BY <3>2, Numbers
    <2> QED
      BY <2>1, <2>2
  <1>3. CopiesSound'
    BY <1>1, <1>2, LastLiveStep DEF CopiesSound
  <1>4. ASSUME NEW o \in Listed, NEW x \in data[o], NEW y \in WriterHeld', x[1] = y[1]
        PROVE  x[2] < y[2]
    <2>1. CASE y \in WriterHeld
      BY <1>4, <2>1 DEF CopiesOrdered
    <2>2. CASE y[1] \in Ids /\ y[2] = inserted[y[1]] + 1
      BY <1>4, <2>2, Numbers DEF CopiesSound
    <2> QED
      BY <1>4, <2>1, <2>2
  <1> QED
    BY <1>1, <1>3, <1>4 DEF CopiesOrdered

(* A new object takes its records from the writer or from other objects.   *)
LEMMA CopiesMoved ==
  ASSUME IInv, CopiesSound, [Next]_vars, UNCHANGED inserted, NEW f, Published(f),
         Listed' \subseteq Listed \cup {f},
         \A x \in data'[f] : x \in taken \/ \E o \in Listed : x \in data[o],
         \A x, y \in data'[f] : x[1] = y[1] => x = y
  PROVE  CopiesSound'
  <1>1. \A o \in Listed : data'[o] = data[o]
    BY DEF Published
  <1>2. \A x \in taken : x[2] <= inserted[x[1]]
    <2> SUFFICES ASSUME NEW x \in taken PROVE x[2] <= inserted[x[1]]
      OBVIOUS
    <2>1. x \in Content
      BY DEF Content
    <2> QED
      BY <2>1, Numbers DEF CopiesSound
  <1>3. \A x \in data'[f] : x[2] <= inserted[x[1]]
    BY <1>2 DEF CopiesSound
  <1> QED
    BY <1>1, <1>3, LastLiveStep DEF CopiesSound

LEMMA CopiesStep ==
  ASSUME IInv, CopiesSound, CopiesOrdered, BuildsOldest, [Next]_vars
  PROVE  CopiesSound' /\ CopiesOrdered'
  <1>1. CASE UNCHANGED indexVars
    <2>1. UNCHANGED <<sealing, segments, data>> /\ WriterHeld' = WriterHeld
      BY <1>1 DEF indexVars, WriterHeld
    <2> QED
      BY <2>1, CopiesUnmoved
  <1>2. CASE ApplyInsert
    <2>1. UNCHANGED <<sealing, segments, data>>
      BY <1>2 DEF ApplyInsert
    <2>2. wid \in Ids
      BY <1>2 DEF ApplyInsert, IInv, WriterKnows
    <2>3. \A y \in WriterHeld' : y \in WriterHeld \/ y = <<wid, inserted[wid] + 1>>
      BY <1>2 DEF ApplyInsert, WriterHeld
    <2> QED
      BY <2>1, <2>2, <2>3, CopiesUnmoved
  <1>3. CASE DeleteFromBuffer \/ DeleteFromSealing \/ DeleteFromSegments \/ SealSwap
    <2>1. UNCHANGED <<sealing, segments, data>> /\ WriterHeld' \subseteq WriterHeld
      BY <1>3 DEF DeleteFromBuffer, DeleteFromSealing, DeleteFromSegments, SealSwap, WriterHeld
    <2> QED
      BY <2>1, CopiesUnmoved
  <1>4. CASE SealPush
    <2>1. PICK f : PushMoves(f)
      BY <1>4, SealPushMoves
    <2>2. /\ f = fresh /\ f \notin Listed /\ \A o \in Listed : data'[o] = data[o]
          /\ data'[f] = taken /\ sealing' = sealing \cup {f} /\ segments' = segments
          /\ WriterHeld' = buffer /\ Listed' = Listed \cup {f}
          /\ UNCHANGED inserted
      BY <1>4, <2>1 DEF PushMoves, Published, WriterHeld, Listed, SealPush
    <2>3. \A x, y \in WriterHeld : x[1] = y[1] => x = y
      BY DEF IInv, DataInv, LiveUnique
    <2>4. buffer \cap taken = {} /\ taken \subseteq WriterHeld /\ buffer \subseteq WriterHeld
      BY DEF IInv, DataInv, LiveUnique, WriterHeld
    <2>5. CopiesSound'
      BY <2>1, <2>2, <2>3, <2>4, CopiesMoved DEF PushMoves
    <2>6. \A o, p \in segments' : o # p => data'[o] \cap data'[p] = {}
      BY <2>2 DEF CopiesOrdered, Listed
    <2>7. ASSUME NEW o \in Listed', NEW p \in sealing', o \in segments' \/ o < p,
                 NEW x \in data'[o], NEW y \in data'[p], x[1] = y[1]
          PROVE  x[2] < y[2]
      <3>1. o \in Listed
        <4>1. \A z \in sealing : z \in Nat /\ z < fresh /\ fresh \in Nat
          BY Numbers, BoundsAssumption DEF Listed, IInv, TypeOK, ListsTypeOK
        <4>2. ASSUME o = f
              PROVE  FALSE
          <5>1. o < p /\ (p \in sealing \/ p = f)
            BY <2>2, <2>7, <4>2 DEF Listed
          <5>2. f \in Nat
            BY <2>2, BoundsAssumption DEF IInv, TypeOK, ListsTypeOK
          <5> QED
            BY <2>2, <4>1, <4>2, <5>1, <5>2
        <4> QED
          BY <2>2, <2>7, <4>2
      <3>2. CASE p = f
        BY <2>2, <2>4, <2>7, <3>1, <3>2 DEF CopiesOrdered
      <3>3. CASE p # f
        BY <2>2, <2>7, <3>1, <3>3 DEF CopiesOrdered, Listed
      <3> QED
        BY <3>2, <3>3
    <2>8. ASSUME NEW o \in Listed', NEW x \in data'[o], NEW y \in WriterHeld', x[1] = y[1]
          PROVE  x[2] < y[2]
      <3>1. CASE o = f
        BY <2>2, <2>3, <2>4, <2>8, <3>1
      <3>2. CASE o # f
        BY <2>2, <2>4, <2>8, <3>2 DEF CopiesOrdered
      <3> QED
        BY <3>1, <3>2
    <2> QED
      BY <2>5, <2>6, <2>7, <2>8 DEF CopiesOrdered
  <1>5. ASSUME NEW t \in SealThreads, BuildOne(t)
        PROVE  CopiesSound' /\ CopiesOrdered'
    <2>1. PICK f, o : BuildMoves(f, o)
      BY <1>5, BuildOneMoves
    <2>2. /\ f = fresh /\ f \notin Listed /\ \A p \in Listed : data'[p] = data[p]
          /\ data'[f] = data[o] /\ o \in sealing
          /\ sealing' = sealing \ {o} /\ segments' = segments \cup {f}
          /\ WriterHeld' = WriterHeld /\ UNCHANGED inserted
      BY <1>5, <2>1 DEF BuildMoves, Published, WriterHeld, BuildOne, SealerIdle
    <2>3. IsOldest(o, sealing)
      BY <2>1 DEF BuildMoves, BuildsOldest
    <2>4. o \in Listed /\ Listed' \subseteq Listed \cup {f} /\ f \notin segments /\ f \notin sealing
      BY <2>2 DEF Listed
    <2>5. CopiesSound'
      <3>1. \A x, y \in data'[f] : x[1] = y[1] => x = y
        BY <2>2, <2>4 DEF CopiesSound
      <3> QED
        BY <2>1, <2>2, <2>4, <3>1, CopiesMoved DEF BuildMoves
    <2>6. ASSUME NEW s \in segments, NEW x \in data[s] PROVE x \notin data[o]
      <3>1. s \in Listed
        BY DEF Listed
      <3> QED
        BY <2>2, <2>6, <3>1, Numbers DEF CopiesOrdered
    <2>7. \A s, p \in segments' : s # p => data'[s] \cap data'[p] = {}
      <3> SUFFICES ASSUME NEW s \in segments', NEW p \in segments', s # p,
                          NEW x \in data'[s], x \in data'[p]
                   PROVE  FALSE
        OBVIOUS
      <3>1. \A z \in segments : z \in Listed
        BY DEF Listed
      <3> QED
        BY <2>2, <2>4, <2>6, <3>1 DEF CopiesOrdered
    <2>8. ASSUME NEW s \in Listed', NEW p \in sealing', s \in segments' \/ s < p,
                 NEW x \in data'[s], NEW y \in data'[p], x[1] = y[1]
          PROVE  x[2] < y[2]
      <3>1. p \in sealing /\ p # o /\ data'[p] = data[p]
        BY <2>2, <2>8 DEF Listed
      <3>2. CASE s = f
        <4>1. o < p
          BY <2>2, <2>3, <3>1, Numbers DEF IsOldest, Listed
        <4> QED
          BY <2>2, <2>4, <2>8, <3>1, <3>2, <4>1 DEF CopiesOrdered
      <3>3. CASE s # f
        BY <2>2, <2>4, <2>8, <3>1, <3>3 DEF CopiesOrdered, Listed
      <3> QED
        BY <3>2, <3>3
    <2>9. ASSUME NEW s \in Listed', NEW x \in data'[s], NEW y \in WriterHeld', x[1] = y[1]
          PROVE  x[2] < y[2]
      BY <2>2, <2>4, <2>9 DEF CopiesOrdered
    <2> QED
      BY <2>5, <2>7, <2>8, <2>9 DEF CopiesOrdered
  <1>6. ASSUME NEW t \in MergeThreads, MergeSwap(t)
        PROVE  CopiesSound' /\ CopiesOrdered'
    <2>1. PICK f, a, b : MergeMoves(f, a, b)
      BY <1>6, MergeSwapMoves
    <2>2. /\ f = fresh /\ f \notin Listed /\ \A p \in Listed : data'[p] = data[p]
          /\ a \in segments /\ b \in segments /\ data'[f] \subseteq data[a] \cup data[b]
          /\ sealing' = sealing /\ segments' = (segments \ {a, b}) \cup {f}
          /\ WriterHeld' = WriterHeld /\ UNCHANGED inserted
      BY <1>6, <2>1 DEF MergeMoves, Published, WriterHeld, MergeSwap, MergerIdle
    <2>3. \A x, y \in data'[f] : x[1] = y[1] => {x, y} \subseteq data[a] \/ {x, y} \subseteq data[b]
      BY <2>1 DEF MergeMoves
    <2>4. a \in Listed /\ b \in Listed /\ Listed' \subseteq Listed \cup {f}
          /\ f \notin segments /\ f \notin sealing
      BY <2>2 DEF Listed
    <2>5. CopiesSound'
      <3>1. \A x, y \in data'[f] : x[1] = y[1] => x = y
        BY <2>3, <2>4 DEF CopiesSound
      <3> QED
        BY <2>1, <2>2, <2>4, <3>1, CopiesMoved DEF MergeMoves
    <2>6. \A s, p \in segments' : s # p => data'[s] \cap data'[p] = {}
      <3> SUFFICES ASSUME NEW s \in segments', NEW p \in segments', s # p,
                          NEW x \in data'[s], x \in data'[p]
                   PROVE  FALSE
        OBVIOUS
      <3>1. \A z \in segments : z \in Listed
        BY DEF Listed
      <3>2. \A z \in segments' : z = f \/ (z \in segments /\ z # a /\ z # b)
        BY <2>2
      <3>3. CASE s # f /\ p # f
        BY <2>2, <3>1, <3>2, <3>3 DEF CopiesOrdered
      <3>4. CASE s = f
        BY <2>2, <3>1, <3>2, <3>4 DEF CopiesOrdered
      <3>5. CASE p = f
        BY <2>2, <3>1, <3>2, <3>5 DEF CopiesOrdered
      <3> QED
        BY <3>3, <3>4, <3>5
    <2>7. ASSUME NEW s \in Listed', NEW x \in data'[s]
          PROVE  \E z \in Listed : x \in data[z] /\ (z = s \/ (s = f /\ z \in segments))
      BY <2>2, <2>4, <2>7
    <2>8. ASSUME NEW s \in Listed', NEW p \in sealing', s \in segments' \/ s < p,
                 NEW x \in data'[s], NEW y \in data'[p], x[1] = y[1]
          PROVE  x[2] < y[2]
      <3>1. p \in sealing /\ data'[p] = data[p]
        BY <2>2, <2>8 DEF Listed
      <3>2. PICK z \in Listed : x \in data[z] /\ (z = s \/ (s = f /\ z \in segments))
        BY <2>7, <2>8
      <3>3. z \in segments \/ z < p
        BY <2>2, <2>4, <2>8, <3>2 DEF Listed
      <3> QED
        BY <2>8, <3>1, <3>2, <3>3 DEF CopiesOrdered
    <2>9. ASSUME NEW s \in Listed', NEW x \in data'[s], NEW y \in WriterHeld', x[1] = y[1]
          PROVE  x[2] < y[2]
      BY <2>2, <2>7, <2>9 DEF CopiesOrdered
    <2> QED
      BY <2>5, <2>6, <2>8, <2>9 DEF CopiesOrdered
  <1> QED
    BY <1>1, <1>2, <1>3, <1>4, <1>5, <1>6, IndexSteps

(* Only the end of the queue grows, and only its old end is taken. *)
LEMMA BuildsOldestStep ==
  ASSUME IInv, BuildsOldest, [Next]_vars
  PROVE  BuildsOldest'
  <1> USE DEF BuildsOldest, SealerAt, sealerVars
  <1>0. /\ SealersTypeOK /\ FlagsOwned /\ BuildsListed /\ fresh \in Nat
        /\ \A o \in sealing : o \in Nat /\ o < fresh
    BY Numbers, BoundsAssumption DEF Listed, IInv, TypeOK, ThreadInv, ListsTypeOK
  <1>1. CASE sealer' = sealer /\ sealing' = sealing
    BY <1>1 DEF IsOldest
  <1>2. CASE SealPush
    <2>1. sealer' = sealer /\ sealing' = sealing \cup {fresh}
      BY <1>2 DEF SealPush
    <2> QED
      BY <1>0, <2>1 DEF IsOldest
  <1>3. CASE SealSpawn
    BY <1>0, <1>3 DEF SealSpawn, SealersTypeOK, IsOldest
  <1>4. ASSUME NEW t \in SealThreads, SealerStep(t)
        PROVE  BuildsOldest'
    <2>1. CASE TakeNext(t)
      <3>1. sealing' = sealing
        BY <2>1 DEF TakeNext
      <3>2. CASE SealerGoTo(t, "release")
        BY <1>0, <3>1, <3>2 DEF SealerGoTo, SealersTypeOK, IsOldest
      <3>3. CASE \E o \in sealing : /\ IsOldest(o, sealing)
                                   /\ sealer' = [sealer EXCEPT ![t] = [pc |-> "build", obj |-> o]]
        BY <1>0, <3>1, <3>3 DEF SealersTypeOK, IsOldest
      <3> QED
        BY <2>1, <3>2, <3>3 DEF TakeNext
    <2>2. CASE BuildOne(t)
      <3>1. sealer[t].pc = "build" /\ sealer' = [sealer EXCEPT ![t] = [pc |-> "merge_len", obj |-> NoObj]]
        BY <2>2 DEF BuildOne
      <3>2. \A u \in SealThreads : sealer[u].pc = "build" => u = t
        BY <1>0, <3>1 DEF FlagsOwned, SingleWorkers, SealerActive
      <3>3. \A u \in SealThreads : sealer'[u].pc # "build"
        BY <1>0, <3>1, <3>2 DEF SealersTypeOK
      <3> QED
        BY <3>3
    <2>3. CASE MergeNeeded(t) \/ MergeSpawn(t) \/ SealRelease(t) \/ SealRecheck(t) \/ SealReclaim(t)
      <3>1. UNCHANGED sealing
        BY <2>3 DEF MergeNeeded, MergeSpawn, SealRelease, SealRecheck, SealReclaim
      <3>2. PICK pc : SealerGoTo(t, pc) /\ pc # "build"
        BY <2>3 DEF MergeNeeded, MergeSpawn, SealRelease, SealRecheck, SealReclaim
      <3> QED
        BY <1>0, <3>1, <3>2 DEF SealerGoTo, SealersTypeOK, IsOldest
    <2> QED
      BY <1>4, <2>1, <2>2, <2>3 DEF SealerStep
  <1>5. CASE UNCHANGED sealerVars
    <2>1. CASE UNCHANGED indexVars
      BY <1>1, <1>5, <2>1 DEF indexVars
    <2>2. CASE ApplyInsert \/ DeleteFromBuffer \/ DeleteFromSealing \/ DeleteFromSegments \/ SealSwap
      BY <1>1, <1>5, <2>2 DEF ApplyInsert, DeleteFromBuffer, DeleteFromSealing, DeleteFromSegments,
                              SealSwap
    <2>4. CASE \E t \in SealThreads : BuildOne(t)
      BY <1>4, <2>4 DEF SealerStep
    <2>5. CASE \E t \in MergeThreads : MergeSwap(t)
      BY <1>1, <1>5, <2>5 DEF MergeSwap, MergerIdle
    <2> QED
      BY <1>2, <2>1, <2>2, <2>4, <2>5, IndexSteps
  <1> QED
    BY <1>3, <1>4, <1>5, SealerSteps

(* The steps that leave the writer and what it holds alone. *)
LEMMA BackgroundSteps ==
  ASSUME IInv, [Next]_vars, ~Client, ~WriterStep
  PROVE  /\ UNCHANGED <<writerVars, buffer, inserted, taken>>
         /\ \A id : LiveInList(sealing, id)' => LiveInList(sealing, id)
  <1> USE DEF writerVars
  <1>1. ASSUME UNCHANGED <<sealing, data, tombs>>
        PROVE  \A id : LiveInList(sealing, id)' => LiveInList(sealing, id)
    BY <1>1 DEF LiveInList, LiveIn
  <1>2. ASSUME NEW t \in SealThreads, SealerStep(t)
        PROVE  /\ UNCHANGED <<writerVars, buffer, inserted, taken>>
               /\ \A id : LiveInList(sealing, id)' => LiveInList(sealing, id)
    <2>1. UNCHANGED <<writerVars, buffer, inserted, taken>>
      BY <1>2 DEF SealerStep, TakeNext, BuildOne, MergeNeeded, MergeSpawn, SealRelease,
                  SealRecheck, SealReclaim, SealerIdle
    <2>2. CASE BuildOne(t)
      <3>1. PICK f, o : BuildMoves(f, o)
        BY <2>2, BuildOneMoves
      <3> QED
        BY <2>1, <3>1 DEF BuildMoves, Published, LiveInList, Listed
    <2>3. CASE ~BuildOne(t)
      BY <1>1, <1>2, <2>1, <2>3 DEF SealerStep, TakeNext, MergeNeeded, MergeSpawn, SealRelease,
                  SealRecheck, SealReclaim
    <2> QED
      BY <2>2, <2>3
  <1>3. ASSUME NEW t \in MergeThreads, MergerStep(t)
        PROVE  /\ UNCHANGED <<writerVars, buffer, inserted, taken>>
               /\ \A id : LiveInList(sealing, id)' => LiveInList(sealing, id)
    <2>1. UNCHANGED <<writerVars, buffer, inserted, taken>>
      BY <1>3 DEF MergerStep, MergeWhile, PickVictims, SnapshotA, SnapshotB, MergeSwap,
                  MergeRelease, MergeRecheck, MergeReclaim, MergerIdle
    <2>2. CASE MergeSwap(t)
      <3>1. PICK f, a, b : MergeMoves(f, a, b)
        BY <2>2, MergeSwapMoves
      <3> QED
        BY <2>1, <3>1 DEF MergeMoves, Published, LiveInList, Listed
    <2>3. CASE ~MergeSwap(t)
      BY <1>1, <1>3, <2>1, <2>3 DEF MergerStep, MergeWhile, PickVictims, SnapshotA, SnapshotB,
                  MergeRelease, MergeRecheck, MergeReclaim, MergerIdle
    <2> QED
      BY <2>2, <2>3
  <1>4. CASE UNCHANGED vars
    BY <1>1, <1>4 DEF vars
  <1> QED
    BY <1>2, <1>3, <1>4 DEF Next

LEMMA RequestStep ==
  ASSUME IInv, RequestKnows, [Next]_vars
  PROVE  RequestKnows'
  <1> USE DEF RequestKnows, DeletePC, WaitPC, GoTo, Return
  <1>1. CASE Client
    BY <1>1 DEF Client, StartInsert, StartDelete, StartCheckpoint, Start
  <1>2. CASE WriterStep
    <2>1. CASE ValidateBuffer \/ ValidateSealing \/ ValidateSegments \/ ApplyInsert
      BY <2>1 DEF ValidateBuffer, ValidateSealing, ValidateSegments, Check, ApplyInsert
    <2>2. CASE ContainsBuffer \/ ContainsSealing \/ ContainsSegments
      BY <2>2 DEF ContainsBuffer, ContainsSealing, ContainsSegments, Found
    <2>3. CASE DeleteFromBuffer \/ DeleteFromSealing \/ DeleteFromSegments
      BY <2>3 DEF DeleteFromBuffer, DeleteFromSealing, DeleteFromSegments
    <2>4. CASE SealSwap \/ SealPush \/ SealSpawn \/ Stall \/ CheckpointWrite
      BY <2>4 DEF SealSwap, SealPush, SealSpawn, Stall, CheckpointWrite, AfterSeal
    <2>5. CASE WaitSeal \/ WaitQueue \/ WaitMerge \/ CheckSeal \/ CheckQueue \/ CheckMerge
      BY <2>5 DEF WaitSeal, WaitQueue, WaitMerge, CheckSeal, CheckQueue, CheckMerge, Poll
    <2> QED
      BY <1>2, <2>1, <2>2, <2>3, <2>4, <2>5 DEF WriterStep
  <1>3. CASE ~Client /\ ~WriterStep
    BY <1>3, BackgroundSteps DEF writerVars
  <1> QED
    BY <1>1, <1>2, <1>3

(* Nothing but a delete takes an id away. *)
LEMMA IdsKept ==
  ASSUME IInv, [Next]_vars,
         wpc \notin {"del_buffer", "del_sealing", "del_segments"} \/ wpc' = wpc
  PROVE  IdsOf(Content) \subseteq IdsOf(Content')
  BY ContentSteps DEF Inserting, Removing, Invisible, IdsOf

LEMMA InsertKnowsStep ==
  ASSUME IInv, RequestKnows, InsertKnows, [Next]_vars
  PROVE  InsertKnows'
  <1> USE DEF InsertKnows, GoTo, Return
  <1>1. CASE Client
    BY <1>1 DEF Client, StartInsert, StartDelete, StartCheckpoint, Start
  <1>2. CASE WriterStep
    <2>1. CASE ApplyInsert
      <3>1. buffer' \subseteq Content'
        BY DEF Content
      <3>2. wpc' # "idle" => <<wid, inserted[wid] + 1>> \in buffer' /\ wid' = wid
        BY <2>1 DEF ApplyInsert
      <3>3. wpc' # "idle" => wid' \in IdsOf(Content')
        BY <3>1, <3>2 DEF IdsOf
      <3> QED
        BY <3>3
    <2>2. CASE SealSwap \/ SealPush \/ SealSpawn
      <3>1. /\ wpc \in {"seal_swap", "seal_push", "seal_spawn"} /\ UNCHANGED <<wop, wid>>
        BY <2>2 DEF SealSwap, SealPush, SealSpawn
      <3> QED
        BY <3>1, IdsKept
    <2>3. CASE \/ ValidateBuffer \/ ValidateSealing \/ ValidateSegments
               \/ ContainsBuffer \/ ContainsSealing \/ ContainsSegments
               \/ DeleteFromBuffer \/ DeleteFromSealing \/ DeleteFromSegments
      BY <2>3 DEF ValidateBuffer, ValidateSealing, ValidateSegments, Check, ContainsBuffer,
                  ContainsSealing, ContainsSegments, Found, DeleteFromBuffer, DeleteFromSealing,
                  DeleteFromSegments
    <2>4. CASE Stall \/ CheckpointWrite \/ WaitSeal \/ WaitQueue \/ WaitMerge
               \/ CheckSeal \/ CheckQueue \/ CheckMerge
      BY <2>4 DEF Stall, CheckpointWrite, WaitSeal, WaitQueue, WaitMerge, CheckSeal, CheckQueue,
                  CheckMerge, Poll
    <2> QED
      BY <1>2, <2>1, <2>2, <2>3, <2>4 DEF WriterStep
  <1>3. CASE ~Client /\ ~WriterStep
    BY <1>3, BackgroundSteps, IdsKept DEF writerVars
  <1> QED
    BY <1>1, <1>2, <1>3

LEMMA DeleteKnowsStep ==
  ASSUME IInv, RequestKnows, DeleteKnows, [Next]_vars
  PROVE  DeleteKnows'
  <1> USE DEF DeleteKnows, GoTo, Return
  <1>1. CASE Client
    BY <1>1 DEF Client, StartInsert, StartDelete, StartCheckpoint, Start
  <1>2. CASE WriterStep
    <2>1. CASE ContainsBuffer \/ ContainsSealing \/ ContainsSegments
      <3>1. UNCHANGED <<buffer, sealing, data, tombs>>
        BY <2>1 DEF ContainsBuffer, ContainsSealing, ContainsSegments, Found
      <3>2. \A id : LiveInList(sealing, id)' = LiveInList(sealing, id)
        BY <3>1 DEF LiveInList, LiveIn
      <3> QED
        BY <2>1, <3>1, <3>2 DEF ContainsBuffer, ContainsSealing, ContainsSegments, Found
    <2>2. CASE DeleteFromBuffer
      BY <2>2 DEF DeleteFromBuffer
    <2>3. CASE DeleteFromSealing
      <3>1. CASE Holding(sealing, wid) # {}
        BY <2>3, <3>1 DEF DeleteFromSealing
      <3>2. CASE Holding(sealing, wid) = {}
        <4>1. UNCHANGED <<buffer, sealing, data, tombs>> /\ wpc = "del_sealing"
              /\ wpc' = "del_segments" /\ wid' = wid
          BY <2>3, <3>2 DEF DeleteFromSealing
        <4>2. ~LiveInList(sealing, wid)
          BY <3>2 DEF LiveInList, Holding, LiveIn, IdsOf
        <4>3. \A id : LiveInList(sealing, id)' = LiveInList(sealing, id)
          BY <4>1 DEF LiveInList, LiveIn
        <4> QED
          BY <4>1, <4>2, <4>3
      <3> QED
        BY <3>1, <3>2
    <2>4. CASE DeleteFromSegments
      BY <2>4 DEF DeleteFromSegments
    <2>5. CASE ValidateBuffer \/ ValidateSealing \/ ValidateSegments \/ ApplyInsert
      BY <2>5 DEF ValidateBuffer, ValidateSealing, ValidateSegments, Check, ApplyInsert
    <2>6. CASE SealSwap \/ SealPush \/ SealSpawn \/ Stall \/ CheckpointWrite
      BY <2>6 DEF SealSwap, SealPush, SealSpawn, Stall, CheckpointWrite, AfterSeal
    <2>7. CASE WaitSeal \/ WaitQueue \/ WaitMerge \/ CheckSeal \/ CheckQueue \/ CheckMerge
      BY <2>7 DEF WaitSeal, WaitQueue, WaitMerge, CheckSeal, CheckQueue, CheckMerge, Poll
    <2> QED
      BY <1>2, <2>1, <2>2, <2>3, <2>4, <2>5, <2>6, <2>7 DEF WriterStep
  <1>3. CASE ~Client /\ ~WriterStep
    BY <1>3, BackgroundSteps DEF writerVars
  <1> QED
    BY <1>1, <1>2, <1>3

LEMMA AnswerInvInit == Init => AnswerInv
  <1> SUFFICES ASSUME Init PROVE AnswerInv
    OBVIOUS
  <1>1. Content = {} /\ Listed = {} /\ WriterHeld = {} /\ sealing = {} /\ segments = {}
    BY DEF Init, Content, Listed, WriterHeld
  <1>2. CopiesSound /\ CopiesOrdered
    BY <1>1 DEF CopiesSound, CopiesOrdered
  <1>3. BuildsOldest /\ RequestKnows /\ InsertKnows /\ DeleteKnows
    BY DEF Init, BuildsOldest, SealerAt, IdleSealer, RequestKnows, DeletePC, WaitPC, InsertKnows,
           DeleteKnows
  <1> QED
    BY <1>2, <1>3 DEF AnswerInv

LEMMA AnswerInvStep == IInv /\ AnswerInv /\ [Next]_vars => AnswerInv'
  BY CopiesStep, BuildsOldestStep, RequestStep, InsertKnowsStep, DeleteKnowsStep DEF AnswerInv

(* A delete that found the id in no place, or hid its newest copy, has     *)
(* left no live copy: older copies are dead already.                       *)
LEMMA DeleteHolds ==
  ASSUME IInv, AnswerInv, [Next]_vars, wop = "delete", wpc # "idle", wpc' = "idle"
  PROVE  wid \notin IdsOf(Content') \/ ~CopiesInOrder(wid)
  <1>0. /\ ListsTypeOK /\ LiveUnique /\ ListsDisjoint /\ WriterKnows
        /\ CopiesSound /\ CopiesOrdered /\ DeleteKnows /\ RequestKnows
    BY DEF IInv, TypeOK, DataInv, AnswerInv
  <1>1. PICK id : id = wid
    OBVIOUS
  <1>2. CASE ContainsSegments
    <2>1. /\ ~LiveInList(segments, id) /\ wpc = "live_segments"
          /\ UNCHANGED <<buffer, sealing, segments, data, tombs, taken>>
      BY <1>1, <1>2 DEF ContainsSegments, Found, GoTo
    <2>2. taken = {} /\ id \notin IdsOf(buffer) /\ ~LiveInList(sealing, id)
      BY <1>0, <1>1, <2>1 DEF WriterKnows, DeleteKnows
    <2>3. id \notin IdsOf(Content)
      BY <2>1, <2>2, ContentMembers DEF IdsOf, LiveInList, Listed
    <2>4. Content' = Content
      BY <2>1 DEF Content, LiveIn
    <2> QED
      BY <1>1, <2>3, <2>4
  <1>3. CASE DeleteFromBuffer
    <2>1. /\ UNCHANGED <<sealing, segments, data, tombs, taken>> /\ taken = {}
          /\ id \in IdsOf(buffer) /\ buffer' = { r \in buffer : r[1] # id }
      BY <1>0, <1>1, <1>3 DEF DeleteFromBuffer, GoTo, WriterKnows
    <2>2. \A o \in Listed : \A q \in LiveIn(o) : q[1] # id
      BY <1>0, <2>1 DEF LiveUnique, WriterHeld, IdsOf
    <2>3. \A q \in Content' : q[1] # id
      BY <2>1, <2>2 DEF Content, LiveIn, Listed
    <2> QED
      BY <1>1, <2>3 DEF IdsOf
  <1>4. ASSUME NEW list \in SUBSET Listed, Bury(list), id \notin IdsOf(buffer), taken = {},
               UNCHANGED <<buffer, sealing, segments, data, taken>>
        PROVE  \E o \in list : /\ IsNewest(o, Holding(list, id))
                               /\ \A q \in Content' : q[1] = id =>
                                      \E p \in Listed : p # o /\ q \in LiveIn(p)
    <2>1. PICK o \in list : /\ IsNewest(o, Holding(list, id))
                            /\ tombs' = [tombs EXCEPT ![o] = @ \cup {id}]
      BY <1>1, <1>4 DEF Bury
    <2>2. /\ \A q \in LiveIn(o)' : q[1] # id
          /\ \A p \in Listed : p # o => LiveIn(p)' = LiveIn(p)
      <3>1. o \in Obj /\ tombs \in [Obj -> SUBSET Ids] /\ Listed \subseteq Obj
        BY <1>0, <2>1, ListedAllocated DEF ListsTypeOK, Listed
      <3> QED
        BY <1>4, <2>1, <3>1 DEF LiveIn
    <2>3. \A q \in Content' : q[1] = id => \E p \in Listed : q \in LiveIn(p)'
      BY <1>4 DEF Content, Listed, IdsOf
    <2> QED
      BY <2>1, <2>2, <2>3
  <1>5. CASE DeleteFromSealing
    <2>1. /\ Bury(sealing) /\ wpc = "del_sealing"
          /\ UNCHANGED <<buffer, sealing, segments, data, taken>>
      BY <1>5 DEF DeleteFromSealing, GoTo
    <2>2. taken = {} /\ id \notin IdsOf(buffer)
      BY <1>0, <1>1, <2>1 DEF WriterKnows, DeleteKnows
    <2>3. PICK o \in sealing : /\ IsNewest(o, Holding(sealing, id))
                               /\ \A q \in Content' : q[1] = id =>
                                      \E p \in Listed : p # o /\ q \in LiveIn(p)
      BY <1>4, <2>1, <2>2 DEF Listed
    <2>4. PICK y \in data[o] : y[1] = id
      BY <2>3 DEF IsNewest, Holding, IdsOf
    <2>5. ASSUME NEW q \in Content', q[1] = id
          PROVE  FALSE
      <3>1. PICK p \in Listed : p # o /\ q \in LiveIn(p)
        BY <2>3, <2>5
      <3>2. o \in Listed /\ q \in Content /\ q \in data[p]
        BY <2>3, <3>1, Numbers DEF Listed
      <3>3. p \in segments \/ p < o
        <4>1. CASE p \in sealing
          <5>1. p \in Holding(sealing, id)
            BY <2>5, <3>2, <4>1 DEF Holding, IdsOf
          <5>2. p <= o
            BY <2>3, <5>1 DEF IsNewest
          <5> QED
            BY <3>1, <3>2, <5>2, Numbers
        <4> QED
          BY <3>1, <4>1 DEF Listed
      <3>4. q[2] < y[2]
        BY <1>0, <2>3, <2>4, <2>5, <3>1, <3>2, <3>3 DEF CopiesOrdered
      <3>5. q[2] = inserted[id] /\ y[2] <= inserted[id]
        BY <1>0, <2>4, <2>5, <3>2 DEF CopiesSound
      <3>6. q[2] \in Nat /\ y[2] \in Nat
        BY <2>4, <3>2, Numbers
      <3> QED
        BY <3>4, <3>5, <3>6
    <2> QED
      BY <1>1, <2>5 DEF IdsOf
  <1>6. CASE DeleteFromSegments
    <2>1. /\ wpc = "del_segments" /\ UNCHANGED <<buffer, sealing, segments, data, taken>>
          /\ IF Holding(segments, id) # {} THEN Bury(segments) ELSE UNCHANGED tombs
      BY <1>1, <1>6 DEF DeleteFromSegments
    <2>2. taken = {} /\ id \notin IdsOf(buffer) /\ ~LiveInList(sealing, id)
      BY <1>0, <1>1, <2>1 DEF WriterKnows, DeleteKnows
    <2>3. CASE Holding(segments, id) = {}
      <3>1. ~LiveInList(segments, id)
        BY <2>3 DEF LiveInList, Holding, LiveIn, IdsOf
      <3>2. id \notin IdsOf(Content)
        BY <2>2, <3>1, ContentMembers DEF IdsOf, LiveInList, Listed
      <3>3. Content' = Content
        BY <2>1, <2>3 DEF Content, LiveIn
      <3> QED
        BY <1>1, <3>2, <3>3
    <2>4. CASE Holding(segments, id) # {}
      <3>1. PICK o \in segments : /\ IsNewest(o, Holding(segments, id))
                                  /\ \A q \in Content' : q[1] = id =>
                                         \E p \in Listed : p # o /\ q \in LiveIn(p)
        BY <1>4, <2>1, <2>2, <2>4 DEF Listed
      <3>2. PICK y \in data[o] : y[1] = id
        BY <3>1 DEF IsNewest, Holding, IdsOf
      <3>3. ASSUME NEW q \in Content', q[1] = id, CopiesInOrder(id)
            PROVE  FALSE
        <4>1. PICK p \in Listed : p # o /\ q \in LiveIn(p)
          BY <3>1, <3>3
        <4>2. o \in Listed /\ q \in Content /\ q \in data[p]
          BY <3>1, <4>1, Numbers DEF Listed
        <4>3. p \in segments
          BY <2>2, <3>3, <4>1 DEF LiveInList, IdsOf, Listed
        <4>4. p < o
          <5>1. p \in Holding(segments, id)
            BY <3>3, <4>2, <4>3 DEF Holding, IdsOf
          <5>2. p <= o
            BY <3>1, <5>1 DEF IsNewest
          <5> QED
            BY <4>1, <4>2, <5>2, Numbers
        <4>5. q[2] <= y[2]
          BY <3>1, <3>2, <3>3, <4>2, <4>3, <4>4 DEF CopiesInOrder
        <4>6. q[2] = inserted[id] /\ y[2] <= inserted[id]
          BY <1>0, <3>2, <3>3, <4>2 DEF CopiesSound
        <4>7. q[2] \in Nat /\ y[2] \in Nat
          BY <3>2, <4>2, Numbers
        <4>8. q[2] = y[2]
          BY <4>5, <4>6, <4>7
        <4>9. q = <<q[1], q[2]>> /\ y = <<y[1], y[2]>>
          BY <1>0, <3>2, <4>1, <4>2, ListedAllocated DEF Record
        <4>10. q = y
          BY <3>2, <3>3, <4>8, <4>9
        <4> QED
          BY <1>0, <3>1, <3>2, <4>1, <4>2, <4>3, <4>10 DEF CopiesOrdered
      <3> QED
        BY <1>1, <3>3 DEF IdsOf
    <2> QED
      BY <2>3, <2>4
  <1>7. CASE ContainsBuffer \/ ContainsSealing
    BY <1>7 DEF ContainsBuffer, ContainsSealing, Found, GoTo
  <1>8. CASE ValidateBuffer \/ ValidateSealing \/ ValidateSegments \/ ApplyInsert \/ Stall
             \/ CheckpointWrite
    BY <1>0, <1>8 DEF ValidateBuffer, ValidateSealing, ValidateSegments, Check, ApplyInsert, Stall,
                      CheckpointWrite, RequestKnows, WaitPC
  <1>9. CASE SealSwap \/ SealPush \/ SealSpawn
    BY <1>9 DEF SealSwap, SealPush, SealSpawn, GoTo, AfterSeal
  <1>10. CASE WaitSeal \/ WaitQueue \/ WaitMerge \/ CheckSeal \/ CheckQueue \/ CheckMerge
    BY <1>10 DEF WaitSeal, WaitQueue, WaitMerge, CheckSeal, CheckQueue, CheckMerge, Poll, GoTo
  <1>11. CASE Client
    BY <1>11 DEF Client, StartInsert, StartDelete, StartCheckpoint, Start
  <1>12. CASE ~Client /\ ~WriterStep
    BY <1>12, BackgroundSteps DEF writerVars
  <1> QED
    BY <1>2, <1>3, <1>5, <1>6, <1>7, <1>8, <1>9, <1>10, <1>11, <1>12 DEF WriterStep

(* An insert that found its id live left it so; one that put its record in *)
(* the buffer has it in the content still, whatever was sealed meanwhile.  *)
LEMMA InsertHolds ==
  ASSUME IInv, AnswerInv, [Next]_vars, wop = "insert", wpc # "idle", wpc' = "idle"
  PROVE  wid \in IdsOf(Content')
  <1>0. RequestKnows /\ InsertKnows
    BY DEF AnswerInv
  <1>1. CASE ValidateBuffer \/ ValidateSealing \/ ValidateSegments
    <2>1. UNCHANGED <<buffer, sealing, segments, data, tombs, taken>>
      BY <1>1 DEF ValidateBuffer, ValidateSealing, ValidateSegments, Check
    <2>2. wid \in IdsOf(buffer) \/ LiveInList(sealing, wid) \/ LiveInList(segments, wid)
      BY <1>1 DEF ValidateBuffer, ValidateSealing, ValidateSegments, Check, GoTo
    <2>3. wid \in IdsOf(Content)
      BY <2>2, ContentMembers DEF IdsOf, LiveInList, Listed
    <2>4. Content' = Content
      BY <2>1 DEF Content, LiveIn
    <2> QED
      BY <2>3, <2>4
  <1>2. CASE ApplyInsert
    <2>1. \/ wid \in IdsOf(buffer) /\ buffer' = buffer
          \/ <<wid, inserted[wid] + 1>> \in buffer'
      BY <1>2 DEF ApplyInsert
    <2>2. wid \in IdsOf(buffer')
      BY <2>1 DEF IdsOf
    <2> QED
      BY <2>2 DEF Content, IdsOf
  <1>3. CASE Stall
    <2>1. wpc = "stall"
      BY <1>3 DEF Stall
    <2> QED
      BY <1>0, <2>1, IdsKept DEF InsertKnows
  <1>4. CASE ContainsBuffer \/ ContainsSealing \/ ContainsSegments \/ DeleteFromBuffer
             \/ DeleteFromSealing \/ DeleteFromSegments \/ CheckpointWrite
    BY <1>0, <1>4 DEF ContainsBuffer, ContainsSealing, ContainsSegments, Found, DeleteFromBuffer,
                      DeleteFromSealing, DeleteFromSegments, CheckpointWrite, RequestKnows,
                      DeletePC, WaitPC
  <1>5. CASE SealSwap \/ SealPush \/ SealSpawn
    BY <1>5 DEF SealSwap, SealPush, SealSpawn, GoTo, AfterSeal
  <1>6. CASE WaitSeal \/ WaitQueue \/ WaitMerge \/ CheckSeal \/ CheckQueue \/ CheckMerge
    BY <1>6 DEF WaitSeal, WaitQueue, WaitMerge, CheckSeal, CheckQueue, CheckMerge, Poll, GoTo
  <1>7. CASE Client
    BY <1>7 DEF Client, StartInsert, StartDelete, StartCheckpoint, Start
  <1>8. CASE ~Client /\ ~WriterStep
    BY <1>8, BackgroundSteps DEF writerVars
  <1> QED
    BY <1>1, <1>2, <1>3, <1>4, <1>5, <1>6, <1>7, <1>8 DEF WriterStep

LEMMA AnswersStep == IInv /\ AnswerInv /\ [Next]_vars => [Answers(CopiesInOrder(wid))]_vars
  BY InsertHolds, DeleteHolds DEF Answers

(* AnswersHoldInOrder: a request that returned has done what it answered,  *)
(* whatever the background threads did meanwhile, except for the delete of *)
(* an id an old copy of which was merged behind a newer one.               *)
THEOREM AnswersInOrder == Spec => AnswersHoldInOrder
  <1>1. Init => AnswerInv
    BY AnswerInvInit
  <1>2. IInv /\ AnswerInv /\ [Next]_vars => AnswerInv'
    BY AnswerInvStep
  <1>3. IInv /\ AnswerInv /\ [Next]_vars => [Answers(CopiesInOrder(wid))]_vars
    BY AnswersStep
  <1> QED
    BY <1>1, <1>2, <1>3, Invariant, PTL DEF Spec, AnswersHoldInOrder
=============================================================================

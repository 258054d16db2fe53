------------------------------- MODULE Locks -------------------------------
(***************************************************************************)
(* The read-write locks of SegmentedIndex, and the order in which each of  *)
(* its operations takes them; the data is left out.  A thread runs a       *)
(* program, a sequence of steps on locks.  As in std::sync::RwLock on a    *)
(* futex, a reader waits while a writer holds the lock or waits for it.    *)
(*                                                                         *)
(* A lock under which no other is taken is always released again and is    *)
(* left out: the tombstones of an object, the log, StoredFile, the numeric *)
(* indexes, and then the posting lists, under which only those are locked. *)
(* A critical section that takes no other lock is one step.                *)
(***************************************************************************)
EXTENDS Naturals, FiniteSets, Sequences

CONSTANT Threads

VARIABLES
    program,    \* thread -> steps it has still to make
    holds,      \* thread -> pairs <<mode, lock>>
    waits       \* threads whose write() call waits, ahead of new readers

lockVars == <<program, holds, waits>>

(* A step: touch a lock (take and release it), hold it, or release it. *)
Touch(mode, lock) == <<[do |-> "touch", mode |-> mode, lock |-> lock]>>
Hold(mode, lock) == <<[do |-> "hold", mode |-> mode, lock |-> lock]>>
Release(mode, lock) == <<[do |-> "release", mode |-> mode, lock |-> lock]>>
Under(mode, lock, inner) == Hold(mode, lock) \o inner \o Release(mode, lock)

-----------------------------------------------------------------------------
(* The programs. *)

(* validate_insert, contains_live *)
LookUpLive == Touch("read", "buffer") \o Touch("read", "sealing") \o Touch("read", "segments")

InsertProgram == LookUpLive \o Touch("write", "buffer") \o Touch("write", "metadata")
DeleteProgram ==
    LookUpLive \o Touch("write", "buffer") \o Touch("read", "sealing") \o Touch("read", "segments")
    \o Touch("write", "metadata")
SealProgram == Touch("write", "buffer") \o Touch("write", "sealing")

(* checkpoint, once the background work is done *)
StoreProgram == Touch("read", "segments") \o Touch("read", "metadata")

(* Mutant: the queue is locked before the segment list. *)
BuildSealingFirst == Under("write", "sealing", Touch("write", "segments"))

(* build_one *)
BuildProgram == Under("write", "segments", Touch("write", "sealing"))

(* merge_smallest_pair_bg *)
MergeProgram == Touch("read", "segments") \o Touch("write", "segments")

Sources == Touch("read", "segments") \o Touch("read", "sealing") \o Touch("read", "buffer")
SearchProgram == Sources
LenProgram == Under("read", "segments", Touch("read", "sealing") \o Touch("read", "buffer"))
PostProgram == LenProgram \o Under("read", "metadata", Sources)
ScanProgram ==
    LenProgram \o Under("read", "metadata",
        Under("read", "buffer", Touch("read", "segments") \o Touch("read", "sealing")))

(* A filtered search counts first, in plan. *)
(* shape, in which both guards live to the end of the expression, and      *)
(* len_shared: what /stats calls                                           *)
StatsProgram == Under("read", "segments", Touch("read", "buffer")) \o LenProgram

-----------------------------------------------------------------------------
(* The locks. *)

Idle(t) == program[t] = <<>>
Acquires(t) == ~Idle(t) /\ Head(program[t]).do # "release"

HoldersOf(lock) == { t \in Threads : \E mode \in {"read", "write"} : <<mode, lock>> \in holds[t] }
WritersAt(lock) ==
    { t \in Threads : <<"write", lock>> \in holds[t] \/ (t \in waits /\ Head(program[t]).lock = lock) }

(* The threads t has to wait for. *)
BlockersOf(t) ==
    IF ~Acquires(t) THEN {}
    ELSE LET step == Head(program[t])
         IN  IF step.mode = "read" THEN WritersAt(step.lock) \ {t} ELSE HoldersOf(step.lock) \ {t}

LockInit ==
    /\ program = [t \in Threads |-> <<>>]
    /\ holds = [t \in Threads |-> {}]
    /\ waits = {}

Begin(t, steps) == Idle(t) /\ program' = [program EXCEPT ![t] = steps]

(* The thread makes its next step. *)
LockStep(t) ==
    /\ ~Idle(t)
    /\ BlockersOf(t) = {}
    /\ LET step == Head(program[t])
           held == <<step.mode, step.lock>>
       IN  holds' = [holds EXCEPT ![t] = CASE step.do = "touch" -> @
                                           [] step.do = "hold" -> @ \cup {held}
                                           [] step.do = "release" -> @ \ {held}]
    /\ program' = [program EXCEPT ![t] = Tail(@)]
    /\ waits' = waits \ {t}

(* A write() that does not get the lock at once waits in line for it. *)
Queue(t) ==
    /\ Acquires(t) /\ Head(program[t]).mode = "write"
    /\ BlockersOf(t) # {} /\ t \notin waits
    /\ waits' = waits \cup {t}
    /\ UNCHANGED <<program, holds>>

Run(t) == LockStep(t) \/ Queue(t)

-----------------------------------------------------------------------------
(* No set of threads waits for each other for ever: every waiting thread   *)
(* of such a set would have another one of it in its way.                  *)
NoWaitCycle ==
    \A stuck \in SUBSET { t \in Threads : BlockersOf(t) # {} } :
        stuck # {} => \E t \in stuck : BlockersOf(t) \cap stuck = {}
=============================================================================

------------------------------- MODULE Search -------------------------------
(***************************************************************************)
(* Unfiltered search (search_shared_with_ef) running beside the writer and *)
(* the background threads of Segments.  A reader clones the segment list,  *)
(* visits each segment under that segment's tombstone lock, clones the     *)
(* sealing list, visits it, and reads the buffer last; it holds no lock    *)
(* between two of these steps.                                             *)
(*                                                                         *)
(* The distance computation is left out: k and ef are taken large enough   *)
(* for every source to report all its live records, so that a record       *)
(* missing from an answer is missing because of the interleaving.          *)
(***************************************************************************)
EXTENDS Segments

CONSTANT Readers    \* search threads

VARIABLES
    rpc,        \* reader -> next step
    todo,       \* reader -> objects of the cloned list still to visit
    found,      \* reader -> `all`, the records collected so far
    (* What the properties compare an answer with: *)
    gone,       \* records whose delete has taken effect
    dead,       \* reader -> `gone` when its search began
    settled     \* reader -> records in a segment at its start and live since

readerVars == <<rpc, todo, found>>
ghostVars == <<gone, dead, settled>>
searchVars == <<vars, readerVars, ghostVars>>

InSegments == UNION { LiveIn(o) : o \in segments }

SearchInit ==
    /\ Init
    /\ rpc = [r \in Readers |-> "idle"]
    /\ todo = [r \in Readers |-> {}] /\ found = [r \in Readers |-> {}]
    /\ gone = {} /\ dead = [r \in Readers |-> {}] /\ settled = [r \in Readers |-> {}]

-----------------------------------------------------------------------------
(* The segment list is cloned under its read lock. *)
CloneSegments(r) ==
    /\ rpc[r] = "idle"
    /\ rpc' = [rpc EXCEPT ![r] = "segments"]
    /\ todo' = [todo EXCEPT ![r] = segments]
    /\ dead' = [dead EXCEPT ![r] = gone]
    /\ settled' = [settled EXCEPT ![r] = InSegments]
    /\ UNCHANGED <<vars, found, gone>>

(* Mutant: the shared list is looked up again at every visit. *)
VisitNextRelisted(r, here) ==
    /\ rpc[r] = here
    /\ \E o \in todo[r] :
           /\ IsOldest(o, todo[r])
           /\ IF o \in sealing \cup segments
                THEN found' = [found EXCEPT ![r] = @ \cup LiveIn(o)]
                ELSE UNCHANGED found
           /\ todo' = [todo EXCEPT ![r] = @ \ {o}]
    /\ UNCHANGED <<vars, rpc, ghostVars>>

(* One object of the cloned list, oldest first, tombstoned ids left out. *)
VisitNext(r, here) ==
    /\ rpc[r] = here
    /\ \E o \in todo[r] :
           /\ IsOldest(o, todo[r])
           /\ found' = [found EXCEPT ![r] = @ \cup LiveIn(o)]
           /\ todo' = [todo EXCEPT ![r] = @ \ {o}]
    /\ UNCHANGED <<vars, rpc, ghostVars>>

VisitSegment(r) == VisitNext(r, "segments")

(* sealing_snapshot *)
CloneSealing(r) ==
    /\ rpc[r] = "segments" /\ todo[r] = {}
    /\ rpc' = [rpc EXCEPT ![r] = "sealing"]
    /\ todo' = [todo EXCEPT ![r] = sealing]
    /\ UNCHANGED <<vars, found, ghostVars>>

VisitSealing(r) == VisitNext(r, "sealing")

ReadBuffer(r) ==
    /\ rpc[r] = "sealing" /\ todo[r] = {}
    /\ found' = [found EXCEPT ![r] = @ \cup buffer]
    /\ rpc' = [rpc EXCEPT ![r] = "dedup"]
    /\ UNCHANGED <<vars, todo, ghostVars>>

(* all.sort(), then the nearest copy of each id is kept: any of them, the  *)
(* query being arbitrary.                                                  *)
Deduplicate(r) ==
    /\ rpc[r] = "dedup"
    /\ \E answer \in SUBSET found[r] :
           /\ IdsOf(answer) = IdsOf(found[r])
           /\ \A x, y \in answer : x[1] = y[1] => x = y
           /\ found' = [found EXCEPT ![r] = answer]
    /\ rpc' = [rpc EXCEPT ![r] = "done"]
    /\ UNCHANGED <<vars, todo, ghostVars>>

Reply(r) ==
    /\ rpc[r] = "done"
    /\ rpc' = [rpc EXCEPT ![r] = "idle"]
    /\ found' = [found EXCEPT ![r] = {}]
    /\ dead' = [dead EXCEPT ![r] = {}]
    /\ settled' = [settled EXCEPT ![r] = {}]
    /\ UNCHANGED <<vars, todo, gone>>

ReaderStep(r) ==
    \/ CloneSegments(r) \/ VisitSegment(r) \/ CloneSealing(r) \/ VisitSealing(r)
    \/ ReadBuffer(r) \/ Deduplicate(r) \/ Reply(r)

(* A step of the index, watched by the searches under way. *)
Searching(r) == rpc[r] \in {"segments", "sealing"}
IndexStep ==
    /\ Next
    /\ gone' = gone \cup (Content \ Content')
    /\ settled' = [r \in Readers |-> IF Searching(r) THEN settled[r] \cap Content' ELSE settled[r]]
    /\ UNCHANGED <<readerVars, dead>>

SearchNext == IndexStep \/ \E r \in Readers : ReaderStep(r)
SearchSpec == SearchInit /\ [][SearchNext]_searchVars

-----------------------------------------------------------------------------
(* A record deleted before a search began is not in its answer: no build,   *)
(* merge, swap or carried tombstone set ever brings it back.               *)
NoResurrection == \A r \in Readers : rpc[r] = "done" => found[r] \cap dead[r] = {}

(* A record that was in a segment when the search began, and is not        *)
(* deleted while it runs, is in the answer, whatever merges replace the    *)
(* segment list under the reader and whatever copies of other ids or other *)
(* versions deduplication drops.                                           *)
SettledFound == \A r \in Readers : rpc[r] = "done" => settled[r] \subseteq found[r]
=============================================================================

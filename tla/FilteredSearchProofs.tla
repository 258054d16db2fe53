------------------------ MODULE FilteredSearchProofs ------------------------
(***************************************************************************)
(* The three indexes derived from the metadata agree with it and with the  *)
(* live records, for any metadata, any number of records and whatever the  *)
(* seal and merge threads and the searches do meanwhile; what a filtered   *)
(* search answers was not dead when it began, and matches; and what stays  *)
(* in place while it runs is answered, or K others are.                    *)
(***************************************************************************)
EXTENDS FilteredSearch, SegmentsProofs

(* What each structure, and the live record, has of one id. *)
PostingsOf(id) == { f \in Facts : <<f, id>> \in postings }
NumbersOf(id) == { f \in Facts : <<f, id>> \in numeric }
LiveFactsOf(id) == { f \in Facts : \E r \in Content : r[1] = id /\ f \in FactsOf[r] }

(* The facts of one id: live, in the posting lists, the numeric fields and *)
(* the metadata store.                                                     *)
Has(id, live, posted, numbers, stored) ==
    /\ LiveFactsOf(id) = live
    /\ PostingsOf(id) = posted
    /\ NumbersOf(id) = numbers \cap NumberFacts
    /\ metadata[id] = stored

Settled(id) == LET live == LiveFactsOf(id) IN Has(id, live, live, live, live)

(* How far the writer's walk has come with the id it is at. *)
Walked(id, facts) ==
    /\ work.pc = "ins_postings" => Has(id, facts, {}, {}, {})
    /\ work.pc = "ins_numeric" => Has(id, facts, facts, {}, {})
    /\ work.pc = "ins_metadata" => Has(id, facts, facts, facts, {})
    /\ work.pc = "del_metadata" => Has(id, {}, metadata[id], metadata[id], metadata[id])
    /\ work.pc = "del_postings" => Has(id, {}, facts, facts, {})
    /\ work.pc = "del_numeric" => Has(id, {}, {}, facts, {})

DerivedTypeOK ==
    /\ postings \subseteq Facts \X Ids
    /\ numeric \subseteq NumberFacts \X Ids
    /\ metadata \in [Ids -> SUBSET Facts]
    /\ work \in [pc : {"none", "ins_postings", "ins_numeric", "ins_metadata",
                       "del_metadata", "del_postings", "del_numeric"},
                 id : Ids \cup {NoId}, facts : SUBSET Facts]
    /\ work.pc # "none" => work.id \in Ids

WalkInv ==
    /\ \A id \in Ids : work.pc = "none" \/ id # work.id => Settled(id)
    /\ work.pc # "none" => Walked(work.id, work.facts)

(* A writer that deletes does so for a delete request. *)
DeleteRequested ==
    wpc \in {"live_buffer", "live_sealing", "live_segments",
             "del_buffer", "del_sealing", "del_segments"} => wop = "delete"

DerivedInv == IInv /\ DeleteRequested /\ DerivedTypeOK /\ WalkInv

USE DEF vars, objectVars, writerVars, sealerVars, mergerVars, filteredVars, derivedVars, ghosts

-----------------------------------------------------------------------------
(* The steps of the index below are those of Segments. *)

LEMMA BackgroundKeeps ==
  ASSUME BackgroundStep
  PROVE  [Next]_vars /\ UNCHANGED <<inserted, writerVars, derivedVars, work>>
  <1>1. [Next]_vars /\ UNCHANGED <<derivedVars, work>>
    BY DEF BackgroundStep, Next
  <1>2. ASSUME NEW t \in SealThreads, SealerStep(t)
        PROVE  UNCHANGED <<inserted, writerVars>>
    BY <1>2 DEF SealerStep, TakeNext, BuildOne, MergeNeeded, MergeSpawn, SealRelease,
                SealRecheck, SealReclaim, SealerIdle
  <1>3. ASSUME NEW t \in MergeThreads, MergerStep(t)
        PROVE  UNCHANGED <<inserted, writerVars>>
    BY <1>3 DEF MergerStep, MergeWhile, PickVictims, SnapshotA, SnapshotB, MergeSwap,
                MergeRelease, MergeRecheck, MergeReclaim, MergerIdle
  <1> QED
    BY <1>1, <1>2, <1>3 DEF BackgroundStep

(* The searches, and the walk over the derived indexes, leave the records. *)
LEMMA FilteredSteps ==
  ASSUME [FilteredNext]_filteredVars
  PROVE  \/ VectorStep /\ [Next]_vars
         \/ BackgroundStep
         \/ MetadataStep
         \/ UNCHANGED <<vars, derivedVars, work>>
  <1>1. CASE IndexStep
    BY <1>1 DEF IndexStep, VectorStep, Next
  <1>2. CASE QueryStep
    BY <1>2 DEF QueryStep
  <1> QED
    BY <1>1, <1>2 DEF FilteredNext

LEMMA FilteredImplementsNext == [FilteredNext]_filteredVars => [Next]_vars
  BY FilteredSteps, BackgroundKeeps DEF MetadataStep

LEMMA DeleteRequestedStep ==
  ASSUME DeleteRequested, [Next]_vars
  PROVE  DeleteRequested'
  <1> USE DEF DeleteRequested, GoTo, Return
  <1>1. CASE Client
    BY <1>1 DEF Client, StartInsert, StartDelete, StartCheckpoint, Start
  <1>2. CASE WriterStep
    BY <1>2 DEF WriterStep, ValidateBuffer, ValidateSealing, ValidateSegments, Check, ApplyInsert,
                ContainsBuffer, ContainsSealing, ContainsSegments, Found,
                DeleteFromBuffer, DeleteFromSealing, DeleteFromSegments,
                SealSwap, SealPush, SealSpawn, AfterSeal, Stall,
                WaitSeal, WaitQueue, WaitMerge, CheckSeal, CheckQueue, CheckMerge, Poll,
                CheckpointWrite
  <1>3. ASSUME NEW t \in SealThreads, SealerStep(t)
        PROVE  UNCHANGED writerVars
    BY <1>3 DEF SealerStep, TakeNext, BuildOne, MergeNeeded, MergeSpawn, SealRelease,
                SealRecheck, SealReclaim, SealerIdle
  <1>4. ASSUME NEW t \in MergeThreads, MergerStep(t)
        PROVE  UNCHANGED writerVars
    BY <1>4 DEF MergerStep, MergeWhile, PickVictims, SnapshotA, SnapshotB, MergeSwap,
                MergeRelease, MergeRecheck, MergeReclaim, MergerIdle
  <1> QED
    BY <1>1, <1>2, <1>3, <1>4 DEF Next

-----------------------------------------------------------------------------
(* What the steps of the vectors do to the facts of the live records. *)

LEMMA InsertedFacts ==
  ASSUME IInv, Inserting, NEW w, w = wid, NEW facts, facts = FactsOf[<<wid, inserted'[wid]>>]
  PROVE  /\ LiveFactsOf(w) = {}
         /\ inserted' # inserted
         /\ LiveFactsOf(w)' = facts
         /\ facts \subseteq Facts
         /\ \A id \in Ids : id # w => LiveFactsOf(id)' = LiveFactsOf(id)
  <1>1. PICK r \in Record :
           /\ r = <<w, inserted[w] + 1>> /\ Content' = Content \cup {r}
           /\ w \in Ids /\ \A x \in Content : x[1] # w
    BY DEF Inserting, IdsOf, Record
  <1>2. inserted \in [Ids -> 0 .. InsertsPerId]
    BY DEF IInv, TypeOK, ListsTypeOK
  <1>3. inserted'[w] = inserted[w] + 1 /\ inserted' # inserted
    BY <1>1, <1>2, BoundsAssumption DEF Inserting
  <1>4. facts = FactsOf[r] /\ facts \subseteq Facts /\ r[1] = w
    BY <1>1, <1>3, FilterAssumption
  <1>5. LiveFactsOf(w) = {}
    BY <1>1 DEF LiveFactsOf
  <1>6. LiveFactsOf(w)' = facts
    BY <1>1, <1>4 DEF LiveFactsOf
  <1>7. \A id \in Ids : id # w => LiveFactsOf(id)' = LiveFactsOf(id)
    BY <1>1, <1>4 DEF LiveFactsOf
  <1> QED
    BY <1>3, <1>4, <1>5, <1>6, <1>7

LEMMA RemovedFacts ==
  ASSUME IInv, Removing, NEW w, w = wid
  PROVE  /\ Content' # Content
         /\ LiveFactsOf(w)' = {}
         /\ \A id \in Ids : id # w => LiveFactsOf(id)' = LiveFactsOf(id)
  <1>1. PICK v \in Vectors : <<w, v>> \in Content /\ Content' = Content \ {<<w, v>>}
    BY DEF Removing, AbstractStore!Delete
  <1>2. \A x \in Content : x[1] = w <=> x = <<w, v>>
    BY <1>1, ContentTyped
  <1>3. Content' # Content
    BY <1>1
  <1>4. LiveFactsOf(w)' = {}
    BY <1>1, <1>2 DEF LiveFactsOf
  <1>5. \A id \in Ids : id # w => LiveFactsOf(id)' = LiveFactsOf(id)
    BY <1>1, <1>2 DEF LiveFactsOf
  <1> QED
    BY <1>3, <1>4, <1>5

LEMMA VectorStepKeeps ==
  ASSUME DerivedInv, VectorStep, [Next]_vars
  PROVE  DerivedTypeOK' /\ WalkInv'
  <1>0. /\ work.pc = "none" /\ \A id \in Ids : Settled(id)
        /\ UNCHANGED <<metadata, postings, numeric>>
        /\ work' = NextWork
    BY DEF VectorStep, DerivedInv, WalkInv
  <1>1. \A id \in Ids : UNCHANGED <<PostingsOf(id), NumbersOf(id), metadata[id]>>
    BY <1>0 DEF PostingsOf, NumbersOf
  <1>2. \A id \in Ids : LiveFactsOf(id)' = LiveFactsOf(id) => Settled(id)'
    BY <1>0, <1>1 DEF Settled, Has
  <1>3. NoWork.pc = "none" /\ {} \in SUBSET Facts
    BY DEF NoWork
  <1>4. ASSUME work' = NoWork PROVE DerivedTypeOK'
    BY <1>0, <1>4 DEF DerivedInv, DerivedTypeOK, NoWork
  <1>5. CASE Inserting
    <2>0. PICK w, facts : w = wid /\ facts = FactsOf[<<wid, inserted'[wid]>>]
      OBVIOUS
    <2>1. /\ LiveFactsOf(w) = {} /\ inserted' # inserted /\ w \in Ids
          /\ LiveFactsOf(w)' = facts /\ facts \subseteq Facts
          /\ \A id \in Ids : id # w => LiveFactsOf(id)' = LiveFactsOf(id)
      BY <1>5, <2>0, InsertedFacts DEF DerivedInv, Inserting
    <2>2. \A id \in Ids : id # w => Settled(id)'
      BY <1>2, <2>1
    <2>3. CASE facts = {}
      <3>1. work' = NoWork
        BY <1>0, <2>0, <2>1, <2>3 DEF NextWork
      <3>2. Settled(w)'
        BY <1>2, <2>1, <2>3
      <3> QED
        BY <1>3, <1>4, <2>2, <3>1, <3>2 DEF WalkInv
    <2>4. CASE facts # {}
      <3>1. work' = [pc |-> "ins_postings", id |-> w, facts |-> facts]
        BY <1>0, <2>0, <2>1, <2>4 DEF NextWork
      <3>2. Has(w, facts, {}, {}, {})'
        BY <1>0, <1>1, <2>1 DEF Settled, Has
      <3>3. DerivedTypeOK'
        BY <1>0, <2>1, <3>1 DEF DerivedInv, DerivedTypeOK
      <3>4. Walked(w, facts)'
        BY <3>1, <3>2 DEF Walked
      <3> QED
        BY <2>2, <3>1, <3>3, <3>4 DEF WalkInv
    <2> QED
      BY <2>3, <2>4
  <1>6. CASE Removing
    <2>0. PICK w : w = wid
      OBVIOUS
    <2>1. /\ Content' # Content /\ inserted' = inserted /\ w \in Ids /\ wop = "delete"
          /\ LiveFactsOf(w)' = {}
          /\ \A id \in Ids : id # w => LiveFactsOf(id)' = LiveFactsOf(id)
      BY <1>6, <2>0, RemovedFacts DEF DerivedInv, Removing, DeleteRequested
    <2>2. \A id \in Ids : id # w => Settled(id)'
      BY <1>2, <2>1
    <2>3. work' = [pc |-> "del_metadata", id |-> w, facts |-> {}]
      BY <1>0, <2>0, <2>1 DEF NextWork
    <2>4. Has(w, {}, metadata[w], metadata[w], metadata[w])'
      BY <1>0, <1>1, <2>1 DEF Settled, Has
    <2>5. DerivedTypeOK'
      BY <1>0, <2>1, <2>3 DEF DerivedInv, DerivedTypeOK
    <2>6. Walked(w, {})'
      BY <2>3, <2>4 DEF Walked
    <2> QED
      BY <2>2, <2>3, <2>5, <2>6 DEF WalkInv
  <1>7. CASE Invisible
    <2>1. Content' = Content /\ inserted' = inserted
      BY <1>7 DEF Invisible
    <2>2. work' = NoWork /\ \A id \in Ids : LiveFactsOf(id)' = LiveFactsOf(id)
      BY <1>0, <2>1 DEF NextWork, LiveFactsOf
    <2> QED
      BY <1>2, <1>3, <1>4, <2>2 DEF WalkInv
  <1> QED
    BY <1>5, <1>6, <1>7, ContentSteps DEF DerivedInv

(* Nothing visible happens to the records, nor to the derived indexes. *)
LEMMA NothingKeeps ==
  ASSUME DerivedInv, UNCHANGED <<Content, metadata, postings, numeric, work>>
  PROVE  DerivedTypeOK' /\ WalkInv'
  <1>1. \A id \in Ids : UNCHANGED <<LiveFactsOf(id), PostingsOf(id), NumbersOf(id), metadata[id]>>
    BY DEF LiveFactsOf, PostingsOf, NumbersOf
  <1>2. \A id \in Ids : Settled(id) => Settled(id)'
    BY <1>1 DEF Settled, Has
  <1>3. \A id \in Ids : \A facts : Walked(id, facts) => Walked(id, facts)'
    BY <1>1 DEF Walked, Has
  <1> QED
    BY <1>2, <1>3 DEF DerivedInv, DerivedTypeOK, WalkInv

LEMMA BackgroundStepKeeps ==
  ASSUME DerivedInv, BackgroundStep
  PROVE  DerivedTypeOK' /\ WalkInv'
  <1>1. [Next]_vars /\ UNCHANGED <<inserted, wpc, metadata, postings, numeric, work>>
    BY BackgroundKeeps
  <1>2. ~Removing
    BY <1>1 DEF Removing
  <1>3. ~Inserting
    BY <1>1, InsertedFacts DEF DerivedInv
  <1>4. UNCHANGED Content
    BY <1>1, <1>2, <1>3, ContentSteps DEF DerivedInv, Invisible
  <1> QED
    BY <1>1, <1>4, NothingKeeps

-----------------------------------------------------------------------------
(* The writer's walk. *)

(* A step of it changes what the indexes have of the id it is at. *)
LEMMA WalkStep ==
  ASSUME DerivedInv, UNCHANGED Content, NEW w, w = work.id, work.pc # "none",
         \A id \in Ids : id # w => UNCHANGED <<PostingsOf(id), NumbersOf(id), metadata[id]>>,
         \/ work'.pc = "none" /\ Settled(w)'
         \/ work'.pc # "none" /\ work'.id = w /\ \E facts : work'.facts = facts /\ Walked(w, facts)'
  PROVE  WalkInv'
  <1>1. \A id \in Ids : LiveFactsOf(id)' = LiveFactsOf(id)
    BY DEF LiveFactsOf
  <1>2. \A id \in Ids : id # w => Settled(id)'
    BY <1>1 DEF DerivedInv, WalkInv, Settled, Has
  <1> QED
    BY <1>2 DEF WalkInv, Walked

LEMMA MetadataStepKeeps ==
  ASSUME DerivedInv, MetadataStep
  PROVE  DerivedTypeOK' /\ WalkInv'
  <1> PICK w, facts, numbers :
         w = work.id /\ facts = work.facts /\ numbers = facts \cap NumberFacts
    OBVIOUS
  <1>0. /\ DerivedTypeOK /\ w \in Ids /\ facts \subseteq Facts /\ work.pc # "none"
        /\ Walked(w, facts) /\ UNCHANGED Content
        /\ \A id \in Ids : LiveFactsOf(id)' = LiveFactsOf(id)
    <2>1. UNCHANGED Content
      BY DEF MetadataStep, Content, LiveIn
    <2>2. work.pc # "none"
      BY DEF MetadataStep, IndexPostings, IndexNumeric, IndexMetadata,
             RemoveMetadata, RemovePostings, RemoveNumeric
    <2> QED
      BY <2>1, <2>2 DEF DerivedInv, DerivedTypeOK, WalkInv, LiveFactsOf
  <1>1. CASE IndexPostings
    <2>1. /\ Has(w, facts, {}, {}, {}) /\ postings' = postings \cup Pairs(facts, w)
          /\ UNCHANGED <<metadata, numeric>> /\ work' = [work EXCEPT !.pc = "ins_numeric"]
      BY <1>0, <1>1 DEF IndexPostings, PostingInsert, WorkOn, Walked
    <2>2. DerivedTypeOK'
      BY <1>0, <2>1 DEF DerivedTypeOK, Pairs
    <2>3. work'.pc = "ins_numeric" /\ work'.id = w /\ work'.facts = facts
      BY <1>0, <2>1 DEF DerivedTypeOK
    <2>4. \A id \in Ids : id # w => UNCHANGED <<PostingsOf(id), NumbersOf(id), metadata[id]>>
      BY <2>1 DEF PostingsOf, NumbersOf, Pairs
    <2>5. PostingsOf(w)' = facts /\ NumbersOf(w)' = NumbersOf(w)
      BY <1>0, <2>1 DEF PostingsOf, NumbersOf, Pairs, Has
    <2>6. Walked(w, facts)'
      BY <1>0, <2>1, <2>3, <2>5 DEF Walked, Has
    <2> QED
      BY <1>0, <2>2, <2>3, <2>4, <2>6, WalkStep
  <1>2. CASE IndexNumeric
    <2>1. /\ Has(w, facts, facts, {}, {}) /\ numeric' = numeric \cup Pairs(numbers, w)
          /\ UNCHANGED <<metadata, postings>> /\ work' = [work EXCEPT !.pc = "ins_metadata"]
      BY <1>0, <1>2 DEF IndexNumeric, WorkOn, Walked
    <2>2. DerivedTypeOK'
      BY <1>0, <2>1 DEF DerivedTypeOK, Pairs
    <2>3. work'.pc = "ins_metadata" /\ work'.id = w /\ work'.facts = facts
      BY <1>0, <2>1 DEF DerivedTypeOK
    <2>4. \A id \in Ids : id # w => UNCHANGED <<PostingsOf(id), NumbersOf(id), metadata[id]>>
      BY <2>1 DEF PostingsOf, NumbersOf, Pairs
    <2>5. PostingsOf(w)' = PostingsOf(w) /\ NumbersOf(w)' = numbers
      BY <1>0, <2>1 DEF PostingsOf, NumbersOf, Pairs, Has
    <2>6. Walked(w, facts)'
      BY <1>0, <2>1, <2>3, <2>5 DEF Walked, Has
    <2> QED
      BY <1>0, <2>2, <2>3, <2>4, <2>6, WalkStep
  <1>3. CASE IndexMetadata
    <2>1. /\ Has(w, facts, facts, facts, {}) /\ metadata' = [metadata EXCEPT ![w] = facts]
          /\ UNCHANGED <<postings, numeric>> /\ work' = NoWork
      BY <1>0, <1>3 DEF IndexMetadata, Walked
    <2>2. DerivedTypeOK'
      BY <1>0, <2>1 DEF DerivedTypeOK, NoWork
    <2>3. metadata'[w] = facts /\ work'.pc = "none"
      BY <1>0, <2>1 DEF DerivedTypeOK, NoWork
    <2>4. \A id \in Ids : id # w => UNCHANGED <<PostingsOf(id), NumbersOf(id), metadata[id]>>
      BY <1>0, <2>1 DEF PostingsOf, NumbersOf, DerivedTypeOK
    <2>5. PostingsOf(w)' = PostingsOf(w) /\ NumbersOf(w)' = NumbersOf(w)
      BY <2>1 DEF PostingsOf, NumbersOf
    <2>6. Settled(w)'
      BY <1>0, <2>1, <2>3, <2>5 DEF Settled, Has
    <2> QED
      BY <1>0, <2>2, <2>3, <2>4, <2>6, WalkStep
  <1>4. CASE RemoveMetadata
    <2>1. /\ Has(w, {}, metadata[w], metadata[w], metadata[w])
          /\ metadata' = [metadata EXCEPT ![w] = {}]
          /\ UNCHANGED <<postings, numeric>>
          /\ work' = IF metadata[w] = {} THEN NoWork
                     ELSE [work EXCEPT !.pc = "del_postings", !.facts = metadata[w]]
      BY <1>0, <1>4 DEF RemoveMetadata, Walked
    <2>2. DerivedTypeOK'
      BY <1>0, <2>1 DEF DerivedTypeOK, NoWork
    <2>3. metadata'[w] = {}
      BY <1>0, <2>1 DEF DerivedTypeOK
    <2>4. \A id \in Ids : id # w => UNCHANGED <<PostingsOf(id), NumbersOf(id), metadata[id]>>
      BY <1>0, <2>1 DEF PostingsOf, NumbersOf, DerivedTypeOK
    <2>5. PostingsOf(w)' = PostingsOf(w) /\ NumbersOf(w)' = NumbersOf(w)
      BY <2>1 DEF PostingsOf, NumbersOf
    <2>6. CASE metadata[w] = {}
      <3>1. work'.pc = "none"
        BY <2>1, <2>6 DEF NoWork
      <3>2. Settled(w)'
        BY <1>0, <2>1, <2>3, <2>5, <2>6 DEF Settled, Has
      <3> QED
        BY <1>0, <2>2, <2>4, <3>1, <3>2, WalkStep
    <2>7. CASE metadata[w] # {}
      <3>0. PICK removed : removed = metadata[w]
        OBVIOUS
      <3>1. work'.pc = "del_postings" /\ work'.id = w /\ work'.facts = removed
        BY <1>0, <2>1, <2>7, <3>0 DEF DerivedTypeOK
      <3>2. Walked(w, removed)'
        BY <1>0, <2>1, <2>3, <2>5, <3>0, <3>1 DEF Walked, Has
      <3> QED
        BY <1>0, <2>2, <2>4, <3>1, <3>2, WalkStep
    <2> QED
      BY <2>6, <2>7
  <1>5. CASE RemovePostings
    <2>1. /\ Has(w, {}, facts, facts, {}) /\ postings' = postings \ Pairs(facts, w)
          /\ UNCHANGED <<metadata, numeric>> /\ work' = [work EXCEPT !.pc = "del_numeric"]
      BY <1>0, <1>5 DEF RemovePostings, PostingRemove, WorkOn, Walked
    <2>2. DerivedTypeOK'
      BY <1>0, <2>1 DEF DerivedTypeOK, Pairs
    <2>3. work'.pc = "del_numeric" /\ work'.id = w /\ work'.facts = facts
      BY <1>0, <2>1 DEF DerivedTypeOK
    <2>4. \A id \in Ids : id # w => UNCHANGED <<PostingsOf(id), NumbersOf(id), metadata[id]>>
      BY <2>1 DEF PostingsOf, NumbersOf, Pairs
    <2>5. PostingsOf(w)' = {} /\ NumbersOf(w)' = NumbersOf(w)
      BY <1>0, <2>1 DEF PostingsOf, NumbersOf, Pairs, Has
    <2>6. Walked(w, facts)'
      BY <1>0, <2>1, <2>3, <2>5 DEF Walked, Has
    <2> QED
      BY <1>0, <2>2, <2>3, <2>4, <2>6, WalkStep
  <1>6. CASE RemoveNumeric
    <2>1. /\ Has(w, {}, {}, facts, {}) /\ numeric' = numeric \ Pairs(numbers, w)
          /\ UNCHANGED <<metadata, postings>> /\ work' = NoWork
      BY <1>0, <1>6 DEF RemoveNumeric, Walked
    <2>2. DerivedTypeOK'
      BY <1>0, <2>1 DEF DerivedTypeOK, NoWork
    <2>3. work'.pc = "none"
      BY <2>1 DEF NoWork
    <2>4. \A id \in Ids : id # w => UNCHANGED <<PostingsOf(id), NumbersOf(id), metadata[id]>>
      BY <2>1 DEF PostingsOf, NumbersOf, Pairs
    <2>5. PostingsOf(w)' = PostingsOf(w) /\ NumbersOf(w)' = {}
      BY <1>0, <2>1 DEF PostingsOf, NumbersOf, Pairs, Has
    <2>6. Settled(w)'
      BY <1>0, <2>1, <2>5 DEF Settled, Has
    <2> QED
      BY <1>0, <2>2, <2>3, <2>4, <2>6, WalkStep
  <1> QED
    BY <1>1, <1>2, <1>3, <1>4, <1>5, <1>6 DEF MetadataStep

-----------------------------------------------------------------------------
LEMMA DerivedInit == FilteredInit => DerivedInv
  <1> SUFFICES ASSUME FilteredInit PROVE DerivedInv
    OBVIOUS
  <1>1. IInv
    BY InitInv DEF FilteredInit
  <1>2. DeleteRequested
    BY DEF FilteredInit, Init, DeleteRequested
  <1>3. Content = {}
    BY DEF FilteredInit, Init, Content
  <1>4. DerivedTypeOK
    BY DEF FilteredInit, DerivedTypeOK, NoWork
  <1>5. \A id \in Ids : LiveFactsOf(id) = {} /\ PostingsOf(id) = {} /\ NumbersOf(id) = {}
    BY <1>3 DEF FilteredInit, LiveFactsOf, PostingsOf, NumbersOf
  <1>6. WalkInv
    BY <1>5 DEF FilteredInit, WalkInv, Settled, Has, NoWork
  <1> QED
    BY <1>1, <1>2, <1>4, <1>6 DEF DerivedInv

LEMMA DerivedStep == DerivedInv /\ [FilteredNext]_filteredVars => DerivedInv'
  <1> SUFFICES ASSUME DerivedInv, [FilteredNext]_filteredVars PROVE DerivedInv'
    OBVIOUS
  <1>1. IInv' /\ DeleteRequested'
    BY FilteredImplementsNext, StepInv, DeleteRequestedStep DEF DerivedInv
  <1> SUFFICES DerivedTypeOK' /\ WalkInv'
    BY <1>1 DEF DerivedInv
  <1>2. CASE VectorStep /\ [Next]_vars
    BY <1>2, VectorStepKeeps
  <1>3. CASE BackgroundStep
    BY <1>3, BackgroundStepKeeps
  <1>4. CASE MetadataStep
    BY <1>4, MetadataStepKeeps
  <1>5. CASE UNCHANGED <<vars, derivedVars, work>>
    <2>1. UNCHANGED Content
      BY <1>5 DEF Content, LiveIn
    <2> QED
      BY <1>5, <2>1, NothingKeeps
  <1> QED
    BY <1>2, <1>3, <1>4, <1>5, FilteredSteps

(* Between the writer's walks every index is what the live records say. *)
LEMMA SettledAgree ==
  ASSUME DerivedInv, work.pc = "none"
  PROVE  /\ postings = UNION { Pairs(FactsOf[r], r[1]) : r \in Content }
         /\ numeric = NumberPairs(postings)
         /\ StoreFacts = postings
  <1>0. /\ postings \subseteq Facts \X Ids /\ numeric \subseteq NumberFacts \X Ids
        /\ metadata \in [Ids -> SUBSET Facts] /\ NumberFacts \subseteq Facts
    BY DEF DerivedInv, DerivedTypeOK, Facts
  <1>1. \A id \in Ids : \A f \in Facts :
           /\ <<f, id>> \in postings <=> \E r \in Content : r[1] = id /\ f \in FactsOf[r]
           /\ <<f, id>> \in numeric <=> <<f, id>> \in postings /\ f \in NumberFacts
           /\ f \in metadata[id] <=> <<f, id>> \in postings
    <2> SUFFICES ASSUME NEW id \in Ids, NEW f \in Facts
                 PROVE  /\ <<f, id>> \in postings <=> \E r \in Content : r[1] = id /\ f \in FactsOf[r]
                        /\ <<f, id>> \in numeric <=> <<f, id>> \in postings /\ f \in NumberFacts
                        /\ f \in metadata[id] <=> <<f, id>> \in postings
      OBVIOUS
    <2>1. /\ f \in PostingsOf(id) <=> f \in LiveFactsOf(id)
          /\ f \in NumbersOf(id) <=> f \in LiveFactsOf(id) /\ f \in NumberFacts
          /\ f \in metadata[id] <=> f \in LiveFactsOf(id)
      BY DEF DerivedInv, WalkInv, Settled, Has
    <2> QED
      BY <2>1 DEF PostingsOf, NumbersOf, LiveFactsOf
  <1>2. \A r \in Content : r[1] \in Ids /\ FactsOf[r] \subseteq Facts
    BY ContentTyped, FilterAssumption DEF DerivedInv, Record
  <1>3. \A p : p \in postings <=> p \in UNION { Pairs(FactsOf[r], r[1]) : r \in Content }
    <2>1. ASSUME NEW p \in postings
          PROVE  p \in UNION { Pairs(FactsOf[r], r[1]) : r \in Content }
      BY <1>0, <1>1, <2>1 DEF Pairs
    <2>2. ASSUME NEW r \in Content, NEW p \in Pairs(FactsOf[r], r[1])
          PROVE  p \in postings
      BY <1>1, <1>2, <2>2 DEF Pairs
    <2> QED
      BY <2>1, <2>2
  <1>4. \A p : p \in numeric <=> p \in NumberPairs(postings)
    BY <1>0, <1>1 DEF NumberPairs
  <1>5. \A p : p \in StoreFacts <=> p \in postings
    <2>1. ASSUME NEW p \in postings
          PROVE  p \in StoreFacts
      BY <1>0, <1>1, <2>1 DEF StoreFacts, Pairs
    <2>2. ASSUME NEW id \in Ids, NEW p \in Pairs(metadata[id], id)
          PROVE  p \in postings
      BY <1>0, <1>1, <2>2 DEF Pairs
    <2> QED
      BY <2>1, <2>2 DEF StoreFacts
  <1> QED
    BY <1>3, <1>4, <1>5

(* An entry of the metadata store is in the other two at all times. *)
LEMMA StoreIndexed ==
  ASSUME DerivedInv
  PROVE  StoreFacts \subseteq postings /\ NumberPairs(StoreFacts) \subseteq numeric
  <1>1. ASSUME NEW id \in Ids
        PROVE  metadata[id] \subseteq PostingsOf(id) /\ metadata[id] \cap NumberFacts \subseteq NumbersOf(id)
    <2>1. CASE work.pc = "none" \/ id # work.id
      BY <2>1 DEF DerivedInv, WalkInv, Settled, Has
    <2>2. CASE work.pc # "none" /\ id = work.id
      BY <2>2 DEF DerivedInv, DerivedTypeOK, WalkInv, Walked, Has
    <2> QED
      BY <2>1, <2>2
  <1>2. \A id \in Ids : \A p \in Pairs(metadata[id], id) :
           p \in postings /\ (p[1] \in NumberFacts => p \in numeric)
    BY <1>1 DEF Pairs, PostingsOf, NumbersOf
  <1> QED
    BY <1>2 DEF StoreFacts, NumberPairs

(* The planner may draw its candidates from any of the derived indexes: an *)
(* entry of the metadata store is in both others at every step of an       *)
(* insert and of a delete, and between two of them all three are exactly   *)
(* the facts of the live records.                                          *)
THEOREM IndexesAgree == FilteredSpec => []DerivedIndexesAgree
  <1>1. DerivedInv => DerivedIndexesAgree
    BY StoreIndexed, SettledAgree DEF DerivedIndexesAgree
  <1> QED
    BY <1>1, DerivedInit, DerivedStep, PTL DEF FilteredSpec

-----------------------------------------------------------------------------
(* Answers.  AnswersSound is about one state, the last of a search; the    *)
(* invariant says what the search may rely on in the states before it.     *)

(* A deleted record does not come back: an insert has a number of its own. *)
GoneForGood ==
    /\ gone \subseteq Record /\ gone \cap Content = {}
    /\ \A x \in gone : x[2] <= inserted[x[1]]
    /\ dead \subseteq gone /\ retired \subseteq gone

(* What is left in the indexes during a delete are facts of the version    *)
(* that is being deleted, which no search counts as retired yet.           *)
Dying == <<work.id, inserted[work.id]>>
DeleteUnderWay ==
    Deleting =>
        /\ Dying \in Record \ retired
        /\ work.id \notin IdsOf(Content)
        /\ metadata[work.id] \subseteq FactsOf[Dying]
        /\ work.facts \subseteq FactsOf[Dying]

(* Where a search is, and what its local variables hold there. *)
Planning == q.pc \in {"idle", "shortcut", "len_segments", "len_sealing", "len_buffer",
                      "plan", "plan_ranges", "walk", "fallback", "scan"}
Walking == q.pc \in {"segments", "sealing"}
QueryTyped ==
    /\ q = [pc |-> q.pc, filter |-> q.filter, arm |-> q.arm, est |-> q.est, n |-> q.n,
            cand |-> q.cand, todo |-> q.todo, listed |-> q.listed, pool |-> q.pool]
    /\ q.pc = "idle" \/ q.filter \in Filters
    /\ q.todo \subseteq Allocated /\ q.listed \subseteq Allocated
    /\ Planning => q.todo = {} /\ q.listed = {} /\ q.pool = {}
    /\ Walking => q.arm \in {"all", "post", "legacy"} /\ q.listed = {}
    /\ q.pc = "walk" => q.arm \in {"all", "post", "legacy"}
    /\ Scanning \/ q.pc = "scan" => q.arm = "scan"

(* Nothing that was dead at the start is collected, nor left to collect.   *)
NothingDead ==
    /\ q.pool \cap dead = {}
    /\ \A o \in q.todo \cup q.listed : LiveIn(o) \cap dead = {}

(* While the store is locked, what it has of a record left to visit is     *)
(* that version's own, and the candidates are those that match.            *)
TrueOf(r) == metadata[r[1]] \subseteq FactsOf[r]
StoreLocked ==
    /\ MetadataRead => \A o \in q.todo \cup q.listed : \A r \in LiveIn(o) : TrueOf(r)
    /\ Scanning /\ Predicates(q.filter) # 1 => \A id \in q.cand : MatchesId(id, q.filter)

(* The id had a matching version that was not retired. *)
Matched(id) ==
    /\ id \in Ids
    /\ \E n \in 1 .. inserted[id] : <<id, n>> \notin retired /\ MatchesRecord(<<id, n>>, q.filter)
AllMatch ==
    /\ q.arm # "all" /\ ~SingleScan => \A r \in q.pool : MatchesRecord(r, q.filter)
    /\ Predicates(q.filter) = 1 => \A id \in q.cand : Matched(id)
    /\ SingleScan => \A r \in q.pool : Matched(r[1])

QueryInv == QueryTyped /\ NothingDead /\ StoreLocked /\ AllMatch
SoundInv == DerivedInv /\ AnswerInv /\ GoneForGood /\ DeleteUnderWay /\ QueryInv

(* What the invariant says of the records and the indexes. *)

LEMMA ContentListed ==
  ASSUME IInv
  PROVE  /\ sealing \subseteq Allocated /\ segments \subseteq Allocated
         /\ \A o \in sealing \cup segments : LiveIn(o) \subseteq Content
         /\ buffer \subseteq Content
  BY DEF IInv, TypeOK, ListsTypeOK, Allocated, Content

LEMMA Unmoved ==
  ASSUME UNCHANGED <<vars, derivedVars, work>>
  PROVE  /\ Content' = Content /\ \A o : LiveIn(o)' = LiveIn(o)
         /\ Allocated' = Allocated
         /\ \A r : TrueOf(r)' = TrueOf(r)
         /\ \A id, filter : MatchesId(id, filter)' = MatchesId(id, filter)
         /\ \A o \in sealing \cup segments : LiveIn(o) \subseteq Content
         /\ buffer \subseteq Content
  BY DEF Content, LiveIn, Allocated, TrueOf, MatchesId

LEMMA TrueMatch ==
  ASSUME NEW r, TrueOf(r), NEW filter, MatchesId(r[1], filter)
  PROVE  MatchesRecord(r, filter)
  BY DEF TrueOf, MatchesId, MatchesRecord, Matches

(* A live record: its number, and what the store has of it. *)
LEMMA LiveRecord ==
  ASSUME DerivedInv, AnswerInv, DeleteUnderWay, NEW r \in Content
  PROVE  /\ r[1] \in Ids /\ r = <<r[1], inserted[r[1]]>> /\ r \in Record
         /\ inserted[r[1]] \in 1 .. InsertsPerId
         /\ TrueOf(r)
  <1>1. r[1] \in Ids /\ r[2] \in Vectors /\ r = <<r[1], r[2]>> /\ r[2] = inserted[r[1]]
    BY ContentTyped DEF DerivedInv, AnswerInv, CopiesSound
  <1>2. FactsOf[r] \subseteq Facts /\ \A x \in Content : x[1] = r[1] => x = r
    BY <1>1, ContentTyped, FilterAssumption DEF DerivedInv, Record
  <1>3. LiveFactsOf(r[1]) = FactsOf[r]
    BY <1>1, <1>2 DEF LiveFactsOf
  <1>4. metadata[r[1]] \subseteq FactsOf[r]
    <2>1. CASE work.pc = "none" \/ r[1] # work.id
      BY <1>1, <1>3, <2>1 DEF DerivedInv, WalkInv, Settled, Has
    <2>2. CASE work.pc # "none" /\ r[1] = work.id /\ ~Deleting
      <3>1. work.pc \in {"ins_postings", "ins_numeric", "ins_metadata"}
        BY <2>2 DEF DerivedInv, DerivedTypeOK, Deleting
      <3> QED
        BY <2>2, <3>1 DEF DerivedInv, WalkInv, Walked, Has
    <2>3. CASE r[1] = work.id /\ Deleting
      BY <2>3 DEF DeleteUnderWay, IdsOf
    <2> QED
      BY <2>1, <2>2, <2>3
  <1> QED
    BY <1>1, <1>4 DEF Record, Vectors, TrueOf

(* A fact in an index is one of a version that is live or being deleted. *)
LEMMA IndexedVersion ==
  ASSUME DerivedInv, AnswerInv, GoneForGood, DeleteUnderWay, NEW f, NEW id,
         <<f, id>> \in postings \/ <<f, id>> \in numeric
  PROVE  /\ id \in Ids
         /\ \E n \in 1 .. inserted[id] : <<id, n>> \notin retired /\ f \in FactsOf[<<id, n>>]
  <1>1. id \in Ids /\ f \in Facts
    BY DEF DerivedInv, DerivedTypeOK, Facts
  <1>2. inserted[id] \in Nat
    BY <1>1, Numbers DEF DerivedInv
  <1>3. f \in LiveFactsOf(id) \/ (Deleting /\ id = work.id /\ f \in metadata[id] \cup work.facts)
    <2>1. f \in PostingsOf(id) \cup NumbersOf(id)
      BY <1>1 DEF PostingsOf, NumbersOf
    <2>2. CASE work.pc = "none" \/ id # work.id
      BY <1>1, <2>1, <2>2 DEF DerivedInv, WalkInv, Settled, Has
    <2>3. CASE work.pc # "none" /\ id = work.id
      BY <1>1, <2>1, <2>3 DEF DerivedInv, DerivedTypeOK, WalkInv, Walked, Has, Deleting
    <2> QED
      BY <2>2, <2>3
  <1>4. CASE f \in LiveFactsOf(id)
    <2>1. PICK r \in Content : r[1] = id /\ f \in FactsOf[r]
      BY <1>4 DEF LiveFactsOf
    <2>2. r = <<id, inserted[id]>> /\ inserted[id] \in 1 .. InsertsPerId
      BY <2>1, LiveRecord
    <2>3. r \notin retired
      BY DEF GoneForGood
    <2>4. inserted[id] \in 1 .. inserted[id]
      BY <1>2, <2>2, BoundsAssumption
    <2> QED
      BY <1>1, <2>1, <2>2, <2>3, <2>4
  <1>5. CASE Deleting /\ id = work.id /\ f \in metadata[id] \cup work.facts
    <2>1. <<id, inserted[id]>> \in Record \ retired /\ f \in FactsOf[<<id, inserted[id]>>]
      BY <1>5 DEF DeleteUnderWay, Dying
    <2>2. inserted[id] \in 1 .. inserted[id]
      BY <1>2, <2>1, BoundsAssumption DEF Record, Vectors
    <2> QED
      BY <1>1, <2>1, <2>2
  <1> QED
    BY <1>3, <1>4, <1>5

(* For a single predicate an index answers ids with a matching version. *)
LEMMA CandidatesMatched ==
  ASSUME SoundInv, q.pc # "idle", Predicates(q.filter) = 1
  PROVE  /\ \A fact \in q.filter.eqs : \A id \in Posting(fact) : Matched(id)
         /\ \A range \in q.filter.ranges : \A id \in EnumerateRange(range) : Matched(id)
  <1>1. PICK filter \in Filters : filter = q.filter
    BY DEF SoundInv, QueryInv, QueryTyped
  <1>2. \/ \E fact : filter.eqs = {fact} /\ filter.ranges = {}
        \/ \E range : filter.eqs = {} /\ filter.ranges = {range}
    <2>1. IsFiniteSet(filter.eqs) /\ IsFiniteSet(filter.ranges)
      BY FilterAssumption
    <2>2. PICK m, n : m = Cardinality(filter.eqs) /\ n = Cardinality(filter.ranges)
      OBVIOUS
    <2>3. m \in Nat /\ n \in Nat /\ m + n = 1
      BY <1>1, <2>1, <2>2, FS_CardinalityType DEF Predicates
    <2>4. (m = 1 /\ n = 0) \/ (m = 0 /\ n = 1)
      BY <2>3
    <2>5. CASE m = 1 /\ n = 0
      <3>1. filter.ranges = {}
        BY ONLY <2>1, <2>2, <2>5, FS_EmptySet
      <3>2. \E fact : filter.eqs = {fact}
        BY ONLY <2>1, <2>2, <2>5, FS_Singleton
      <3> QED
        BY ONLY <3>1, <3>2
    <2>6. CASE m = 0 /\ n = 1
      <3>1. filter.eqs = {}
        BY ONLY <2>1, <2>2, <2>6, FS_EmptySet
      <3>2. \E range : filter.ranges = {range}
        BY ONLY <2>1, <2>2, <2>6, FS_Singleton
      <3> QED
        BY ONLY <3>1, <3>2
    <2> QED
      BY ONLY <2>4, <2>5, <2>6
  <1>3. DerivedInv /\ AnswerInv /\ GoneForGood /\ DeleteUnderWay
    BY DEF SoundInv
  <1>4. ASSUME NEW fact \in filter.eqs, NEW id \in Posting(fact)
        PROVE  Matched(id)
    <2>1. <<fact, id>> \in postings
      <3>1. PICK p \in postings : p[1] = fact /\ p[2] = id
        BY <1>4 DEF Posting
      <3>2. p = <<p[1], p[2]>>
        BY <1>3 DEF DerivedInv, DerivedTypeOK
      <3> QED
        BY <3>1, <3>2
    <2>2. PICK n \in 1 .. inserted[id] : <<id, n>> \notin retired /\ fact \in FactsOf[<<id, n>>]
      BY <1>3, <2>1, IndexedVersion
    <2>3. MatchesRecord(<<id, n>>, q.filter)
      BY <1>1, <1>2, <1>4, <2>2 DEF MatchesRecord, Matches
    <2> QED
      BY <1>3, <2>1, <2>2, <2>3, IndexedVersion DEF Matched
  <1>5. ASSUME NEW range \in filter.ranges, NEW id \in EnumerateRange(range)
        PROVE  Matched(id)
    <2>1. PICK p \in numeric : InRange(p[1], range) /\ p[2] = id
      BY <1>5 DEF EnumerateRange
    <2>2. PICK fact \in NumberFacts : fact = p[1] /\ <<fact, id>> \in numeric
      BY <1>3, <2>1 DEF DerivedInv, DerivedTypeOK
    <2>3. PICK n \in 1 .. inserted[id] : <<id, n>> \notin retired /\ fact \in FactsOf[<<id, n>>]
      BY <1>3, <2>2, IndexedVersion
    <2>4. MatchesRecord(<<id, n>>, q.filter)
      BY <1>1, <1>2, <1>5, <2>1, <2>2, <2>3 DEF MatchesRecord, Matches
    <2> QED
      BY <1>3, <2>2, <2>3, <2>4, IndexedVersion DEF Matched
  <1> QED
    BY <1>1, <1>4, <1>5

(* How the index moves under these: the records that are gone. *)
LEMMA GoneStep ==
  ASSUME IInv, AnswerInv, GoneForGood, [Next]_vars,
         gone' = gone \cup (Content \ Content'), UNCHANGED <<dead, retired>>
  PROVE  GoneForGood'
  <1>0. /\ \A x \in Content : x \in Record /\ x[1] \in Ids /\ x[2] = inserted[x[1]]
        /\ inserted \in [Ids -> 0 .. InsertsPerId] /\ \A id \in Ids : inserted[id] \in Nat
        /\ \A id \in Ids : inserted[id] <= inserted'[id]
    <2>1. \A x \in Content : x \in Record /\ x[1] \in Ids
      BY ContentTyped DEF Record
    <2> QED
      BY <2>1, Numbers, LastLiveStep DEF AnswerInv, CopiesSound, IInv, TypeOK, ListsTypeOK
  <1>1. \A id \in Ids : inserted'[id] \in Nat
    BY <1>0, ContentSteps DEF Inserting, Removing, Invisible
  <1>2. gone' \subseteq Record
    BY <1>0 DEF GoneForGood
  <1>3. gone \cap Content' = {}
    <2> SUFFICES ASSUME NEW x \in gone, x \in Content' PROVE FALSE
      OBVIOUS
    <2>1. x \notin Content /\ x \in Record /\ x[2] <= inserted[x[1]]
      BY DEF GoneForGood
    <2>2. CASE Inserting
      <3>1. PICK n : n = inserted[wid] + 1 /\ x = <<wid, n>> /\ wid \in Ids
        BY <2>1, <2>2 DEF Inserting
      <3> QED
        BY <1>0, <2>1, <3>1
    <2>3. CASE Removing
      BY <2>1, <2>3 DEF Removing, AbstractStore!Delete
    <2> QED
      BY <2>1, <2>2, <2>3, ContentSteps DEF Invisible
  <1>4. \A x \in gone' : x[2] <= inserted'[x[1]]
    <2> SUFFICES ASSUME NEW x \in gone' PROVE x[2] <= inserted'[x[1]]
      OBVIOUS
    <2>1. x[1] \in Ids /\ x[2] \in Nat
      BY <1>2 DEF Record, Vectors
    <2>2. x[2] <= inserted[x[1]]
      BY <1>0, <2>1 DEF GoneForGood
    <2> QED
      BY <1>0, <1>1, <2>1, <2>2
  <1> QED
    BY <1>2, <1>3, <1>4 DEF GoneForGood

(* A delete brings the version it removes under way. *)
LEMMA DyingBegins ==
  ASSUME SoundInv, Removing, work' = [pc |-> "del_metadata", id |-> wid, facts |-> {}],
         UNCHANGED <<metadata, retired>>
  PROVE  DeleteUnderWay'
  <1>1. PICK w : w = wid /\ w \in Ids /\ inserted' = inserted
    BY DEF Removing
  <1>2. PICK v \in Vectors : <<w, v>> \in Content /\ Content' = Content \ {<<w, v>>}
    BY <1>1 DEF Removing, AbstractStore!Delete
  <1>3. \A x \in Content : x[1] = w <=> x = <<w, v>>
    BY <1>2, ContentTyped DEF SoundInv, DerivedInv
  <1>4. PICK r : r = <<w, v>> /\ r \in Content /\ r = <<w, inserted[w]>> /\ r \in Record /\ TrueOf(r)
    BY <1>2, LiveRecord DEF SoundInv
  <1>5. Dying' = r /\ work'.id = w /\ work'.facts = {}
    BY <1>1, <1>4 DEF Dying
  <1>6. r \notin retired' /\ metadata'[w] \subseteq FactsOf[r]
    BY <1>4 DEF SoundInv, GoneForGood, TrueOf
  <1>7. w \notin IdsOf(Content)'
    BY <1>2, <1>3 DEF IdsOf
  <1> QED
    BY <1>4, <1>5, <1>6, <1>7 DEF DeleteUnderWay

LEMMA NextWorkDeletes ==
  ASSUME IInv, DeleteRequested, VectorStep, [Next]_vars, Deleting'
  PROVE  Removing /\ work' = [pc |-> "del_metadata", id |-> wid, facts |-> {}]
  <1>1. work' = NextWork /\ NoWork.pc = "none"
    BY DEF VectorStep, NoWork
  <1>2. inserted' = inserted /\ wop = "delete" /\ Content' # Content
    BY <1>1 DEF NextWork, Deleting, NoWork
  <1>3. work' = [pc |-> "del_metadata", id |-> wid, facts |-> {}]
    BY <1>1, <1>2 DEF NextWork
  <1>4. ~Inserting
    BY <1>2, InsertedFacts
  <1> QED
    BY <1>2, <1>3, <1>4, ContentSteps DEF Invisible

LEMMA DyingWalk ==
  ASSUME SoundInv, MetadataStep, UNCHANGED retired
  PROVE  DeleteUnderWay'
  <1>0. /\ DerivedTypeOK /\ DeleteUnderWay /\ UNCHANGED <<Content, inserted>>
        /\ work.pc # "none" /\ work.id \in Ids
    BY DEF SoundInv, DerivedInv, MetadataStep, Content, LiveIn, IndexPostings, IndexNumeric,
           IndexMetadata, RemoveMetadata, RemovePostings, RemoveNumeric, DerivedTypeOK
  <1>1. CASE IndexPostings \/ IndexNumeric \/ IndexMetadata \/ RemoveNumeric
    <2>1. ~Deleting'
      BY <1>0, <1>1 DEF IndexPostings, IndexNumeric, IndexMetadata, RemoveNumeric, WorkOn, NoWork,
                        Deleting, DerivedTypeOK
    <2> QED
      BY <2>1 DEF DeleteUnderWay
  <1>2. CASE RemoveMetadata
    <2>1. Deleting /\ metadata'[work.id] = {}
      BY <1>0, <1>2 DEF RemoveMetadata, Deleting, DerivedTypeOK
    <2>2. CASE metadata[work.id] = {}
      <3>1. ~Deleting'
        BY <1>2, <2>2 DEF RemoveMetadata, NoWork, Deleting
      <3> QED
        BY <3>1 DEF DeleteUnderWay
    <2>3. CASE metadata[work.id] # {}
      <3>1. work'.id = work.id /\ work'.facts = metadata[work.id]
        BY <1>0, <1>2, <2>3 DEF RemoveMetadata, DerivedTypeOK
      <3>2. Dying' = Dying /\ IdsOf(Content)' = IdsOf(Content)
        BY <1>0, <3>1 DEF Dying, IdsOf
      <3> QED
        BY <1>0, <2>1, <3>1, <3>2 DEF DeleteUnderWay
    <2> QED
      BY <2>2, <2>3
  <1>3. CASE RemovePostings
    <2>1. Deleting /\ metadata' = metadata
      BY <1>3 DEF RemovePostings, Deleting
    <2>2. work'.id = work.id /\ work'.facts = work.facts
      BY <1>0, <1>3 DEF RemovePostings, WorkOn, DerivedTypeOK
    <2>3. Dying' = Dying /\ IdsOf(Content)' = IdsOf(Content)
      BY <1>0, <2>2 DEF Dying, IdsOf
    <2> QED
      BY <1>0, <2>1, <2>2, <2>3 DEF DeleteUnderWay
  <1> QED
    BY <1>1, <1>2, <1>3 DEF MetadataStep

LEMMA BackgroundInvisible ==
  ASSUME DerivedInv, BackgroundStep
  PROVE  [Next]_vars /\ UNCHANGED <<Content, inserted, derivedVars, work>>
  <1>1. [Next]_vars /\ UNCHANGED <<inserted, wpc, derivedVars, work>>
    BY BackgroundKeeps
  <1>2. ~Removing
    BY <1>1 DEF Removing
  <1>3. ~Inserting
    BY <1>1, InsertedFacts DEF DerivedInv
  <1> QED
    BY <1>1, <1>2, <1>3, ContentSteps DEF DerivedInv, Invisible

LEMMA DyingStep ==
  ASSUME SoundInv, IndexStep
  PROVE  DeleteUnderWay'
  <1>0. DerivedInv /\ DeleteUnderWay /\ UNCHANGED retired
    BY DEF SoundInv, IndexStep
  <1>1. CASE VectorStep
    <2>1. [Next]_vars /\ UNCHANGED metadata
      BY <1>1 DEF VectorStep, Next
    <2>2. CASE Deleting'
      BY <1>0, <1>1, <2>1, <2>2, NextWorkDeletes, DyingBegins DEF DerivedInv
    <2> QED
      BY <2>2 DEF DeleteUnderWay
  <1>2. CASE BackgroundStep
    <2>1. UNCHANGED <<Content, inserted, metadata, work>>
      BY <1>0, <1>2, BackgroundInvisible
    <2>2. Deleting' = Deleting /\ Dying' = Dying /\ IdsOf(Content)' = IdsOf(Content)
      BY <2>1 DEF Deleting, Dying, IdsOf
    <2> QED
      BY <1>0, <2>1, <2>2 DEF DeleteUnderWay
  <1>3. CASE MetadataStep
    BY <1>0, <1>3, DyingWalk
  <1> QED
    BY <1>1, <1>2, <1>3 DEF IndexStep

LEMMA MatchedStays ==
  ASSUME IInv, IInv', NEW id, Matched(id), UNCHANGED <<q, retired>>,
         \A i \in Ids : inserted[i] <= inserted'[i]
  PROVE  Matched(id)'
  <1>1. PICK n \in 1 .. inserted[id] :
           id \in Ids /\ <<id, n>> \notin retired /\ MatchesRecord(<<id, n>>, q.filter)
    BY DEF Matched
  <1>2. inserted[id] \in Nat /\ inserted'[id] \in Nat
    <2>1. inserted \in [Ids -> 0 .. InsertsPerId] /\ inserted' \in [Ids -> 0 .. InsertsPerId]
      BY DEF IInv, TypeOK, ListsTypeOK
    <2> QED
      BY <1>1, <2>1, BoundsAssumption
  <1>3. n \in 1 .. inserted'[id]
    BY <1>1, <1>2
  <1> QED
    BY <1>1, <1>3 DEF Matched, MatchesRecord

(* The index under a search: records of the listed objects only die, and   *)
(* the store does not change while the search has it locked.               *)
LEMMA IndexUnderQuery ==
  ASSUME SoundInv, IndexStep
  PROVE  QueryInv'
  <1>0. /\ IInv /\ DerivedInv /\ AnswerInv /\ QueryInv /\ [Next]_vars /\ UNCHANGED <<q, dead, retired>>
        /\ [FilteredNext]_filteredVars
    <2>1. [FilteredNext]_filteredVars /\ UNCHANGED <<q, dead, retired>>
      BY DEF IndexStep, FilteredNext
    <2> QED
      BY <2>1, FilteredImplementsNext DEF SoundInv, DerivedInv
  <1>1. IInv' /\ \A i \in Ids : inserted[i] <= inserted'[i]
    BY <1>0, StepInv, LastLiveStep DEF AnswerInv
  <1>2. Allocated \subseteq Allocated' /\ \A o \in Allocated : LiveIn(o)' \subseteq LiveIn(o)
    BY <1>0, ObjectsKept
  <1>3. MetadataRead => metadata' = metadata
    BY DEF IndexStep, VectorStep, BackgroundStep, MetadataStep, IndexPostings, IndexNumeric,
           IndexMetadata, RemoveMetadata, RemovePostings, RemoveNumeric
  <1>4. /\ Planning' = Planning /\ Walking' = Walking /\ Scanning' = Scanning
        /\ MetadataRead' = MetadataRead /\ SingleScan' = SingleScan
    BY <1>0 DEF Planning, Walking, Scanning, MetadataRead, WalksUnderMetadata, SingleScan, Predicates
  <1>5. QueryTyped'
    BY <1>0, <1>2, <1>4 DEF QueryInv, QueryTyped
  <1>6. q.todo \cup q.listed \subseteq Allocated
    BY <1>0 DEF QueryInv, QueryTyped
  <1>7. NothingDead'
    BY <1>0, <1>2, <1>6 DEF QueryInv, NothingDead
  <1>8. StoreLocked'
    <2>1. metadata' = metadata => \A r : TrueOf(r)' = TrueOf(r)
      BY DEF TrueOf
    <2>2. metadata' = metadata => \A id, filter : MatchesId(id, filter)' = MatchesId(id, filter)
      BY DEF MatchesId
    <2>3. MetadataRead => \A o \in q.todo \cup q.listed : \A r \in LiveIn(o)' : TrueOf(r)'
      BY <1>0, <1>2, <1>3, <1>6, <2>1 DEF QueryInv, StoreLocked
    <2>4. Scanning /\ Predicates(q.filter) # 1 => \A id \in q.cand : MatchesId(id, q.filter)'
      BY <1>0, <1>3, <2>2 DEF QueryInv, StoreLocked, MetadataRead
    <2>5. Predicates(q.filter)' = Predicates(q.filter)
      BY <1>0 DEF Predicates
    <2> QED
      BY <1>0, <1>4, <2>3, <2>4, <2>5 DEF StoreLocked
  <1>9. AllMatch'
    <2>1. \A id : Matched(id) => Matched(id)'
      BY <1>0, <1>1, MatchedStays
    <2>2. \A r : MatchesRecord(r, q.filter)' = MatchesRecord(r, q.filter)
      BY <1>0 DEF MatchesRecord
    <2>3. Predicates(q.filter)' = Predicates(q.filter)
      BY <1>0 DEF Predicates
    <2> QED
      BY <1>0, <1>4, <2>1, <2>2, <2>3 DEF QueryInv, AllMatch
  <1> QED
    BY <1>5, <1>7, <1>8, <1>9 DEF QueryInv

(* The steps of the search. *)

QueryFrame == UNCHANGED <<vars, derivedVars, work, gone, dead, retired>>
Query(pc, filter, arm, est, n, cand, todo, listed, pool) ==
    [pc |-> pc, filter |-> filter, arm |-> arm, est |-> est, n |-> n,
     cand |-> cand, todo |-> todo, listed |-> listed, pool |-> pool]

LEMMA FrameKeeps ==
  ASSUME QueryFrame, q'.filter = q.filter
  PROVE  /\ \A o : LiveIn(o)' = LiveIn(o)
         /\ \A r : TrueOf(r)' = TrueOf(r)
         /\ \A id : MatchesId(id, q.filter)' = MatchesId(id, q.filter)
         /\ \A id : Matched(id)' = Matched(id)
         /\ \A r : MatchesRecord(r, q.filter)' = MatchesRecord(r, q.filter)
         /\ Predicates(q.filter)' = Predicates(q.filter)
         /\ Allocated' = Allocated
  <1>1. \A o : LiveIn(o)' = LiveIn(o)
    BY DEF QueryFrame, LiveIn
  <1>2. \A r : MatchesRecord(r, q.filter)' = MatchesRecord(r, q.filter)
    BY DEF MatchesRecord
  <1>3. \A id : Matched(id)' = Matched(id)
    BY <1>2 DEF QueryFrame, Matched, MatchesRecord
  <1>4. \A id : MatchesId(id, q.filter)' = MatchesId(id, q.filter)
    BY DEF QueryFrame, MatchesId
  <1>5. \A r : TrueOf(r)' = TrueOf(r)
    BY DEF QueryFrame, TrueOf
  <1>6. Predicates(q.filter)' = Predicates(q.filter) /\ Allocated' = Allocated
    BY DEF QueryFrame, Predicates, Allocated
  <1> QED
    BY <1>1, <1>2, <1>3, <1>4, <1>5, <1>6

(* While it plans a search has candidates only. *)
PlanPC == {"len_segments", "len_sealing", "len_buffer", "plan", "plan_ranges", "walk", "fallback", "scan", "done"}
LEMMA Planned ==
  ASSUME SoundInv, QueryFrame, q.pc # "idle",
         NEW pc \in PlanPC, NEW arm, NEW est, NEW n, NEW cand,
         q' = Query(pc, q.filter, arm, est, n, cand, {}, {}, {}),
         pc = "walk" => arm \in {"all", "post", "legacy"},
         pc = "scan" => arm = "scan",
         Predicates(q.filter) = 1 => \A id \in cand : Matched(id)
  PROVE  QueryInv'
  <1>0. /\ q'.pc = pc /\ q'.filter = q.filter /\ q'.arm = arm /\ q'.est = est /\ q'.n = n
        /\ q'.cand = cand /\ q'.todo = {} /\ q'.listed = {} /\ q'.pool = {}
    BY DEF Query
  <1>1. QueryTyped'
    <2>1. q.filter \in Filters
      BY DEF SoundInv, QueryInv, QueryTyped
    <2>2. ~Walking' /\ ~Scanning'
      BY <1>0 DEF Walking, Scanning, PlanPC
    <2> QED
      BY <1>0, <2>1, <2>2 DEF QueryTyped, Query
  <1>2. NothingDead'
    BY <1>0 DEF NothingDead
  <1>3. StoreLocked'
    BY <1>0 DEF StoreLocked, Scanning, PlanPC
  <1>4. AllMatch'
    BY <1>0, FrameKeeps DEF AllMatch
  <1> QED
    BY <1>1, <1>2, <1>3, <1>4 DEF QueryInv

LEMMA PlanningFields ==
  ASSUME SoundInv, Planning
  PROVE  \E pc, filter, arm, est, n, cand : q = Query(pc, filter, arm, est, n, cand, {}, {}, {})
  <1>1. q = Query(q.pc, q.filter, q.arm, q.est, q.n, q.cand, {}, {}, {})
    BY DEF SoundInv, QueryInv, QueryTyped, Query
  <1> QED
    BY <1>1

LEMMA CountingShape ==
  ASSUME SoundInv, Shortcut \/ LenSegments \/ LenSealing \/ LenBuffer
  PROVE  /\ Planning /\ q.pc # "idle"
         /\ \E to \in {"len_segments", "len_sealing", "len_buffer", "plan"} : \E est, n :
               \/ q' = Query(to, q.filter, q.arm, est, n, q.cand, {}, {}, {})
               \/ q' = Query("walk", q.filter, "all", est, n, q.cand, {}, {}, {})
  <1> USE DEF At
  <1>0. Planning /\ q.pc # "idle"
    BY DEF Planning, Shortcut, LenSegments, LenSealing, LenBuffer, CountStep
  <1> PICK pc, filter, arm, est, n, cand : q = Query(pc, filter, arm, est, n, cand, {}, {}, {})
    BY <1>0, PlanningFields
  <1>1. q.filter = filter /\ q.arm = arm /\ q.cand = cand
    BY DEF Query
  <1>2. CASE Shortcut
    <2>1. PICK e : q' = [q EXCEPT !.pc = "len_segments", !.est = e]
      BY <1>2 DEF Shortcut
    <2>2. q' = Query("len_segments", filter, arm, e, n, cand, {}, {}, {})
      BY <2>1 DEF Query
    <2> QED
      BY <1>0, <1>1, <2>2
  <1>3. CASE LenSegments \/ LenSealing
    <2>1. PICK to \in {"len_sealing", "len_buffer"} : \E m : q' = [q EXCEPT !.pc = to, !.n = m]
      BY <1>3 DEF LenSegments, LenSealing, CountStep
    <2>2. PICK m : q' = [q EXCEPT !.pc = to, !.n = m]
      BY <2>1
    <2>3. q' = Query(to, filter, arm, est, m, cand, {}, {}, {})
      BY <2>2 DEF Query
    <2> QED
      BY <1>0, <1>1, <2>3
  <1>4. CASE LenBuffer
    <2>1. PICK every \in BOOLEAN :
             q' = [q EXCEPT !.pc = IF every THEN "walk" ELSE "plan",
                            !.arm = IF every THEN "all" ELSE @, !.n = 0]
      BY <1>4 DEF LenBuffer
    <2>2. \/ q' = Query("walk", filter, "all", est, 0, cand, {}, {}, {})
          \/ q' = Query("plan", filter, arm, est, 0, cand, {}, {}, {})
      BY <2>1 DEF Query
    <2> QED
      BY <1>0, <1>1, <2>2
  <1> QED
    BY <1>2, <1>3, <1>4

LEMMA CountingSteps ==
  ASSUME SoundInv, QueryFrame, Shortcut \/ LenSegments \/ LenSealing \/ LenBuffer
  PROVE  QueryInv'
  <1>1. q.pc # "idle" /\ (Predicates(q.filter) = 1 => \A id \in q.cand : Matched(id))
    BY CountingShape DEF SoundInv, QueryInv, AllMatch
  <1>2. {"walk", "len_segments", "len_sealing", "len_buffer", "plan"} \subseteq PlanPC
    BY DEF PlanPC
  <1> QED
    BY <1>1, <1>2, CountingShape, Planned

(* What the plan goes on with, and the candidates it takes along. *)
Goes(to, arm, cand) == q' = Query(to, q.filter, arm, q.est, q.n, cand, {}, {}, {})
FromPosting(cand) == \E fact \in q.filter.eqs : cand = Posting(fact)
FromRange(cand) == \E range \in q.filter.ranges : cand = EnumerateRange(range)
PlanGoes(arm, cand) ==
    \/ Goes("done", q.arm, q.cand) /\ (FromPosting({}) \/ FromRange({}))
    \/ Goes("plan_ranges", arm, cand) /\ ((q.filter.eqs = {} /\ cand = q.cand) \/ FromPosting(cand))
    \/ /\ q.pc \in {"plan_ranges", "fallback"}
       /\ Goes("scan", "scan", cand)
       /\ (q.filter.eqs # {} /\ cand = q.cand) \/ FromRange(cand)
    \/ q.pc = "plan_ranges" /\ arm \in {"post", "legacy"} /\ Goes("walk", arm, q.cand)

LEMMA PlanShape ==
  ASSUME SoundInv, PlanEq \/ PlanRanges \/ Fallback
  PROVE  Planning /\ q.pc # "idle" /\ \E arm, cand : PlanGoes(arm, cand)
  <1> USE DEF At, Goes
  <1>0. Planning /\ q.pc # "idle"
    BY DEF Planning, PlanEq, PlanRanges, Fallback
  <1> SUFFICES \E a, c : PlanGoes(a, c)
    BY <1>0
  <1> PICK pc, filter, arm, est, n, cand : q = Query(pc, filter, arm, est, n, cand, {}, {}, {})
    BY <1>0, PlanningFields
  <1>1. q.filter = filter /\ q.arm = arm /\ q.est = est /\ q.n = n /\ q.cand = cand
    BY DEF Query
  <1>2. ASSUME NEW c, q' = [q EXCEPT !.pc = "plan_ranges", !.cand = c]
        PROVE  Goes("plan_ranges", arm, c)
    <2>1. q' = Query("plan_ranges", filter, arm, est, n, c, {}, {}, {})
      BY <1>2 DEF Query
    <2> QED
      BY <1>1, <2>1
  <1>3. ASSUME NEW c, q' = [q EXCEPT !.pc = "scan", !.arm = "scan", !.cand = c]
        PROVE  Goes("scan", "scan", c)
    <2>1. q' = Query("scan", filter, "scan", est, n, c, {}, {}, {})
      BY <1>3 DEF Query
    <2> QED
      BY <1>1, <2>1
  <1>4. ASSUME NEW a, q' = [q EXCEPT !.pc = "walk", !.arm = a]
        PROVE  Goes("walk", a, cand)
    <2>1. q' = Query("walk", filter, a, est, n, cand, {}, {}, {})
      BY <1>4 DEF Query
    <2> QED
      BY <1>1, <2>1
  <1>5. Answer({}) => Goes("done", q.arm, q.cand)
    <2>1. Answer({}) => q' = Query("done", filter, arm, est, n, cand, {}, {}, {})
      BY DEF Answer, Query
    <2> QED
      BY <1>1, <2>1
  <1>6. CASE PlanEq
    <2>1. CASE filter.eqs = {}
      <3>1. q' = [q EXCEPT !.pc = "plan_ranges"]
        BY <1>1, <1>6, <2>1 DEF PlanEq
      <3>2. q' = Query("plan_ranges", filter, arm, est, n, cand, {}, {}, {})
        BY <3>1 DEF Query
      <3> QED
        BY <1>1, <2>1, <3>2 DEF PlanGoes
    <2>2. ASSUME NEW fact \in filter.eqs, q' = [q EXCEPT !.pc = "plan_ranges", !.cand = Posting(fact)]
          PROVE  \E a, c : PlanGoes(a, c)
      <3>1. PICK c : c = Posting(fact)
        OBVIOUS
      <3>2. Goes("plan_ranges", arm, c) /\ FromPosting(c)
        BY <1>1, <1>2, <2>2, <3>1 DEF FromPosting
      <3> QED
        BY <3>2 DEF PlanGoes
    <2>3. CASE Answer({}) /\ \E fact \in filter.eqs : Posting(fact) = {}
      <3>1. FromPosting({})
        BY <1>1, <2>3 DEF FromPosting
      <3> QED
        BY <1>5, <2>3, <3>1 DEF PlanGoes
    <2> QED
      BY <1>1, <1>6, <2>1, <2>2, <2>3 DEF PlanEq
  <1>7. CASE PlanRanges
    <2>1. \/ Answer({}) /\ \E range \in filter.ranges : EnumerateRange(range) = {}
          \/ filter.eqs # {} /\ q' = [q EXCEPT !.pc = "scan", !.arm = "scan", !.cand = cand]
          \/ \E range \in filter.ranges :
                q' = [q EXCEPT !.pc = "scan", !.arm = "scan", !.cand = EnumerateRange(range)]
          \/ \E a \in {"post", "legacy"} : q' = [q EXCEPT !.pc = "walk", !.arm = a]
      BY <1>1, <1>7 DEF PlanRanges
    <2>2. CASE Answer({}) /\ \E range \in filter.ranges : EnumerateRange(range) = {}
      <3>1. FromRange({})
        BY <1>1, <2>2 DEF FromRange
      <3> QED
        BY <1>5, <2>2, <3>1 DEF PlanGoes
    <2>3. q.pc = "plan_ranges"
      BY <1>7 DEF PlanRanges
    <2>4. CASE filter.eqs # {} /\ q' = [q EXCEPT !.pc = "scan", !.arm = "scan", !.cand = cand]
      BY <1>1, <1>3, <2>3, <2>4 DEF PlanGoes
    <2>5. ASSUME NEW range \in filter.ranges,
                 q' = [q EXCEPT !.pc = "scan", !.arm = "scan", !.cand = EnumerateRange(range)]
          PROVE  \E a, c : PlanGoes(a, c)
      <3>1. PICK c : c = EnumerateRange(range)
        OBVIOUS
      <3>2. Goes("scan", "scan", c) /\ FromRange(c)
        BY <1>1, <1>3, <2>5, <3>1 DEF FromRange
      <3> QED
        BY <2>3, <3>2 DEF PlanGoes
    <2>6. ASSUME NEW a \in {"post", "legacy"}, q' = [q EXCEPT !.pc = "walk", !.arm = a]
          PROVE  \E b, c : PlanGoes(b, c)
      BY <1>1, <1>4, <2>3, <2>6 DEF PlanGoes
    <2> QED
      BY <2>1, <2>2, <2>4, <2>5, <2>6
  <1>8. CASE Fallback
    <2>1. q.pc = "fallback"
      BY <1>8 DEF Fallback
    <2>2. CASE filter.eqs # {}
      <3>1. q' = Query("scan", filter, "scan", est, n, cand, {}, {}, {})
        BY <1>1, <1>8, <2>2 DEF Fallback, Query
      <3> QED
        BY <1>1, <2>1, <2>2, <3>1 DEF PlanGoes
    <2>3. ASSUME NEW range \in filter.ranges,
                 q' = [q EXCEPT !.pc = "scan", !.arm = "scan", !.cand = EnumerateRange(range)]
          PROVE  \E a, c : PlanGoes(a, c)
      <3>1. PICK c : c = EnumerateRange(range)
        OBVIOUS
      <3>2. Goes("scan", "scan", c) /\ FromRange(c)
        BY <1>1, <1>3, <2>3, <3>1 DEF FromRange
      <3> QED
        BY <2>1, <3>2 DEF PlanGoes
    <2> QED
      BY <1>1, <1>8, <2>2, <2>3 DEF Fallback
  <1> QED
    BY <1>6, <1>7, <1>8

LEMMA PlanSteps ==
  ASSUME SoundInv, QueryFrame, PlanEq \/ PlanRanges \/ Fallback
  PROVE  QueryInv'
  <1>1. PICK arm, cand : PlanGoes(arm, cand) /\ q.pc # "idle"
    BY PlanShape
  <1>2. Predicates(q.filter) = 1 =>
           /\ \A id \in q.cand : Matched(id)
           /\ FromPosting(cand) \/ FromRange(cand) => \A id \in cand : Matched(id)
    BY <1>1, CandidatesMatched DEF SoundInv, QueryInv, AllMatch, FromPosting, FromRange
  <1>3. {"plan_ranges", "walk", "scan", "done"} \subseteq PlanPC
    BY DEF PlanPC
  <1> QED
    BY <1>1, <1>2, <1>3, Planned DEF PlanGoes, Goes

(* The three arms of the walk: they collect what they are allowed to. *)
LEMMA Collected ==
  ASSUME SoundInv, QueryFrame, q.pc \in {"walk", "segments", "sealing"},
         NEW pc \in {"segments", "sealing", "done"}, NEW todo, NEW pool,
         q' = Query(pc, q.filter, q.arm, q.est, q.n, q.cand, todo, {}, pool),
         todo \subseteq q.todo \cup sealing \cup segments,
         \A r \in pool : \/ r \in q.pool
                         \/ r \in Allowed(buffer)
                         \/ \E o \in q.todo : r \in Allowed(LiveIn(o))
  PROVE  QueryInv'
  <1>0. /\ q'.pc = pc /\ q'.filter = q.filter /\ q'.arm = q.arm /\ q'.est = q.est /\ q'.n = q.n
        /\ q'.cand = q.cand /\ q'.todo = todo /\ q'.listed = {} /\ q'.pool = pool
    BY DEF Query
  <1>1. /\ DerivedInv /\ AnswerInv /\ DeleteUnderWay /\ GoneForGood
        /\ QueryTyped /\ NothingDead /\ StoreLocked /\ AllMatch /\ IInv
    BY DEF SoundInv, QueryInv, DerivedInv
  <1>2. q.filter \in Filters /\ q.arm \in {"all", "post", "legacy"} /\ ~SingleScan
    BY <1>1 DEF QueryTyped, Walking, SingleScan
  <1>3. q.pc = "walk" => q.todo = {} /\ q.pool = {}
    BY <1>1 DEF QueryTyped, Planning
  <1>4. /\ \A o \in sealing \cup segments : o \in Allocated /\ LiveIn(o) \subseteq Content
        /\ buffer \subseteq Content
    BY <1>1, ContentListed
  <1>5. \A r \in Content : TrueOf(r) /\ r \notin dead
    BY <1>1, LiveRecord DEF GoneForGood
  <1>6. q.arm # "all" => \A o \in q.todo : \A r \in LiveIn(o) : TrueOf(r)
    BY <1>1, <1>2, <1>3 DEF StoreLocked, MetadataRead, WalksUnderMetadata
  <1>7. QueryTyped'
    <2>1. todo \subseteq Allocated
      BY <1>1, <1>4 DEF QueryTyped
    <2>2. ~Planning' /\ ~Scanning' /\ q'.pc # "scan" /\ q'.pc # "walk" /\ q'.pc # "idle"
      BY <1>0 DEF Planning, Scanning
    <2> QED
      BY <1>0, <1>2, <2>1, <2>2, FrameKeeps DEF QueryTyped, Query
  <1>8. NothingDead'
    <2>1. \A o \in todo : \A r \in LiveIn(o) : r \notin dead
      BY <1>1, <1>4, <1>5 DEF NothingDead
    <2>2. \A r \in pool : r \notin dead
      BY <1>1, <1>4, <1>5 DEF NothingDead, Allowed
    <2> QED
      BY <1>0, <2>1, <2>2, FrameKeeps DEF NothingDead, QueryFrame
  <1>9. StoreLocked'
    <2>1. ~Scanning' /\ (MetadataRead' => q.arm # "all")
      BY <1>0 DEF Scanning, MetadataRead, WalksUnderMetadata
    <2>2. q.arm # "all" => \A o \in todo : \A r \in LiveIn(o) : TrueOf(r)
      BY <1>4, <1>5, <1>6
    <2> QED
      BY <1>0, <2>1, <2>2, FrameKeeps DEF StoreLocked
  <1>10. AllMatch'
    <2>1. ASSUME q.arm # "all", NEW r \in pool PROVE MatchesRecord(r, q.filter)
      <3>1. CASE r \in q.pool
        BY <1>1, <1>2, <2>1, <3>1 DEF AllMatch
      <3>2. CASE r \notin q.pool
        <4>1. TrueOf(r)
          BY <1>4, <1>5, <1>6, <2>1, <3>2 DEF Allowed
        <4>2. MatchesId(r[1], q.filter)
          BY <2>1, <3>2 DEF Allowed
        <4> QED
          BY <4>1, <4>2, TrueMatch
      <3> QED
        BY <3>1, <3>2
    <2>2. ~SingleScan' /\ (Predicates(q.filter) = 1 => \A id \in q.cand : Matched(id))
      BY <1>0, <1>1, <1>2 DEF SingleScan, AllMatch
    <2> QED
      BY <1>0, <2>1, <2>2, FrameKeeps DEF AllMatch
  <1> QED
    BY <1>7, <1>8, <1>9, <1>10 DEF QueryInv

(* A scan: it looks candidates up that match, under the store's lock. *)
LEMMA Scanned ==
  ASSUME SoundInv, QueryFrame, q.pc = "scan" \/ Scanning,
         NEW pc \in {"scan_snapshot", "scan_sealing", "scan_segments", "done"},
         NEW cand, NEW todo, NEW listed, NEW pool,
         q' = Query(pc, q.filter, q.arm, q.est, q.n, cand, todo, listed, pool),
         NEW ids, \A id \in ids : id \in q.cand /\ (Predicates(q.filter) # 1 => MatchesId(id, q.filter)),
         cand \subseteq ids,
         todo \subseteq q.todo \cup q.listed \cup sealing \cup segments,
         listed \subseteq q.listed \cup segments,
         \A r \in pool : \/ r \in q.pool
                         \/ r[1] \in ids /\ (r \in buffer \/ \E o \in q.todo : r \in LiveIn(o))
  PROVE  QueryInv'
  <1>0. /\ q'.pc = pc /\ q'.filter = q.filter /\ q'.arm = q.arm /\ q'.est = q.est /\ q'.n = q.n
        /\ q'.cand = cand /\ q'.todo = todo /\ q'.listed = listed /\ q'.pool = pool
    BY DEF Query
  <1>1. /\ DerivedInv /\ AnswerInv /\ DeleteUnderWay /\ GoneForGood
        /\ QueryTyped /\ NothingDead /\ StoreLocked /\ AllMatch /\ IInv
    BY DEF SoundInv, QueryInv, DerivedInv
  <1>2. q.filter \in Filters /\ q.arm = "scan"
    BY <1>1 DEF QueryTyped, Scanning
  <1>3. q.pc = "scan" => q.todo = {} /\ q.listed = {}
    BY <1>1 DEF QueryTyped, Planning
  <1>4. /\ \A o \in sealing \cup segments : o \in Allocated /\ LiveIn(o) \subseteq Content
        /\ buffer \subseteq Content
    BY <1>1, ContentListed
  <1>5. \A r \in Content : TrueOf(r) /\ r \notin dead
    BY <1>1, LiveRecord DEF GoneForGood
  <1>6. \A o \in q.todo \cup q.listed : \A r \in LiveIn(o) : TrueOf(r)
    BY <1>1, <1>3 DEF StoreLocked, MetadataRead
  <1>7. QueryTyped'
    <2>1. todo \subseteq Allocated /\ listed \subseteq Allocated
      BY <1>1, <1>4 DEF QueryTyped
    <2>2. ~Planning' /\ ~Walking' /\ q'.pc # "walk" /\ q'.pc # "idle"
      BY <1>0 DEF Planning, Walking
    <2> QED
      BY <1>0, <1>2, <2>1, <2>2, FrameKeeps DEF QueryTyped, Query
  <1>8. NothingDead'
    <2>1. \A o \in todo \cup listed : \A r \in LiveIn(o) : r \notin dead
      BY <1>1, <1>4, <1>5 DEF NothingDead
    <2>2. \A r \in pool : r \notin dead
      BY <1>1, <1>4, <1>5 DEF NothingDead
    <2> QED
      BY <1>0, <2>1, <2>2, FrameKeeps DEF NothingDead, QueryFrame
  <1>9. StoreLocked'
    <2>1. \A o \in todo \cup listed : \A r \in LiveIn(o) : TrueOf(r)
      BY <1>4, <1>5, <1>6
    <2> QED
      BY <1>0, <2>1, FrameKeeps DEF StoreLocked
  <1>10. AllMatch'
    <2>1. ASSUME Predicates(q.filter) # 1, NEW r \in pool PROVE MatchesRecord(r, q.filter)
      <3>1. CASE r \in q.pool
        BY <1>1, <1>2, <2>1, <3>1 DEF AllMatch, SingleScan
      <3>2. CASE r \notin q.pool
        <4>1. TrueOf(r) /\ MatchesId(r[1], q.filter)
          BY <1>4, <1>5, <1>6, <2>1, <3>2
        <4> QED
          BY <4>1, TrueMatch
      <3> QED
        BY <3>1, <3>2
    <2>2. ASSUME Predicates(q.filter) = 1
          PROVE  (\A id \in cand : Matched(id)) /\ (\A r \in pool : Matched(r[1]))
      BY <1>1, <1>2, <2>2 DEF AllMatch, SingleScan
    <2>3. SingleScan' <=> Predicates(q.filter) = 1
      BY <1>0, <1>2 DEF SingleScan, Predicates
    <2> QED
      BY <1>0, <2>1, <2>2, <2>3, FrameKeeps DEF AllMatch
  <1> QED
    BY <1>7, <1>8, <1>9, <1>10 DEF QueryInv

LEMMA QueryFields ==
  ASSUME SoundInv
  PROVE  \E pc, filter, arm, est, n, cand, todo, listed, pool :
            q = Query(pc, filter, arm, est, n, cand, todo, listed, pool)
  <1>1. q = Query(q.pc, q.filter, q.arm, q.est, q.n, q.cand, q.todo, q.listed, q.pool)
    BY DEF SoundInv, QueryInv, QueryTyped, Query
  <1> QED
    BY <1>1

(* The steps of a walk: to the next list, over an object of it, the buffer. *)
WalkGoes(to, todo, pool) == q' = Query(to, q.filter, q.arm, q.est, q.n, q.cand, todo, {}, pool)
VisitsObject(o, s) ==
    /\ q.pc \in {"segments", "sealing"} /\ o \in q.todo
    /\ s \subseteq Allowed(LiveIn(o))
    /\ (q.pc = "segments" /\ q.arm = "post") \/ s \in ReportedBy(LiveIn(o))
    /\ WalkGoes(q.pc, q.todo \ {o}, q.pool \cup s)
VisitsBuffer(s, hits) ==
    /\ q.pc = "sealing" /\ q.todo = {}
    /\ s \in ReportedBy(buffer) /\ hits \in OnePerId(q.pool \cup s)
    /\ \/ (q.arm = "post" => ~(Cardinality(hits) < 2 * K)) /\ WalkGoes("done", {}, hits)
       \/ q.arm = "post" /\ WalkGoes("fallback", {}, {})

LEMMA WalkShape ==
  ASSUME SoundInv, Walk \/ VisitSegment \/ CloneSealing \/ VisitSealing \/ VisitBuffer
  PROVE  \/ q.pc = "walk" /\ WalkGoes("segments", segments, q.pool)
         \/ \E o, s : VisitsObject(o, s)
         \/ q.pc = "segments" /\ q.todo = {} /\ WalkGoes("sealing", sealing, q.pool)
         \/ \E s, hits : VisitsBuffer(s, hits)
  <1> USE DEF At, WalkGoes
  <1>0. q.pc \in {"walk", "segments", "sealing"}
    BY DEF Walk, VisitSegment, CloneSealing, VisitSealing, VisitBuffer, Visit
  <1> PICK pc, filter, arm, est, n, cand, todo, listed, pool :
        q = Query(pc, filter, arm, est, n, cand, todo, listed, pool)
    BY QueryFields
  <1>1. /\ q.pc = pc /\ q.filter = filter /\ q.arm = arm /\ q.est = est /\ q.n = n
        /\ q.cand = cand /\ q.todo = todo /\ q.listed = listed /\ q.pool = pool
    BY DEF Query
  <1>2. listed = {}
    BY <1>0, <1>1 DEF SoundInv, QueryInv, QueryTyped, Walking, Planning
  <1>3. CASE Walk
    <2>1. q' = Query("segments", filter, arm, est, n, cand, segments, {}, pool)
      BY <1>2, <1>3 DEF Walk, Query
    <2> QED
      BY <1>1, <1>3, <2>1 DEF Walk
  <1>4. \A records : \A s \in ReportedBy(records) : s \subseteq Allowed(records)
    BY DEF ReportedBy
  <1>5. ASSUME NEW reports, NEW here \in {"segments", "sealing"}, Visit(here, reports),
               \A o \in todo : \A s \in reports[o] :
                  /\ s \subseteq Allowed(LiveIn(o))
                  /\ (here = "segments" /\ arm = "post") \/ s \in ReportedBy(LiveIn(o))
        PROVE  \E o, s : VisitsObject(o, s)
    <2>1. PICK o \in todo : \E s \in reports[o] : q' = [q EXCEPT !.todo = @ \ {o}, !.pool = @ \cup s]
      BY <1>1, <1>5 DEF Visit
    <2>2. PICK s \in reports[o] : q' = [q EXCEPT !.todo = @ \ {o}, !.pool = @ \cup s]
      BY <2>1
    <2>3. q' = Query(here, filter, arm, est, n, cand, todo \ {o}, {}, pool \cup s) /\ q.pc = here
      BY <1>1, <1>2, <1>5, <2>2 DEF Visit, Query
    <2>4. VisitsObject(o, s)
      BY <1>1, <1>5, <2>3 DEF VisitsObject
    <2> QED
      BY <2>4
  <1>6. CASE VisitSegment
    <2>1. PICK reports : reports = [o \in todo |-> ReportedBySegment(o)]
      OBVIOUS
    <2>2. \A o \in todo : \A s \in reports[o] :
             s \subseteq Allowed(LiveIn(o)) /\ (arm = "post" \/ s \in ReportedBy(LiveIn(o)))
      BY <1>1, <1>4, <2>1 DEF ReportedBySegment
    <2>3. Visit("segments", reports)
      BY <1>1, <1>6, <2>1 DEF VisitSegment
    <2> QED
      BY <1>5, <2>2, <2>3
  <1>7. CASE CloneSealing
    <2>1. q' = Query("sealing", filter, arm, est, n, cand, sealing, {}, pool)
      BY <1>2, <1>7 DEF CloneSealing, Query
    <2> QED
      BY <1>1, <1>7, <2>1 DEF CloneSealing
  <1>8. CASE VisitSealing
    <2>1. PICK reports : reports = [o \in todo |-> ReportedBy(LiveIn(o))]
      OBVIOUS
    <2>2. \A o \in todo : \A s \in reports[o] :
             s \subseteq Allowed(LiveIn(o)) /\ s \in ReportedBy(LiveIn(o))
      BY <1>4, <2>1
    <2>3. Visit("sealing", reports)
      BY <1>1, <1>8, <2>1 DEF VisitSealing
    <2> QED
      BY <1>5, <2>2, <2>3
  <1>9. CASE VisitBuffer
    <2>1. PICK s \in ReportedBy(buffer) : \E hits \in OnePerId(pool \cup s) :
             IF arm = "post" /\ Cardinality(hits) < 2 * K
               THEN q' = [q EXCEPT !.pc = "fallback", !.pool = {}]
               ELSE q' = [q EXCEPT !.pc = "done", !.pool = hits]
      BY <1>1, <1>9 DEF VisitBuffer, Answer
    <2>2. PICK hits \in OnePerId(pool \cup s) :
             IF arm = "post" /\ Cardinality(hits) < 2 * K
               THEN q' = [q EXCEPT !.pc = "fallback", !.pool = {}]
               ELSE q' = [q EXCEPT !.pc = "done", !.pool = hits]
      BY <2>1
    <2>3. todo = {} /\ q.pc = "sealing"
      BY <1>1, <1>9 DEF VisitBuffer
    <2>4. CASE q' = [q EXCEPT !.pc = "fallback", !.pool = {}] /\ arm = "post"
      <3>1. q' = Query("fallback", filter, arm, est, n, cand, {}, {}, {})
        BY <1>2, <2>3, <2>4 DEF Query
      <3>2. VisitsBuffer(s, hits)
        BY <1>1, <2>3, <2>4, <3>1 DEF VisitsBuffer
      <3> QED
        BY <3>2
    <2>5. CASE q' = [q EXCEPT !.pc = "done", !.pool = hits] /\ ~(arm = "post" /\ Cardinality(hits) < 2 * K)
      <3>1. q' = Query("done", filter, arm, est, n, cand, {}, {}, hits)
        BY <1>2, <2>3, <2>5 DEF Query
      <3>2. VisitsBuffer(s, hits)
        BY <1>1, <2>3, <2>5, <3>1 DEF VisitsBuffer
      <3> QED
        BY <3>2
    <2> QED
      BY <2>2, <2>4, <2>5
  <1> QED
    BY <1>3, <1>6, <1>7, <1>8, <1>9

LEMMA WalkSteps ==
  ASSUME SoundInv, QueryFrame,
         Walk \/ VisitSegment \/ CloneSealing \/ VisitSealing \/ VisitBuffer
  PROVE  QueryInv'
  <1>1. CASE q.pc = "walk" /\ WalkGoes("segments", segments, q.pool)
    BY <1>1, Collected DEF WalkGoes
  <1>2. ASSUME NEW o, NEW s, VisitsObject(o, s) PROVE QueryInv'
    <2>1. PICK both : both = q.pool \cup s
      OBVIOUS
    <2>2. \A r \in both : r \in q.pool \/ \E p \in q.todo : r \in Allowed(LiveIn(p))
      BY <1>2, <2>1 DEF VisitsObject
    <2> QED
      BY <1>2, <2>1, <2>2, Collected DEF VisitsObject, WalkGoes
  <1>3. CASE q.pc = "segments" /\ WalkGoes("sealing", sealing, q.pool)
    BY <1>3, Collected DEF WalkGoes
  <1>4. ASSUME NEW s, NEW hits, VisitsBuffer(s, hits) PROVE QueryInv'
    <2>1. /\ q.pc = "sealing" /\ "fallback" \in PlanPC
          /\ \A r \in hits : r \in q.pool \/ r \in Allowed(buffer)
      BY <1>4 DEF VisitsBuffer, OnePerId, ReportedBy, PlanPC
    <2>2. CASE WalkGoes("done", {}, hits)
      BY <2>1, <2>2, Collected DEF WalkGoes
    <2>3. CASE WalkGoes("fallback", {}, {})
      <3>1. Predicates(q.filter) = 1 => \A id \in q.cand : Matched(id)
        BY DEF SoundInv, QueryInv, AllMatch
      <3> QED
        BY <2>1, <2>3, <3>1, Planned DEF WalkGoes
    <2> QED
      BY <1>4, <2>2, <2>3 DEF VisitsBuffer
  <1> QED
    BY <1>1, <1>2, <1>3, <1>4, WalkShape

(* The steps of a scan: the buffer, the two lists, and their objects. *)
ScanGoes(to, cand, todo, listed, pool) ==
    q' = Query(to, q.filter, q.arm, q.est, q.n, cand, todo, listed, pool)
LooksUp(o) ==
    /\ q.pc \in {"scan_sealing", "scan_segments"} /\ o \in q.todo /\ IsNewest(o, q.todo)
    /\ ScanGoes(q.pc, q.cand \ IdsOf(data[o]), q.todo \ {o}, q.listed,
                q.pool \cup { r \in LiveIn(o) : r[1] \in q.cand })

LEMMA ScanShape ==
  ASSUME SoundInv, ScanBuffer \/ ScanSnapshot \/ ScanSealing \/ ScanListed \/ ScanSegments \/ ScanDone
  PROVE  \/ /\ q.pc = "scan"
            /\ ScanGoes("scan_snapshot", Candidates \ IdsOf(buffer), {}, segments,
                        { r \in buffer : r[1] \in Candidates })
         \/ q.pc = "scan_snapshot" /\ ScanGoes("scan_sealing", q.cand, sealing, q.listed, q.pool)
         \/ \E o : LooksUp(o)
         \/ /\ q.pc = "scan_sealing" /\ q.todo = {}
            /\ ScanGoes("scan_segments", q.cand, q.listed, q.listed, q.pool)
         \/ /\ q.pc = "scan_segments" /\ q.todo = {}
            /\ ScanGoes("done", q.cand, {}, q.listed, q.pool)
  <1> USE DEF At, ScanGoes
  <1> PICK pc, filter, arm, est, n, cand, todo, listed, pool :
        q = Query(pc, filter, arm, est, n, cand, todo, listed, pool)
    BY QueryFields
  <1>1. /\ q.pc = pc /\ q.filter = filter /\ q.arm = arm /\ q.est = est /\ q.n = n
        /\ q.cand = cand /\ q.todo = todo /\ q.listed = listed /\ q.pool = pool
    BY DEF Query
  <1>2. CASE ScanBuffer
    <2>1. todo = {} /\ listed = {} /\ pool = {}
      BY <1>1, <1>2 DEF SoundInv, QueryInv, QueryTyped, Planning, ScanBuffer
    <2>2. PICK ids, left, hits :
             /\ ids = Candidates /\ left = ids \ IdsOf(buffer)
             /\ hits = { r \in buffer : r[1] \in ids }
      OBVIOUS
    <2>3. q' = Query("scan_snapshot", filter, arm, est, n, left, {}, segments, hits)
      BY <1>2, <2>1, <2>2 DEF ScanBuffer, AfterLookUp, Query
    <2> QED
      BY <1>1, <1>2, <2>2, <2>3 DEF ScanBuffer
  <1>3. CASE ScanSnapshot
    <2>1. q' = Query("scan_sealing", filter, arm, est, n, cand, sealing, listed, pool)
      BY <1>3 DEF ScanSnapshot, Query
    <2> QED
      BY <1>1, <1>3, <2>1 DEF ScanSnapshot
  <1>4. ASSUME NEW here \in {"scan_sealing", "scan_segments"}, ScanNewest(here)
        PROVE  \E o : LooksUp(o)
    <2>1. PICK o \in todo :
             IsNewest(o, todo) /\ q' = [AfterLookUp(cand, data[o], LiveIn(o)) EXCEPT !.todo = @ \ {o}]
      <3>1. PICK o \in q.todo :
               /\ IsNewest(o, q.todo)
               /\ q' = [AfterLookUp(q.cand, data[o], LiveIn(o)) EXCEPT !.todo = @ \ {o}]
        BY <1>4 DEF ScanNewest
      <3>2. q.todo = todo /\ q.cand = cand
        BY ONLY <1>1
      <3>3. AfterLookUp(q.cand, data[o], LiveIn(o)) = AfterLookUp(cand, data[o], LiveIn(o))
        BY ONLY <3>2
      <3>4. q' = [AfterLookUp(cand, data[o], LiveIn(o)) EXCEPT !.todo = @ \ {o}]
        BY ONLY <3>1, <3>3
      <3>5. o \in todo /\ IsNewest(o, todo)
        BY ONLY <3>1, <3>2
      <3> QED
        BY <3>4, <3>5
    <2>2. PICK left, hits : left = cand \ IdsOf(data[o]) /\ hits = { r \in LiveIn(o) : r[1] \in cand }
      OBVIOUS
    <2>3. q' = Query(here, filter, arm, est, n, left, todo \ {o}, listed, pool \cup hits) /\ q.pc = here
      <3>1. q.pc = here
        BY <1>4 DEF ScanNewest
      <3>2. PICK st : st = AfterLookUp(cand, data[o], LiveIn(o))
        OBVIOUS
      <3>3. st = [q EXCEPT !.cand = left, !.pool = @ \cup hits]
        BY <2>2, <3>2 DEF AfterLookUp
      <3>4. st = Query(here, filter, arm, est, n, left, todo, listed, pool \cup hits)
        BY <1>1, <3>1, <3>3 DEF Query
      <3>5. q' = [st EXCEPT !.todo = @ \ {o}]
        BY <2>1, <3>2
      <3> QED
        BY ONLY <3>1, <3>4, <3>5 DEF Query
    <2>4. LooksUp(o)
      BY <1>1, <1>4, <2>1, <2>2, <2>3 DEF LooksUp
    <2> QED
      BY <2>4
  <1>5. CASE ScanListed
    <2>1. q' = Query("scan_segments", filter, arm, est, n, cand, listed, listed, pool)
      BY <1>1, <1>5 DEF ScanListed, Query
    <2> QED
      BY <1>1, <1>5, <2>1 DEF ScanListed
  <1>6. CASE ScanDone
    <2>1. q' = Query("done", filter, arm, est, n, cand, todo, listed, pool)
      BY <1>1, <1>6 DEF ScanDone, Answer, Query
    <2> QED
      BY <1>1, <1>6, <2>1 DEF ScanDone
  <1> QED
    BY <1>2, <1>3, <1>4, <1>5, <1>6 DEF ScanSealing, ScanSegments

LEMMA ScanSteps ==
  ASSUME SoundInv, QueryFrame,
         ScanBuffer \/ ScanSnapshot \/ ScanSealing \/ ScanListed \/ ScanSegments \/ ScanDone
  PROVE  QueryInv'
  <1>1. Scanning => \A id \in q.cand : Predicates(q.filter) # 1 => MatchesId(id, q.filter)
    BY DEF SoundInv, QueryInv, StoreLocked
  <1>2. CASE /\ q.pc = "scan"
             /\ ScanGoes("scan_snapshot", Candidates \ IdsOf(buffer), {}, segments,
                         { r \in buffer : r[1] \in Candidates })
    <2>1. PICK ids, left, hits :
             /\ ids = Candidates /\ left = ids \ IdsOf(buffer)
             /\ hits = { r \in buffer : r[1] \in ids }
      OBVIOUS
    <2>2. /\ \A id \in ids : id \in q.cand /\ (Predicates(q.filter) # 1 => MatchesId(id, q.filter))
          /\ left \subseteq ids /\ \A r \in hits : r[1] \in ids /\ r \in buffer
      BY <2>1 DEF Candidates
    <2>3. q' = Query("scan_snapshot", q.filter, q.arm, q.est, q.n, left, {}, segments, hits)
      BY <1>2, <2>1 DEF ScanGoes
    <2> QED
      BY <1>2, <2>2, <2>3, Scanned
  <1>3. ASSUME NEW to \in {"scan_sealing", "scan_segments", "done"}, Scanning, NEW list,
               ScanGoes(to, q.cand, list, q.listed, q.pool),
               list \subseteq q.todo \cup q.listed \cup sealing
        PROVE  QueryInv'
    <2>1. PICK ids, pool : ids = q.cand /\ pool = q.pool
      OBVIOUS
    <2>2. q' = Query(to, q.filter, q.arm, q.est, q.n, ids, list, q.listed, pool)
      BY <1>3, <2>1 DEF ScanGoes
    <2>3. /\ \A id \in ids : id \in q.cand /\ (Predicates(q.filter) # 1 => MatchesId(id, q.filter))
          /\ \A r \in pool : r \in q.pool
      BY <1>1, <1>3, <2>1
    <2>4. /\ to \in {"scan_snapshot", "scan_sealing", "scan_segments", "done"}
          /\ list \subseteq q.todo \cup q.listed \cup sealing
      BY <1>3
    <2>5. q.listed \subseteq q.listed \cup segments
      OBVIOUS
    <2> QED
      BY <1>3, <2>2, <2>3, <2>4, <2>5, Scanned, SMTT(60)
  <1>4. ASSUME NEW o, LooksUp(o) PROVE QueryInv'
    <2>1. PICK left, both : /\ left = q.cand \ IdsOf(data[o])
                            /\ both = q.pool \cup { r \in LiveIn(o) : r[1] \in q.cand }
      OBVIOUS
    <2>2. /\ q' = Query(q.pc, q.filter, q.arm, q.est, q.n, left, q.todo \ {o}, q.listed, both)
          /\ q.pc \in {"scan_sealing", "scan_segments"} /\ Scanning
      BY <1>4, <2>1 DEF LooksUp, ScanGoes, Scanning
    <2>3. \A r \in both : r \in q.pool \/ (r[1] \in q.cand /\ \E p \in q.todo : r \in LiveIn(p))
      BY <1>4, <2>1 DEF LooksUp
    <2>4. left \subseteq q.cand /\ q.todo \ {o} \subseteq q.todo
      BY <2>1
    <2> QED
      BY <1>1, <2>2, <2>3, <2>4, Scanned
  <1>5. q.pc \in {"scan_snapshot", "scan_sealing", "scan_segments"} => Scanning
    BY DEF Scanning
  <1> QED
    BY <1>2, <1>3, <1>4, <1>5, ScanShape

(* A search begins: what the delete under way removes is not retired. *)
LEMMA BeginStep ==
  ASSUME SoundInv, NEW filter \in Filters, Begin(filter),
         dead' = gone, retired' = gone \ UnderDelete,
         UNCHANGED <<vars, derivedVars, work, gone>>
  PROVE  GoneForGood' /\ DeleteUnderWay' /\ QueryInv'
  <1>0. GoneForGood /\ DeleteUnderWay /\ DerivedInv
    BY DEF SoundInv
  <1>1. PICK pc \in {"shortcut", "plan"} : q' = Query(pc, filter, "none", 0, 0, {}, {}, {}, {})
    BY DEF Begin, NoQuery, Query
  <1>2. /\ q'.pc = pc /\ q'.filter = filter /\ q'.arm = "none" /\ q'.est = 0 /\ q'.n = 0
        /\ q'.cand = {} /\ q'.todo = {} /\ q'.listed = {} /\ q'.pool = {}
    BY <1>1 DEF Query
  <1>3. UNCHANGED <<Content, inserted, metadata, work, gone>>
    BY DEF Content, LiveIn
  <1>4. GoneForGood'
    BY <1>0, <1>3 DEF GoneForGood
  <1>5. DeleteUnderWay'
    <2>1. Deleting => work.id \in Ids
      BY <1>0 DEF DerivedInv, DerivedTypeOK, Deleting
    <2>2. Deleting => Dying \notin retired'
      BY <2>1 DEF UnderDelete, Dying
    <2>3. Deleting' = Deleting /\ Dying' = Dying /\ IdsOf(Content)' = IdsOf(Content)
      BY <1>3 DEF Deleting, Dying, IdsOf
    <2> QED
      BY <1>0, <1>3, <2>2, <2>3 DEF DeleteUnderWay
  <1>6. QueryInv'
    <2>1. ~Walking' /\ ~Scanning' /\ ~SingleScan'
      BY <1>2 DEF Walking, Scanning, SingleScan
    <2>2. QueryTyped'
      BY <1>1, <1>2, <2>1 DEF QueryTyped, Query
    <2> QED
      BY <1>2, <2>1, <2>2 DEF QueryInv, NothingDead, StoreLocked, AllMatch
  <1> QED
    BY <1>4, <1>5, <1>6

LEMMA ReplyStep ==
  ASSUME SoundInv, Reply, dead' = {}, retired' = {},
         UNCHANGED <<vars, derivedVars, work, gone>>
  PROVE  GoneForGood' /\ DeleteUnderWay' /\ QueryInv'
  <1>0. GoneForGood /\ DeleteUnderWay
    BY DEF SoundInv
  <1>1. q' = Query("idle", [eqs |-> {}, ranges |-> {}], "none", 0, 0, {}, {}, {}, {})
    BY DEF Reply, NoQuery, Query
  <1>2. /\ q'.pc = "idle" /\ q'.arm = "none" /\ q'.cand = {} /\ q'.todo = {} /\ q'.listed = {}
        /\ q'.pool = {}
    BY <1>1 DEF Query
  <1>3. UNCHANGED <<Content, inserted, metadata, work, gone>>
    BY DEF Content, LiveIn
  <1>4. GoneForGood'
    BY <1>0, <1>3 DEF GoneForGood
  <1>5. DeleteUnderWay'
    BY <1>0, <1>3 DEF DeleteUnderWay, Deleting, Dying, IdsOf
  <1>6. QueryInv'
    <2>1. ~Walking' /\ ~Scanning' /\ ~SingleScan'
      BY <1>2 DEF Walking, Scanning, SingleScan
    <2>2. QueryTyped'
      BY <1>1, <1>2, <2>1 DEF QueryTyped, Query
    <2> QED
      BY <1>2, <2>1, <2>2 DEF QueryInv, NothingDead, StoreLocked, AllMatch
  <1> QED
    BY <1>4, <1>5, <1>6

LEMMA SearchKeeps ==
  ASSUME SoundInv, SearchStep, QueryFrame
  PROVE  QueryInv'
  <1>1. CASE Shortcut \/ LenSegments \/ LenSealing \/ LenBuffer
    BY <1>1, CountingSteps
  <1>2. CASE PlanEq \/ PlanRanges \/ Fallback
    BY <1>2, PlanSteps
  <1>3. CASE Walk \/ VisitSegment \/ CloneSealing \/ VisitSealing \/ VisitBuffer
    BY <1>3, WalkSteps
  <1>4. CASE ScanBuffer \/ ScanSnapshot \/ ScanSealing \/ ScanListed \/ ScanSegments \/ ScanDone
    BY <1>4, ScanSteps
  <1> QED
    BY <1>1, <1>2, <1>3, <1>4 DEF SearchStep

(* Nothing that the invariant reads changes. *)
LEMMA FrameInv ==
  ASSUME SoundInv, QueryFrame
  PROVE  GoneForGood' /\ DeleteUnderWay' /\ (UNCHANGED q => QueryInv')
  <1>1. UNCHANGED <<Content, inserted, metadata, work, gone, dead, retired>> /\ \A o : LiveIn(o)' = LiveIn(o)
    BY DEF QueryFrame, Content, LiveIn
  <1>2. GoneForGood'
    BY <1>1 DEF SoundInv, GoneForGood
  <1>3. DeleteUnderWay'
    BY <1>1 DEF SoundInv, DeleteUnderWay, Deleting, Dying, IdsOf
  <1>4. ASSUME UNCHANGED q PROVE QueryInv'
    <2>1. QueryTyped' /\ NothingDead' /\ StoreLocked'
      BY <1>1, <1>4, FrameKeeps DEF SoundInv, QueryInv, QueryTyped, NothingDead, StoreLocked, Planning,
           Walking, Scanning, MetadataRead, WalksUnderMetadata
    <2>2. AllMatch'
      BY <1>4, FrameKeeps DEF SoundInv, QueryInv, AllMatch, SingleScan
    <2> QED
      BY <2>1, <2>2 DEF QueryInv
  <1> QED
    BY <1>2, <1>3, <1>4

LEMMA SoundInit == FilteredInit => SoundInv
  <1> SUFFICES ASSUME FilteredInit PROVE SoundInv
    OBVIOUS
  <1>1. DerivedInv /\ AnswerInv
    BY DerivedInit, AnswerInvInit DEF FilteredInit
  <1>2. GoneForGood /\ DeleteUnderWay
    BY DEF FilteredInit, GoneForGood, DeleteUnderWay, Deleting, NoWork
  <1>3. QueryInv
    <2>1. q = NoQuery
      BY DEF FilteredInit
    <2>2. /\ q.pc = "idle" /\ q.arm = "none" /\ q.cand = {} /\ q.todo = {} /\ q.listed = {}
          /\ q.pool = {}
      BY <2>1 DEF NoQuery
    <2>3. ~Walking /\ ~Scanning /\ ~SingleScan
      BY <2>2 DEF Walking, Scanning, SingleScan
    <2>4. QueryTyped
      BY <2>1, <2>2, <2>3 DEF NoQuery, QueryTyped
    <2> QED
      BY <2>2, <2>3, <2>4 DEF QueryInv, NothingDead, StoreLocked, AllMatch
  <1> QED
    BY <1>1, <1>2, <1>3 DEF SoundInv

LEMMA SoundStep == SoundInv /\ [FilteredNext]_filteredVars => SoundInv'
  <1> SUFFICES ASSUME SoundInv, [FilteredNext]_filteredVars PROVE SoundInv'
    OBVIOUS
  <1>0. IInv /\ DerivedInv /\ AnswerInv /\ GoneForGood
    BY DEF SoundInv, DerivedInv
  <1>1. [Next]_vars /\ DerivedInv' /\ AnswerInv'
    BY <1>0, FilteredImplementsNext, DerivedStep, AnswerInvStep
  <1> SUFFICES GoneForGood' /\ DeleteUnderWay' /\ QueryInv'
    BY <1>1 DEF SoundInv
  <1>2. CASE IndexStep
    BY <1>0, <1>1, <1>2, GoneStep, DyingStep, IndexUnderQuery DEF IndexStep
  <1>3. CASE QueryStep
    <2>1. ASSUME SearchStep, UNCHANGED <<vars, derivedVars, work, ghosts>>
          PROVE  GoneForGood' /\ DeleteUnderWay' /\ QueryInv'
      BY <2>1, SearchKeeps, FrameInv DEF QueryFrame
    <2> QED
      BY <1>3, <2>1, BeginStep, ReplyStep DEF QueryStep
  <1>4. CASE UNCHANGED filteredVars
    BY <1>4, FrameInv DEF QueryFrame
  <1> QED
    BY <1>2, <1>3, <1>4 DEF FilteredNext

(* AnswersSound: whatever arm the planner takes, and whatever is inserted, *)
(* deleted, sealed and merged meanwhile, a filtered search answers no      *)
(* record that was deleted before it began and only versions that match,   *)
(* or, in a scan for one predicate, ids with a version that matched.       *)
THEOREM AnswersAreSound == FilteredSpec => []AnswersSound
  <1>1. SoundInv => AnswersSound
    <2> SUFFICES ASSUME SoundInv, At("done") PROVE AnswersSound
      BY DEF AnswersSound
    <2>1. NothingDead /\ AllMatch
      BY DEF SoundInv, QueryInv
    <2> QED
      BY <2>1 DEF AnswersSound, NothingDead, AllMatch, Matched, SingleScan
  <1> QED
    BY <1>1, SoundInit, SoundStep, PTL DEF FilteredSpec

-----------------------------------------------------------------------------
(* Completeness.  KeptFound is about the last state of a search too; this  *)
(* invariant says where a record that has stayed in place is found.        *)

InSealing(r) == \E o \in sealing : r \in LiveIn(o)
Located(r) == r \in buffer \/ InSealing(r) \/ r \in InSegments
KeptKnown ==
    \A r \in kept :
        /\ Located(r) /\ MatchesRecord(r, q.filter) /\ CopiesInOrder(r[1])
        /\ work.pc = "none" \/ work.id # r[1]

(* What the search has collected or cloned has one version of an id, and   *)
(* of a kept id no other than the kept one.                                *)
Cloned == q.todo \cup q.listed
OneVersion ==
    /\ q.pool \subseteq Record
    /\ \A o \in Cloned : \A x, y \in data[o] : x[1] = y[1] => x = y
    /\ \A r \in kept : \A x \in q.pool : x[1] = r[1] => x = r
    /\ \A r \in kept : \A o \in Cloned : \A x \in LiveIn(o) : x[1] = r[1] => x = r

(* The candidates, from the moment the plan has some. *)
Filtering ==
    \/ q.pc \in {"plan_ranges", "fallback"}
    \/ q.pc \in {"walk", "segments", "sealing"} /\ q.arm # "all"
KeptCandidates ==
    (Filtering /\ q.filter.eqs # {}) \/ q.pc = "scan" => IdsOf(kept) \subseteq q.cand

(* The newest object of a list that has the id has r, alive. *)
FirstIn(r, list) ==
    \E p \in list : r \in LiveIn(p) /\ \A o \in list : p < o => r[1] \notin IdsOf(data[o])
NowhereIn(r, list) == \A o \in list : r[1] \notin IdsOf(data[o])

Enough == Cardinality(IdsOf(q.pool)) >= K
ToVisit(r) == r \in q.pool \/ \E o \in q.todo : r \in LiveIn(o)
LeftToLookUp(pc, todo, listed, r) ==
    CASE pc = "scan_snapshot" -> InSealing(r) \/ (r \in InSegments /\ FirstIn(r, listed))
      [] pc = "scan_sealing" -> FirstIn(r, todo) \/ (NowhereIn(r, todo) /\ FirstIn(r, listed))
      [] pc = "scan_segments" -> FirstIn(r, todo)
ToLookUp(r) == LeftToLookUp(q.pc, q.todo, q.listed, r)
KeptAhead ==
    /\ q.pc = "segments" /\ q.arm # "post" =>
           Enough \/ \A r \in kept : ToVisit(r) \/ InSealing(r) \/ r \in buffer
    /\ q.pc = "sealing" /\ q.arm # "post" =>
           Enough \/ \A r \in kept : ToVisit(r) \/ r \in buffer
    /\ Scanning => \A r \in kept : r \in q.pool \/ (r[1] \in q.cand /\ ToLookUp(r))
    /\ q.pc = "done" => Enough \/ kept \subseteq q.pool

KeptInv == KeptKnown /\ OneVersion /\ KeptCandidates /\ KeptAhead

LEMMA ObjectsFixed ==
  ASSUME IInv, [Next]_vars
  PROVE  \A o \in Allocated : data'[o] = data[o]
  <1>0. fresh \in Nat /\ Allocated \subseteq Obj /\ data \in [Obj -> SUBSET Record]
    BY BoundsAssumption DEF IInv, TypeOK, ListsTypeOK, Allocated, Obj
  <1>1. ASSUME NEW records, NEW buried, Allocate(records, buried)
        PROVE  \A o \in Allocated : data'[o] = data[o]
    BY <1>0, <1>1 DEF Allocate, Allocated
  <1>2. CASE UNCHANGED indexVars
    BY <1>2 DEF indexVars
  <1>3. CASE ApplyInsert \/ DeleteFromBuffer \/ SealSwap \/ DeleteFromSealing \/ DeleteFromSegments
    BY <1>3 DEF ApplyInsert, DeleteFromBuffer, SealSwap, DeleteFromSealing, DeleteFromSegments
  <1>4. CASE SealPush
    BY <1>1, <1>4 DEF SealPush
  <1>5. ASSUME NEW t \in SealThreads, BuildOne(t) PROVE \A o \in Allocated : data'[o] = data[o]
    BY <1>1, <1>5 DEF BuildOne
  <1>6. ASSUME NEW t \in MergeThreads, MergeSwap(t) PROVE \A o \in Allocated : data'[o] = data[o]
    BY <1>1, <1>6 DEF MergeSwap
  <1> QED
    BY <1>2, <1>3, <1>4, <1>5, <1>6, IndexSteps

(* A live record is in one place, and a kept one stays in that place. *)
LEMMA OnePlace ==
  ASSUME IInv, NEW r
  PROVE  /\ r \in buffer => ~InSealing(r) /\ r \notin InSegments
         /\ InSealing(r) => r \notin InSegments
  <1>1. LiveUnique /\ ListsDisjoint
    BY DEF IInv, DataInv
  <1>2. ASSUME NEW o \in Listed, r \in LiveIn(o)
        PROVE  r \notin buffer /\ \A p \in Listed : r \in LiveIn(p) => p = o
    BY <1>1, <1>2 DEF LiveUnique, WriterHeld
  <1> QED
    BY <1>1, <1>2 DEF InSealing, InSegments, Listed, ListsDisjoint

LEMMA StaysPut ==
  ASSUME IInv, [Next]_vars, NEW r, Stays(r)
  PROVE  /\ r \in Content' /\ Located(r)'
         /\ r \in buffer => r \in buffer'
         /\ InSealing(r) => InSealing(r)'
         /\ r \in InSegments => r \in InSegments'
  <1>1. \A o \in sealing : o \in Allocated /\ data'[o] = data[o]
    BY ContentListed, ObjectsFixed
  <1>2. \/ r \in buffer /\ r \in buffer'
        \/ InSealing(r) /\ InSealing(r)'
        \/ r \in InSegments /\ r \in InSegments'
    BY <1>1 DEF Stays, InSealing, LiveIn
  <1>3. Located(r)'
    BY <1>2 DEF Located
  <1>4. r \in Content'
    BY <1>2 DEF Content, InSealing, InSegments
  <1> QED
    BY <1>2, <1>3, <1>4, OnePlace

(* A kept record is live and indexed, and the store has all of its facts. *)
LEMMA KeptRecord ==
  ASSUME SoundInv, KeptKnown, NEW r \in kept
  PROVE  /\ r \in Content /\ r[1] \in Ids /\ r \in Record /\ r[2] = inserted[r[1]]
         /\ \A f \in FactsOf[r] : <<f, r[1]>> \in postings /\ (f \in NumberFacts => <<f, r[1]>> \in numeric)
         /\ MatchesId(r[1], q.filter)
  <1>1. DerivedInv /\ AnswerInv /\ DeleteUnderWay /\ IInv
    BY DEF SoundInv, DerivedInv
  <1>2. r \in Content
    BY DEF KeptKnown, Located, InSealing, InSegments, Content
  <1>3. r[1] \in Ids /\ r \in Record /\ r[2] = inserted[r[1]]
    <2>1. r = <<r[1], inserted[r[1]]>> /\ r[1] \in Ids /\ r \in Record
      BY <1>1, <1>2, LiveRecord
    <2> QED
      BY <2>1
  <1>4. FactsOf[r] \subseteq Facts /\ \A x \in Content : x[1] = r[1] => x = r
    BY <1>1, <1>2, <1>3, ContentTyped, FilterAssumption
  <1>5. LiveFactsOf(r[1]) = FactsOf[r]
    BY <1>2, <1>4 DEF LiveFactsOf
  <1>6. Settled(r[1])
    BY <1>1, <1>3 DEF KeptKnown, DerivedInv, WalkInv
  <1>7. PostingsOf(r[1]) = FactsOf[r] /\ NumbersOf(r[1]) = FactsOf[r] \cap NumberFacts /\ metadata[r[1]] = FactsOf[r]
    BY <1>5, <1>6 DEF Settled, Has
  <1> QED
    BY <1>2, <1>3, <1>7 DEF PostingsOf, NumbersOf, KeptKnown, MatchesId, MatchesRecord

(* The writer turns to a kept record only to delete it. *)
LEMMA WorkElsewhere ==
  ASSUME SoundInv, IndexStep, NEW r \in Content, r \in Content',
         work.pc = "none" \/ work.id # r[1]
  PROVE  work'.pc = "none" \/ work'.id # r[1]
  <1>0. IInv /\ DerivedInv /\ DerivedTypeOK
    BY DEF SoundInv, DerivedInv
  <1>1. CASE VectorStep
    <2>0. [Next]_vars
      BY <1>1 DEF VectorStep, Next
    <2>1. work' = NextWork /\ NoWork.pc = "none"
      BY <1>1 DEF VectorStep, NoWork
    <2>2. work' = NoWork \/ work'.id = wid
      BY <2>1 DEF NextWork
    <2>3. CASE Inserting
      BY <2>1, <2>2, <2>3 DEF Inserting, IdsOf
    <2>4. CASE Removing
      <3>1. PICK v \in Vectors : <<wid, v>> \in Content /\ Content' = Content \ {<<wid, v>>}
        BY <2>4 DEF Removing, AbstractStore!Delete
      <3>2. r[1] # wid
        BY <1>0, <3>1, ContentTyped
      <3> QED
        BY <2>1, <2>2, <3>2
    <2>5. CASE Invisible
      BY <2>1, <2>5 DEF Invisible, NextWork
    <2> QED
      BY <1>0, <2>0, <2>3, <2>4, <2>5, ContentSteps
  <1>2. CASE BackgroundStep
    BY <1>0, <1>2, BackgroundInvisible
  <1>3. CASE MetadataStep
    <2>1. work.pc # "none"
      BY <1>3 DEF MetadataStep, IndexPostings, IndexNumeric, IndexMetadata, RemoveMetadata,
           RemovePostings, RemoveNumeric
    <2>2. \A pc : WorkOn(pc) => work'.id = work.id
      BY <1>0 DEF WorkOn, DerivedTypeOK
    <2>3. CASE RemoveMetadata
      BY <1>0, <2>3 DEF RemoveMetadata, NoWork, DerivedTypeOK
    <2>4. CASE work' = NoWork
      BY <2>4 DEF NoWork
    <2> QED
      BY <1>3, <2>1, <2>2, <2>3, <2>4 DEF MetadataStep, IndexPostings, IndexNumeric, IndexMetadata,
         RemovePostings, RemoveNumeric
  <1> QED
    BY <1>1, <1>2, <1>3 DEF IndexStep

LEMMA IndexUnderKept ==
  ASSUME SoundInv, KeptInv, IndexStep
  PROVE  KeptInv'
  <1>0. /\ IInv /\ QueryTyped /\ KeptKnown /\ OneVersion /\ KeptCandidates /\ KeptAhead
        /\ [Next]_vars /\ UNCHANGED q
    <2>1. [FilteredNext]_filteredVars /\ UNCHANGED q
      BY DEF IndexStep, FilteredNext
    <2> QED
      BY <2>1, FilteredImplementsNext DEF SoundInv, DerivedInv, QueryInv, KeptInv
  <1>1. /\ kept' \subseteq kept
        /\ \A r \in kept' : Stays(r) /\ CopiesInOrder(r[1])'
    BY DEF IndexStep
  <1>2. \A r \in kept' : /\ r \in Content /\ r \in Content' /\ Located(r)'
                         /\ r \in buffer => r \in buffer'
                         /\ InSealing(r) => InSealing(r)'
                         /\ r \in InSegments => r \in InSegments'
    BY <1>0, <1>1, StaysPut, KeptRecord
  <1>3. /\ Cloned \subseteq Allocated /\ \A o \in Cloned : data'[o] = data[o]
        /\ \A o \in Cloned : LiveIn(o)' \subseteq LiveIn(o)
        /\ \A o \in Cloned : \A r \in LiveIn(o) : r \in Content' => r \in LiveIn(o)'
    <2>1. Cloned \subseteq Allocated
      BY <1>0 DEF QueryTyped, Cloned
    <2> QED
      BY <1>0, <2>1, ObjectsFixed, ObjectsKept
  <1>4. KeptKnown'
    <2>1. \A r \in kept' : work'.pc = "none" \/ work'.id # r[1]
      BY <1>0, <1>1, <1>2, WorkElsewhere DEF KeptKnown
    <2>2. \A r \in kept' : MatchesRecord(r, q.filter)'
      BY <1>0, <1>1 DEF KeptKnown, MatchesRecord
    <2> QED
      BY <1>1, <1>2, <2>1, <2>2 DEF KeptKnown
  <1>5. OneVersion'
    BY <1>0, <1>1, <1>3 DEF OneVersion, Cloned
  <1>6. KeptCandidates'
    <2>1. Filtering' = Filtering /\ IdsOf(kept)' \subseteq IdsOf(kept)
      BY <1>0, <1>1 DEF Filtering, IdsOf
    <2> QED
      BY <1>0, <2>1 DEF KeptCandidates
  <1>7. \A r \in kept' : \A list \in SUBSET Cloned :
           /\ FirstIn(r, list) => FirstIn(r, list)'
           /\ NowhereIn(r, list) => NowhereIn(r, list)'
    BY <1>2, <1>3 DEF FirstIn, NowhereIn, IdsOf
  <1>8. Enough' = Enough /\ Scanning' = Scanning
    BY <1>0 DEF Enough, Scanning, IdsOf
  <1>9. \A r \in kept' : /\ ToVisit(r) => ToVisit(r)'
                         /\ Scanning /\ ToLookUp(r) => ToLookUp(r)'
    <2>1. \A r \in kept' : ToVisit(r) => ToVisit(r)'
      BY <1>0, <1>2, <1>3 DEF ToVisit, Cloned
    <2>2. q.todo \in SUBSET Cloned /\ q.listed \in SUBSET Cloned
      BY DEF Cloned
    <2>3. ASSUME NEW r \in kept', Scanning, ToLookUp(r) PROVE ToLookUp(r)'
      BY <1>0, <1>2, <1>7, <2>2, <2>3 DEF ToLookUp, LeftToLookUp, Scanning
    <2> QED
      BY <2>1, <2>3
  <1>10. KeptAhead'
    BY <1>0, <1>1, <1>2, <1>8, <1>9 DEF KeptAhead
  <1> QED
    BY <1>4, <1>5, <1>6, <1>10 DEF KeptInv

(* The steps of the search: the records and the indexes stay as they are. *)

SearchFrame == UNCHANGED <<vars, derivedVars, work, ghosts>>

LEMMA KeptFrame ==
  ASSUME SearchFrame, q'.filter = q.filter
  PROVE  /\ QueryFrame /\ kept' = kept /\ IdsOf(kept)' = IdsOf(kept)
         /\ \A o : LiveIn(o)' = LiveIn(o)
         /\ \A r : Located(r)' = Located(r) /\ InSealing(r)' = InSealing(r)
         /\ InSegments' = InSegments
         /\ KeptKnown => KeptKnown'
  <1>1. QueryFrame /\ kept' = kept /\ UNCHANGED <<work, data, tombs, buffer, sealing, segments>>
    BY DEF SearchFrame, QueryFrame
  <1>2. IdsOf(kept)' = IdsOf(kept)
    BY <1>1 DEF IdsOf
  <1>3. \A o : LiveIn(o)' = LiveIn(o)
    BY <1>1 DEF LiveIn
  <1>4. \A r : Located(r)' = Located(r) /\ InSealing(r)' = InSealing(r)
    BY <1>1, <1>3 DEF Located, InSealing, InSegments
  <1>5. InSegments' = InSegments
    BY <1>1, <1>3 DEF InSegments
  <1>6. \A id : CopiesInOrder(id)' = CopiesInOrder(id)
    BY <1>1 DEF CopiesInOrder
  <1>7. \A r : MatchesRecord(r, q.filter)' = MatchesRecord(r, q.filter)
    BY DEF MatchesRecord
  <1>8. KeptKnown => KeptKnown'
    BY <1>1, <1>4, <1>6, <1>7 DEF KeptKnown
  <1> QED
    BY <1>1, <1>2, <1>3, <1>4, <1>5, <1>8

(* Every index the planner draws candidates from has the kept ids. *)
LEMMA KeptIndexed ==
  ASSUME SoundInv, KeptKnown
  PROVE  /\ \A fact \in q.filter.eqs : IdsOf(kept) \subseteq Posting(fact)
         /\ \A range \in q.filter.ranges : IdsOf(kept) \subseteq EnumerateRange(range)
         /\ \A r \in kept : r[1] \in IdsOf(kept)
  <1>0. DerivedInv /\ AnswerInv /\ DeleteUnderWay
    BY DEF SoundInv
  <1>1. ASSUME NEW r \in kept, NEW fact \in q.filter.eqs PROVE r[1] \in Posting(fact)
    <2>1. fact \in FactsOf[r]
      BY <1>1 DEF KeptKnown, MatchesRecord, Matches
    <2>2. <<fact, r[1]>> \in postings
      BY <1>1, <2>1, KeptRecord
    <2>3. PICK p : p = <<fact, r[1]>> /\ p \in postings /\ p[1] = fact /\ p[2] = r[1]
      BY <2>2
    <2> QED
      BY <2>3 DEF Posting
  <1>2. ASSUME NEW r \in kept, NEW range \in q.filter.ranges PROVE r[1] \in EnumerateRange(range)
    <2>1. PICK fact \in FactsOf[r] \cap NumberFacts : InRange(fact, range)
      BY <1>2 DEF KeptKnown, MatchesRecord, Matches
    <2>2. <<fact, r[1]>> \in numeric
      BY <1>2, <2>1, KeptRecord
    <2>3. PICK p : p = <<fact, r[1]>> /\ p \in numeric /\ p[1] = fact /\ p[2] = r[1]
      BY <2>2
    <2> QED
      BY <2>1, <2>3 DEF EnumerateRange
  <1> QED
    BY <1>1, <1>2 DEF IdsOf

(* While it plans, a search loses a record only from the candidates. *)
LEMMA KeptPlanned ==
  ASSUME KeptKnown, SearchFrame,
         NEW pc \in PlanPC, NEW arm, NEW est, NEW n, NEW cand,
         q' = Query(pc, q.filter, arm, est, n, cand, {}, {}, {}),
         pc \in {"plan_ranges", "fallback"} \/ (pc = "walk" /\ arm # "all") =>
             q.filter.eqs = {} \/ IdsOf(kept) \subseteq cand,
         pc = "scan" => IdsOf(kept) \subseteq cand,
         pc = "done" => kept = {}
  PROVE  KeptInv'
  <1>0. /\ q'.pc = pc /\ q'.filter = q.filter /\ q'.arm = arm
        /\ q'.cand = cand /\ q'.todo = {} /\ q'.listed = {} /\ q'.pool = {}
    BY DEF Query
  <1>1. KeptKnown' /\ kept' = kept /\ IdsOf(kept)' = IdsOf(kept)
    BY <1>0, KeptFrame
  <1>2. OneVersion'
    BY <1>0 DEF OneVersion, Cloned
  <1>3. KeptCandidates'
    BY <1>0, <1>1 DEF KeptCandidates, Filtering, PlanPC
  <1>4. KeptAhead'
    BY <1>0, <1>1 DEF KeptAhead, Scanning, PlanPC
  <1> QED
    BY <1>1, <1>2, <1>3, <1>4 DEF KeptInv

LEMMA KeptCountingSteps ==
  ASSUME SoundInv, KeptInv, SearchFrame, Shortcut \/ LenSegments \/ LenSealing \/ LenBuffer
  PROVE  KeptInv'
  <1>1. {"walk", "len_segments", "len_sealing", "len_buffer", "plan"} \subseteq PlanPC
    BY DEF PlanPC
  <1> QED
    BY <1>1, CountingShape, KeptPlanned DEF KeptInv

LEMMA KeptPlanSteps ==
  ASSUME SoundInv, KeptInv, SearchFrame, PlanEq \/ PlanRanges \/ Fallback
  PROVE  KeptInv'
  <1>1. PICK arm, cand : PlanGoes(arm, cand)
    BY PlanShape
  <1>2. KeptKnown /\ KeptCandidates
    BY DEF KeptInv
  <1>3. /\ FromPosting({}) \/ FromRange({}) => kept = {}
        /\ FromPosting(cand) \/ FromRange(cand) => IdsOf(kept) \subseteq cand
    BY <1>2, KeptIndexed DEF FromPosting, FromRange
  <1>4. q.pc \in {"plan_ranges", "fallback"} /\ q.filter.eqs # {} => IdsOf(kept) \subseteq q.cand
    BY <1>2 DEF KeptCandidates, Filtering
  <1>5. {"plan_ranges", "walk", "scan", "done"} \subseteq PlanPC
    BY DEF PlanPC
  <1>6. CASE Goes("done", q.arm, q.cand) /\ (FromPosting({}) \/ FromRange({}))
    BY <1>2, <1>3, <1>5, <1>6, KeptPlanned DEF Goes
  <1>7. CASE Goes("plan_ranges", arm, cand) /\ ((q.filter.eqs = {} /\ cand = q.cand) \/ FromPosting(cand))
    BY <1>2, <1>3, <1>5, <1>7, KeptPlanned DEF Goes
  <1>8. CASE Goes("scan", "scan", cand) /\ IdsOf(kept) \subseteq cand
    BY <1>2, <1>5, <1>8, KeptPlanned DEF Goes
  <1>9. CASE q.pc = "plan_ranges" /\ Goes("walk", arm, q.cand)
    BY <1>2, <1>4, <1>5, <1>9, KeptPlanned DEF Goes
  <1> QED
    BY <1>1, <1>3, <1>4, <1>6, <1>7, <1>8, <1>9 DEF PlanGoes

(* How many ids: of records with an id each, as many as records. *)
LEMMA IdsCounted ==
  ASSUME NEW hits, hits \subseteq Record
  PROVE  /\ IsFiniteSet(IdsOf(hits)) /\ Cardinality(IdsOf(hits)) \in Nat
         /\ (\A x, y \in hits : x[1] = y[1] => x = y) => Cardinality(hits) = Cardinality(IdsOf(hits))
         /\ \A some : IdsOf(some) \subseteq IdsOf(hits) =>
                Cardinality(IdsOf(some)) \in Nat /\ Cardinality(IdsOf(some)) <= Cardinality(IdsOf(hits))
  <1>0. IdsOf(hits) \subseteq Ids
    BY DEF IdsOf, Record
  <1>1. IsFiniteSet(IdsOf(hits))
    BY <1>0, FilterAssumption, FS_Subset
  <1>2. Cardinality(IdsOf(hits)) \in Nat
    BY <1>1, FS_CardinalityType
  <1>3. ASSUME \A x, y \in hits : x[1] = y[1] => x = y
        PROVE  Cardinality(hits) = Cardinality(IdsOf(hits))
    <2>1. PICK ids, f : ids = IdsOf(hits) /\ f = [x \in hits |-> x[1]]
      OBVIOUS
    <2>2. /\ f \in [hits -> ids] /\ \A id \in ids : \E x \in hits : f[x] = id
          /\ \A x, y \in hits : f[x] = f[y] => x = y
      BY <1>3, <2>1 DEF IdsOf
    <2>3. f \in Injection(hits, ids) /\ f \in Surjection(hits, ids)
      BY <2>2 DEF Injection, Surjection, IsInjective
    <2>4. IsFiniteSet(hits)
      BY <1>1, <2>1, <2>3, FS_Injection
    <2> QED
      BY <2>1, <2>3, <2>4, FS_Surjection
  <1>4. ASSUME NEW some, IdsOf(some) \subseteq IdsOf(hits)
        PROVE  Cardinality(IdsOf(some)) \in Nat /\ Cardinality(IdsOf(some)) <= Cardinality(IdsOf(hits))
    <2>1. IsFiniteSet(IdsOf(some)) /\ Cardinality(IdsOf(some)) <= Cardinality(IdsOf(hits))
      BY <1>1, <1>4, FS_Subset
    <2> QED
      BY <2>1, FS_CardinalityType
  <1> QED
    BY <1>1, <1>2, <1>3, <1>4

(* An exact source that reports no more than K reports enough. *)
LEMMA EnoughReported ==
  ASSUME NEW s, NEW hits, hits \subseteq Record, s \subseteq hits,
         \A x, y \in s : x[1] = y[1] => x = y, Cardinality(s) = K
  PROVE  Cardinality(IdsOf(hits)) >= K
  <1>1. s \subseteq Record /\ IdsOf(s) \subseteq IdsOf(hits)
    BY DEF IdsOf
  <1>2. Cardinality(IdsOf(s)) = K
    BY <1>1, IdsCounted
  <1> QED
    BY <1>1, <1>2, IdsCounted, FilterAssumption

LEMMA MoreIsEnough ==
  ASSUME NEW pool, NEW hits, hits \subseteq Record, IdsOf(pool) \subseteq IdsOf(hits),
         Cardinality(IdsOf(pool)) >= K
  PROVE  Cardinality(IdsOf(hits)) >= K
  <1>1. /\ Cardinality(IdsOf(pool)) \in Nat /\ Cardinality(IdsOf(hits)) \in Nat
        /\ Cardinality(IdsOf(pool)) <= Cardinality(IdsOf(hits)) /\ K \in Nat
    BY IdsCounted, FilterAssumption
  <1> QED
    BY <1>1

(* The objects a search may have on its lists, and those of the index. *)
LEMMA ListedCopies ==
  ASSUME SoundInv, KeptKnown
  PROVE  /\ \A o \in Cloned \cup sealing \cup segments : LiveIn(o) \subseteq Record /\ LiveIn(o) \subseteq data[o]
         /\ \A o \in sealing \cup segments :
               /\ \A x, y \in data[o] : x[1] = y[1] => x = y
               /\ LiveIn(o) \subseteq Content
         /\ buffer \subseteq Record /\ buffer \subseteq Content
         /\ \A r \in kept : r \in Content
         /\ \A x, y \in Content : x[1] = y[1] => x = y
  <1>1. /\ IInv /\ AnswerInv /\ QueryTyped
        /\ Cloned \cup sealing \cup segments \subseteq Allocated
        /\ \A o \in sealing \cup segments : LiveIn(o) \subseteq Content
        /\ buffer \subseteq Content
    BY ContentListed DEF SoundInv, DerivedInv, QueryInv, QueryTyped, Cloned
  <1>2. Allocated \subseteq Obj /\ data \in [Obj -> SUBSET Record]
    BY <1>1, BoundsAssumption DEF IInv, TypeOK, ListsTypeOK, Allocated, Obj
  <1>3. \A o \in Cloned \cup sealing \cup segments : LiveIn(o) \subseteq Record /\ LiveIn(o) \subseteq data[o]
    BY <1>1, <1>2 DEF LiveIn
  <1>4. \A o \in sealing \cup segments : \A x, y \in data[o] : x[1] = y[1] => x = y
    BY <1>1 DEF AnswerInv, CopiesSound, Listed
  <1>5. \A x, y \in Content : x[1] = y[1] => x = y
    BY <1>1, ContentTyped
  <1>6. buffer \subseteq Record
    BY <1>1, ContentTyped DEF Record
  <1>7. \A r \in kept : r \in Content
    BY KeptRecord
  <1> QED
    BY <1>1, <1>3, <1>4, <1>5, <1>6, <1>7

LEMMA KeptVersions ==
  ASSUME SoundInv, KeptInv, SearchFrame,
         NEW pc, NEW arm, NEW cand, NEW todo, NEW listed, NEW pool,
         q' = Query(pc, q.filter, arm, q.est, q.n, cand, todo, listed, pool),
         todo \cup listed \subseteq Cloned \cup sealing \cup segments,
         \A r \in pool : r \in q.pool \/ r \in buffer \/ \E o \in q.todo : r \in LiveIn(o)
  PROVE  KeptKnown' /\ OneVersion' /\ pool \subseteq Record
  <1>0. /\ q'.filter = q.filter /\ q'.todo = todo /\ q'.listed = listed /\ q'.pool = pool
        /\ KeptKnown /\ OneVersion
    BY DEF Query, KeptInv
  <1>1. KeptKnown' /\ kept' = kept /\ data' = data /\ \A o : LiveIn(o)' = LiveIn(o)
    BY <1>0, KeptFrame DEF SearchFrame
  <1>2. pool \subseteq Record
    BY <1>0, ListedCopies DEF OneVersion, Cloned
  <1>3. \A o \in todo \cup listed : \A x, y \in data[o] : x[1] = y[1] => x = y
    BY <1>0, ListedCopies DEF OneVersion
  <1>4. \A r \in kept : \A x \in pool : x[1] = r[1] => x = r
    BY <1>0, ListedCopies DEF OneVersion, Cloned
  <1>5. \A r \in kept : \A o \in todo \cup listed : \A x \in LiveIn(o) : x[1] = r[1] => x = r
    BY <1>0, ListedCopies DEF OneVersion
  <1>6. OneVersion'
    BY <1>0, <1>1, <1>2, <1>3, <1>4, <1>5 DEF OneVersion, Cloned
  <1> QED
    BY <1>1, <1>2, <1>6

(* A source that is searched exactly reports a kept record it has, or K.   *)
LEMMA Reported ==
  ASSUME SoundInv, KeptKnown, NEW records, NEW s \in ReportedBy(records),
         NEW hits, hits \subseteq Record, s \subseteq hits,
         \A x, y \in records : x[1] = y[1] => x = y
  PROVE  Cardinality(IdsOf(hits)) >= K \/ \A r \in kept : r \in records => r \in s
  <1>1. CASE s = Allowed(records)
    BY <1>1, KeptRecord DEF Allowed
  <1>2. CASE Cardinality(s) = K
    <2>1. s \subseteq records
      BY DEF ReportedBy, Allowed
    <2> QED
      BY <1>2, <2>1, EnoughReported
  <1> QED
    BY <1>1, <1>2 DEF ReportedBy

(* The invariant of a walk that goes on. *)
LEMMA KeptWalks ==
  ASSUME SoundInv, KeptInv, SearchFrame, q.pc \in {"walk", "segments", "sealing"},
         NEW pc \in {"segments", "sealing"}, NEW todo, NEW pool, WalkGoes(pc, todo, pool),
         todo \subseteq q.todo \cup sealing \cup segments,
         \A r \in pool : r \in q.pool \/ \E o \in q.todo : r \in LiveIn(o),
         q.arm # "post" =>
            \/ Cardinality(IdsOf(pool)) >= K
            \/ \A r \in kept : \/ r \in pool \/ \E o \in todo : r \in LiveIn(o)
                               \/ pc = "segments" /\ InSealing(r)
                               \/ r \in buffer
  PROVE  KeptInv'
  <1>0. /\ q'.pc = pc /\ q'.filter = q.filter /\ q'.arm = q.arm /\ q'.cand = q.cand
        /\ q'.todo = todo /\ q'.listed = {} /\ q'.pool = pool
        /\ KeptKnown /\ KeptCandidates
    BY DEF WalkGoes, Query, KeptInv
  <1>1. KeptKnown' /\ OneVersion'
    BY KeptVersions DEF WalkGoes, Cloned
  <1>2. /\ kept' = kept /\ IdsOf(kept)' = IdsOf(kept) /\ buffer' = buffer
        /\ \A o : LiveIn(o)' = LiveIn(o) /\ \A r : InSealing(r)' = InSealing(r)
    BY <1>0, KeptFrame DEF SearchFrame
  <1>3. KeptCandidates'
    BY <1>0, <1>2 DEF KeptCandidates, Filtering
  <1>4. Enough' <=> Cardinality(IdsOf(pool)) >= K
    BY <1>0 DEF Enough, IdsOf
  <1>5. KeptAhead'
    BY <1>0, <1>2, <1>4 DEF KeptAhead, ToVisit, Scanning
  <1> QED
    BY <1>1, <1>3, <1>5 DEF KeptInv

(* One more object of a list, and then the buffer. *)
LEMMA KeptObject ==
  ASSUME SoundInv, KeptInv, SearchFrame, NEW o, NEW s, VisitsObject(o, s)
  PROVE  KeptInv'
  <1> PICK both, todo : both = q.pool \cup s /\ todo = q.todo \ {o}
    OBVIOUS
  <1>0. /\ KeptKnown /\ OneVersion /\ KeptAhead /\ o \in Cloned
        /\ q.pc \in {"segments", "sealing"} /\ o \in q.todo
        /\ WalkGoes(q.pc, todo, both)
        /\ \A r \in both : r \in q.pool \/ \E p \in q.todo : r \in LiveIn(p)
    BY DEF KeptInv, VisitsObject, Allowed, Cloned
  <1>1. both \subseteq Record
    BY <1>0, KeptVersions DEF WalkGoes, Cloned
  <1>2. ASSUME q.arm # "post"
        PROVE  \/ Cardinality(IdsOf(both)) >= K
               \/ \A r \in kept : \/ r \in both \/ \E p \in todo : r \in LiveIn(p)
                                  \/ q.pc = "segments" /\ InSealing(r)
                                  \/ r \in buffer
    <2>1. s \in ReportedBy(LiveIn(o)) /\ \A x, y \in LiveIn(o) : x[1] = y[1] => x = y
      BY <1>0, <1>2, ListedCopies DEF VisitsObject, OneVersion
    <2>2. Cardinality(IdsOf(both)) >= K \/ \A r \in kept : r \in LiveIn(o) => r \in s
      BY <1>0, <1>1, <2>1, Reported
    <2>3. CASE Enough
      <3>1. IdsOf(q.pool) \subseteq IdsOf(both)
        BY DEF IdsOf
      <3> QED
        BY <1>1, <2>3, <3>1, MoreIsEnough DEF Enough
    <2>4. CASE \A r \in kept : ToVisit(r) \/ (q.pc = "segments" /\ InSealing(r)) \/ r \in buffer
      BY <2>2, <2>4 DEF ToVisit
    <2> QED
      BY <1>0, <1>2, <2>3, <2>4 DEF KeptAhead
  <1> QED
    BY <1>0, <1>2, KeptWalks

LEMMA KeptBuffer ==
  ASSUME SoundInv, KeptInv, SearchFrame, NEW s, NEW hits, VisitsBuffer(s, hits)
  PROVE  KeptInv'
  <1> PICK both : both = q.pool \cup s
    OBVIOUS
  <1>0. /\ KeptKnown /\ OneVersion /\ KeptAhead /\ KeptCandidates
        /\ q.pc = "sealing" /\ q.todo = {}
        /\ s \in ReportedBy(buffer) /\ hits \in OnePerId(both)
        /\ q.arm \in {"all", "post", "legacy"}
    BY DEF KeptInv, VisitsBuffer, SoundInv, QueryInv, QueryTyped, Walking
  <1>1. CASE q.arm = "post" /\ WalkGoes("fallback", {}, {})
    <2>1. q.filter.eqs # {} => IdsOf(kept) \subseteq q.cand
      BY <1>0, <1>1 DEF KeptCandidates, Filtering
    <2>2. "fallback" \in PlanPC
      BY DEF PlanPC
    <2> QED
      BY <1>0, <1>1, <2>1, <2>2, KeptPlanned DEF WalkGoes
  <1>2. CASE (q.arm = "post" => ~(Cardinality(hits) < 2 * K)) /\ WalkGoes("done", {}, hits)
    <2>1. /\ hits \subseteq both /\ IdsOf(hits) = IdsOf(both)
          /\ \A x, y \in hits : x[1] = y[1] => x = y
          /\ s \subseteq buffer
      BY <1>0 DEF OnePerId, ReportedBy, Allowed
    <2>2. both \subseteq Record /\ \A x, y \in buffer : x[1] = y[1] => x = y
      BY <1>0, <2>1, ListedCopies DEF OneVersion
    <2>3. hits \subseteq Record /\ Cardinality(hits) = Cardinality(IdsOf(both))
      BY <2>1, <2>2, IdsCounted
    <2>4. KeptKnown' /\ OneVersion'
      BY <1>0, <1>2, <2>1, KeptVersions DEF WalkGoes, Cloned
    <2>5. Cardinality(IdsOf(hits)) >= K \/ kept \subseteq hits
      <3>1. CASE q.arm = "post"
        <4>1. Cardinality(hits) \in Nat /\ K \in Nat /\ ~(Cardinality(hits) < 2 * K)
          BY <1>2, <2>2, <2>3, <3>1, IdsCounted, FilterAssumption
        <4>2. Cardinality(hits) >= K
          BY <4>1
        <4> QED
          BY <2>1, <2>3, <4>2
      <3>2. CASE q.arm # "post" /\ Enough
        <4>1. IdsOf(q.pool) \subseteq IdsOf(both)
          BY DEF IdsOf
        <4> QED
          BY <2>1, <2>2, <3>2, <4>1, MoreIsEnough DEF Enough
      <3>3. CASE q.arm # "post" /\ \A r \in kept : ToVisit(r) \/ r \in buffer
        <4>1. \A r \in kept : r \in q.pool \/ r \in buffer
          BY <1>0, <3>3 DEF ToVisit
        <4>2. Cardinality(IdsOf(both)) >= K \/ \A r \in kept : r \in buffer => r \in s
          BY <1>0, <2>2, Reported
        <4>3. ASSUME NEW r \in kept, r \in both PROVE r \in hits
          <5>1. r[1] \in IdsOf(hits)
            BY <2>1, <4>3 DEF IdsOf
          <5>2. PICK h \in hits : h[1] = r[1]
            BY <5>1 DEF IdsOf
          <5>3. h = r
            BY <1>0, <2>1, <5>2, ListedCopies DEF OneVersion
          <5> QED
            BY <5>2, <5>3
        <4> QED
          BY <2>1, <4>1, <4>2, <4>3
      <3> QED
        BY <1>0, <3>1, <3>2, <3>3 DEF KeptAhead
    <2>6. /\ q'.pc = "done" /\ q'.filter = q.filter /\ q'.pool = hits /\ kept' = kept
      BY <1>2, KeptFrame DEF WalkGoes, Query
    <2>7. KeptCandidates'
      BY <2>6 DEF KeptCandidates, Filtering
    <2>8. KeptAhead'
      BY <2>5, <2>6 DEF KeptAhead, Scanning, Enough, IdsOf
    <2> QED
      BY <2>4, <2>7, <2>8 DEF KeptInv
  <1> QED
    BY <1>1, <1>2 DEF VisitsBuffer

LEMMA KeptWalkSteps ==
  ASSUME SoundInv, KeptInv, SearchFrame,
         Walk \/ VisitSegment \/ CloneSealing \/ VisitSealing \/ VisitBuffer
  PROVE  KeptInv'
  <1>0. KeptKnown /\ KeptAhead
    BY DEF KeptInv
  <1>1. CASE q.pc = "walk" /\ WalkGoes("segments", segments, q.pool)
    <2>1. \A r \in kept : (\E o \in segments : r \in LiveIn(o)) \/ InSealing(r) \/ r \in buffer
      BY <1>0 DEF KeptKnown, Located, InSegments
    <2> QED
      BY <1>1, <2>1, KeptWalks
  <1>2. CASE q.pc = "segments" /\ q.todo = {} /\ WalkGoes("sealing", sealing, q.pool)
    <2>1. q.arm # "post" => \/ Cardinality(IdsOf(q.pool)) >= K
                            \/ \A r \in kept : r \in q.pool \/ (\E o \in sealing : r \in LiveIn(o)) \/ r \in buffer
      BY <1>0, <1>2 DEF KeptAhead, ToVisit, InSealing, Enough
    <2> QED
      BY <1>2, <2>1, KeptWalks
  <1> QED
    BY <1>1, <1>2, WalkShape, KeptObject, KeptBuffer

(* Where the copies of a kept record's id are: the newest is the record. *)
LEMMA NewestCopy ==
  ASSUME SoundInv, KeptKnown, NEW r \in kept
  PROVE  /\ r \in InSegments => FirstIn(r, segments) /\ NowhereIn(r, sealing)
         /\ InSealing(r) => FirstIn(r, sealing)
  <1>0. /\ IInv /\ CopiesSound /\ CopiesOrdered /\ CopiesInOrder(r[1])
        /\ r \in Content /\ r \in Record /\ r[2] = inserted[r[1]]
    BY KeptRecord DEF SoundInv, DerivedInv, AnswerInv, KeptKnown
  <1>1. \A o \in Listed : \A x \in data[o] : /\ x[2] \in Nat /\ (x[1] = r[1] => x[2] <= r[2])
                                             /\ (x[1] = r[1] /\ x[2] = r[2] => x = r)
    <2>1. ListsTypeOK
      BY <1>0 DEF IInv, TypeOK
    <2>2. \A o \in Listed : data[o] \subseteq Record
      BY <2>1, ListedAllocated
    <2>3. \A x \in Record : x[1] = r[1] /\ x[2] = r[2] => x = r
      BY <1>0 DEF Record
    <2> QED
      BY <1>0, <2>2, <2>3, Numbers DEF CopiesSound
  <1>2. r[2] \in Nat /\ \A o : LiveIn(o) \subseteq data[o]
    BY <1>0, Numbers DEF LiveIn
  <1>3. ASSUME NEW p \in Listed, r \in LiveIn(p), NEW o \in sealing, p \in segments \/ p < o
        PROVE  r[1] \notin IdsOf(data[o])
    <2>1. \A x \in data[o] : x[1] = r[1] => r[2] < x[2]
      BY <1>0, <1>2, <1>3 DEF CopiesOrdered
    <2>2. \A x \in data[o] : x[1] = r[1] => x[2] <= r[2] /\ x[2] \in Nat
      BY <1>1 DEF Listed
    <2> QED
      BY <1>2, <2>1, <2>2 DEF IdsOf
  <1>4. ASSUME NEW p \in segments, r \in LiveIn(p), NEW o \in segments, p < o
        PROVE  r[1] \notin IdsOf(data[o])
    <2>1. p # o
      BY <1>0, <1>4, Numbers DEF Listed
    <2>2. r \notin data[o]
      BY <1>0, <1>2, <1>4, <2>1 DEF CopiesOrdered
    <2>3. \A x \in data[o] : x[1] = r[1] => r[2] <= x[2]
      BY <1>0, <1>2, <1>4 DEF CopiesInOrder
    <2>4. \A x \in data[o] : x[1] = r[1] => x[2] <= r[2] /\ x[2] \in Nat /\ (x[2] = r[2] => x = r)
      BY <1>1 DEF Listed
    <2> QED
      BY <1>2, <2>2, <2>3, <2>4 DEF IdsOf
  <1> QED
    BY <1>3, <1>4 DEF InSegments, InSealing, FirstIn, NowhereIn, Listed

(* The invariant of a scan that goes on. *)
LEMMA KeptScans ==
  ASSUME SoundInv, KeptInv, SearchFrame,
         NEW pc \in {"scan_snapshot", "scan_sealing", "scan_segments"},
         NEW cand, NEW todo, NEW listed, NEW pool, ScanGoes(pc, cand, todo, listed, pool),
         todo \cup listed \subseteq Cloned \cup sealing \cup segments,
         \A r \in pool : r \in q.pool \/ r \in buffer \/ \E o \in q.todo : r \in LiveIn(o),
         \A r \in kept : r \in pool \/ (r[1] \in cand /\ LeftToLookUp(pc, todo, listed, r))
  PROVE  KeptInv'
  <1>0. /\ q'.pc = pc /\ q'.filter = q.filter /\ q'.cand = cand
        /\ q'.todo = todo /\ q'.listed = listed /\ q'.pool = pool
    BY DEF ScanGoes, Query
  <1>1. KeptKnown' /\ OneVersion'
    BY KeptVersions DEF ScanGoes
  <1>2. /\ kept' = kept /\ data' = data /\ InSegments' = InSegments
        /\ \A o : LiveIn(o)' = LiveIn(o) /\ \A r : InSealing(r)' = InSealing(r)
    BY <1>0, KeptFrame DEF SearchFrame
  <1>3. KeptCandidates'
    BY <1>0 DEF KeptCandidates, Filtering
  <1>4. \A r \in kept : ToLookUp(r)' <=> LeftToLookUp(pc, todo, listed, r)
    BY <1>0, <1>2 DEF ToLookUp, LeftToLookUp, FirstIn, NowhereIn
  <1>5. KeptAhead'
    BY <1>0, <1>2, <1>4 DEF KeptAhead, Scanning
  <1> QED
    BY <1>1, <1>3, <1>5 DEF KeptInv

LEMMA KeptScanBuffer ==
  ASSUME SoundInv, KeptInv, SearchFrame, q.pc = "scan",
         ScanGoes("scan_snapshot", Candidates \ IdsOf(buffer), {}, segments,
                  { r \in buffer : r[1] \in Candidates })
  PROVE  KeptInv'
  <1> PICK left, hits : left = Candidates \ IdsOf(buffer) /\ hits = { r \in buffer : r[1] \in Candidates }
    OBVIOUS
  <1>0. KeptKnown /\ KeptCandidates /\ ScanGoes("scan_snapshot", left, {}, segments, hits)
    BY DEF KeptInv
  <1>1. \A r \in kept : r[1] \in Candidates
    BY <1>0, KeptRecord DEF KeptCandidates, Candidates, IdsOf
  <1>2. ASSUME NEW r \in kept, r \notin hits
        PROVE  r[1] \in left /\ LeftToLookUp("scan_snapshot", {}, segments, r)
    <2>1. r \notin buffer
      BY <1>1, <1>2
    <2>2. r[1] \notin IdsOf(buffer)
      BY <1>0, <2>1, ListedCopies DEF IdsOf
    <2>3. InSealing(r) \/ (r \in InSegments /\ FirstIn(r, segments))
      BY <1>0, <2>1, NewestCopy DEF KeptKnown, Located
    <2> QED
      BY <1>1, <2>2, <2>3 DEF LeftToLookUp
  <1>3. \A r \in hits : r \in buffer
    OBVIOUS
  <1> QED
    BY <1>0, <1>2, <1>3, KeptScans

LEMMA KeptLooksUp ==
  ASSUME SoundInv, KeptInv, SearchFrame, NEW o, LooksUp(o)
  PROVE  KeptInv'
  <1> PICK here, left, todo, both :
         /\ here = q.pc /\ left = q.cand \ IdsOf(data[o]) /\ todo = q.todo \ {o}
         /\ both = q.pool \cup { r \in LiveIn(o) : r[1] \in q.cand }
    OBVIOUS
  <1>0. /\ KeptAhead /\ Scanning /\ q.pc \in {"scan_sealing", "scan_segments"}
        /\ o \in q.todo /\ \A p \in q.todo : p <= o
        /\ ScanGoes(here, left, todo, q.listed, both)
        /\ here \in {"scan_snapshot", "scan_sealing", "scan_segments"}
    BY DEF KeptInv, LooksUp, Scanning, IsNewest
  <1>1. q.todo \subseteq Nat
    <2>1. q.todo \subseteq Allocated /\ fresh \in Nat
      BY BoundsAssumption DEF SoundInv, DerivedInv, QueryInv, QueryTyped, IInv, TypeOK, ListsTypeOK
    <2> QED
      BY <2>1 DEF Allocated
  <1>2. \A p \in todo : p < o
    BY <1>0, <1>1
  <1>3. ASSUME NEW r \in kept, r \notin both
        PROVE  r[1] \in left /\ LeftToLookUp(here, todo, q.listed, r)
    <2>1. r[1] \in q.cand /\ r \notin LiveIn(o) /\ ToLookUp(r)
      BY <1>0, <1>3 DEF KeptAhead
    <2>2. ASSUME FirstIn(r, q.todo) PROVE r[1] \notin IdsOf(data[o]) /\ FirstIn(r, todo)
      BY <1>0, <1>2, <2>1, <2>2 DEF FirstIn
    <2>3. ASSUME NowhereIn(r, q.todo) PROVE r[1] \notin IdsOf(data[o]) /\ NowhereIn(r, todo)
      BY <1>0, <2>3 DEF NowhereIn
    <2> QED
      BY <1>0, <2>1, <2>2, <2>3 DEF ToLookUp, LeftToLookUp
  <1>4. /\ \A r \in both : r \in q.pool \/ \E p \in q.todo : r \in LiveIn(p)
        /\ todo \cup q.listed \subseteq Cloned
    BY <1>0 DEF Cloned
  <1>5. \A r \in kept : r \in both \/ (r[1] \in left /\ LeftToLookUp(here, todo, q.listed, r))
    BY <1>3
  <1> QED
    BY <1>0, <1>5, <1>4, KeptScans

LEMMA KeptScanSteps ==
  ASSUME SoundInv, KeptInv, SearchFrame,
         ScanBuffer \/ ScanSnapshot \/ ScanSealing \/ ScanListed \/ ScanSegments \/ ScanDone
  PROVE  KeptInv'
  <1>0. KeptKnown /\ KeptAhead
    BY DEF KeptInv
  <1>1. CASE q.pc = "scan_snapshot" /\ ScanGoes("scan_sealing", q.cand, sealing, q.listed, q.pool)
    <2>1. \A r \in kept : r \in q.pool \/ (r[1] \in q.cand /\ LeftToLookUp("scan_sealing", sealing, q.listed, r))
      BY <1>0, <1>1, NewestCopy DEF KeptAhead, Scanning, ToLookUp, LeftToLookUp
    <2> QED
      BY <1>1, <2>1, KeptScans DEF Cloned
  <1>2. CASE /\ q.pc = "scan_sealing" /\ q.todo = {}
             /\ ScanGoes("scan_segments", q.cand, q.listed, q.listed, q.pool)
    <2>1. \A r \in kept : r \in q.pool \/ (r[1] \in q.cand /\ LeftToLookUp("scan_segments", q.listed, q.listed, r))
      BY <1>0, <1>2 DEF KeptAhead, Scanning, ToLookUp, LeftToLookUp, FirstIn
    <2> QED
      BY <1>2, <2>1, KeptScans DEF Cloned
  <1>3. CASE /\ q.pc = "scan_segments" /\ q.todo = {}
             /\ ScanGoes("done", q.cand, {}, q.listed, q.pool)
    <2>1. kept \subseteq q.pool
      BY <1>0, <1>3 DEF KeptAhead, Scanning, ToLookUp, LeftToLookUp, FirstIn
    <2>2. KeptKnown' /\ OneVersion'
      BY <1>3, KeptVersions DEF ScanGoes, Cloned
    <2>3. q'.pc = "done" /\ q'.pool = q.pool /\ q'.filter = q.filter /\ kept' = kept
      BY <1>3, KeptFrame DEF ScanGoes, Query, SearchFrame
    <2>4. KeptCandidates' /\ KeptAhead'
      BY <2>1, <2>3 DEF KeptCandidates, Filtering, KeptAhead, Scanning
    <2> QED
      BY <2>2, <2>4 DEF KeptInv
  <1> QED
    BY <1>1, <1>2, <1>3, ScanShape, KeptScanBuffer, KeptLooksUp

LEMMA KeptSearches ==
  ASSUME SoundInv, KeptInv, SearchFrame, SearchStep
  PROVE  KeptInv'
  <1>1. CASE Shortcut \/ LenSegments \/ LenSealing \/ LenBuffer
    BY <1>1, KeptCountingSteps
  <1>2. CASE PlanEq \/ PlanRanges \/ Fallback
    BY <1>2, KeptPlanSteps
  <1>3. CASE Walk \/ VisitSegment \/ CloneSealing \/ VisitSealing \/ VisitBuffer
    BY <1>3, KeptWalkSteps
  <1>4. CASE ScanBuffer \/ ScanSnapshot \/ ScanSealing \/ ScanListed \/ ScanSegments \/ ScanDone
    BY <1>4, KeptScanSteps
  <1> QED
    BY <1>1, <1>2, <1>3, <1>4 DEF SearchStep

(* A search begins with what it can be held to, and ends with nothing. *)
LEMMA KeptBegins ==
  ASSUME SoundInv, NEW filter \in Filters, Begin(filter), kept' = Expected(filter),
         UNCHANGED <<vars, derivedVars, work>>
  PROVE  KeptInv'
  <1>1. PICK pc \in {"shortcut", "plan"} : q' = Query(pc, filter, "none", 0, 0, {}, {}, {}, {})
    BY DEF Begin, NoQuery, Query
  <1>2. /\ q'.pc = pc /\ q'.filter = filter /\ q'.todo = {} /\ q'.listed = {} /\ q'.pool = {}
    BY <1>1 DEF Query
  <1>3. \A o : LiveIn(o)' = LiveIn(o)
    BY DEF LiveIn
  <1>4. KeptKnown'
    <2>1. ASSUME NEW r \in Expected(filter)
          PROVE  /\ MatchesRecord(r, filter) /\ r[1] # work.id /\ CopiesInOrder(r[1])
                 /\ r \in buffer \/ (\E o \in sealing : r \in LiveIn(o)) \/ \E o \in segments : r \in LiveIn(o)
      BY <2>1 DEF Expected
    <2>2. \A r \in Expected(filter) : Located(r)'
      BY <1>3, <2>1 DEF Located, InSealing, InSegments
    <2>3. \A id : CopiesInOrder(id)' = CopiesInOrder(id)
      BY DEF CopiesInOrder
    <2>4. \A r : MatchesRecord(r, filter) => MatchesRecord(r, q.filter)'
      BY <1>2 DEF MatchesRecord
    <2> QED
      BY <2>1, <2>2, <2>3, <2>4 DEF KeptKnown
  <1>5. OneVersion'
    BY <1>2 DEF OneVersion, Cloned
  <1>6. KeptCandidates' /\ KeptAhead'
    BY <1>2 DEF KeptCandidates, Filtering, KeptAhead, Scanning
  <1> QED
    BY <1>4, <1>5, <1>6 DEF KeptInv

LEMMA KeptReplied ==
  ASSUME Reply, kept' = {}
  PROVE  KeptInv'
  <1>1. q' = NoQuery
    BY DEF Reply
  <1>2. q'.pc = "idle" /\ q'.todo = {} /\ q'.listed = {} /\ q'.pool = {}
    BY <1>1 DEF NoQuery
  <1>3. KeptKnown' /\ OneVersion'
    BY <1>2 DEF KeptKnown, OneVersion, Cloned
  <1>4. KeptCandidates' /\ KeptAhead'
    BY <1>2 DEF KeptCandidates, Filtering, KeptAhead, Scanning
  <1> QED
    BY <1>3, <1>4 DEF KeptInv

LEMMA KeptInit == FilteredInit => KeptInv
  <1> SUFFICES ASSUME FilteredInit PROVE KeptInv
    OBVIOUS
  <1>1. q = NoQuery /\ kept = {}
    BY DEF FilteredInit
  <1>2. q.pc = "idle" /\ q.todo = {} /\ q.listed = {} /\ q.pool = {}
    BY <1>1 DEF NoQuery
  <1>3. KeptKnown /\ OneVersion
    BY <1>1, <1>2 DEF KeptKnown, OneVersion, Cloned
  <1>4. KeptCandidates /\ KeptAhead
    BY <1>2 DEF KeptCandidates, Filtering, KeptAhead, Scanning
  <1> QED
    BY <1>3, <1>4 DEF KeptInv

LEMMA KeptStep == SoundInv /\ KeptInv /\ [FilteredNext]_filteredVars => KeptInv'
  <1> SUFFICES ASSUME SoundInv, KeptInv, [FilteredNext]_filteredVars PROVE KeptInv'
    OBVIOUS
  <1>1. CASE IndexStep
    BY <1>1, IndexUnderKept
  <1>2. CASE QueryStep
    <2>1. ASSUME SearchStep, UNCHANGED <<vars, derivedVars, work, ghosts>>
          PROVE  KeptInv'
      BY <2>1, KeptSearches DEF SearchFrame
    <2> QED
      BY <1>2, <2>1, KeptBegins, KeptReplied DEF QueryStep
  <1>3. CASE UNCHANGED filteredVars
    <2>1. SearchFrame /\ UNCHANGED q
      BY <1>3 DEF SearchFrame
    <2>2. KeptKnown'
      BY <2>1, KeptFrame DEF KeptInv
    <2>3. /\ kept' = kept /\ IdsOf(kept)' = IdsOf(kept) /\ \A o : LiveIn(o)' = LiveIn(o)
          /\ \A r : InSealing(r)' = InSealing(r)
          /\ InSegments' = InSegments /\ UNCHANGED <<data, buffer>>
      BY <2>1, KeptFrame DEF SearchFrame
    <2>4. OneVersion' /\ KeptCandidates'
      BY <2>1, <2>3 DEF KeptInv, OneVersion, Cloned, KeptCandidates, Filtering
    <2>5. Enough' = Enough
      BY <2>1 DEF Enough, IdsOf
    <2>6. \A r : ToVisit(r)' = ToVisit(r)
      BY <2>1, <2>3 DEF ToVisit
    <2>7. \A r : Scanning => ToLookUp(r)' = ToLookUp(r)
      BY <2>1, <2>3 DEF Scanning, ToLookUp, LeftToLookUp, FirstIn, NowhereIn
    <2>8. KeptAhead'
      BY <2>1, <2>3, <2>5, <2>6, <2>7 DEF KeptInv, KeptAhead, Scanning
    <2> QED
      BY <2>2, <2>4, <2>8 DEF KeptInv
  <1> QED
    BY <1>1, <1>2, <1>3 DEF FilteredNext

(* KeptFound: a record that matches, is indexed when the search begins and *)
(* stays in its source until it ends is answered, or K ids are: it is in   *)
(* every candidate list the planner may choose, the over-fetch window      *)
(* falls back on a scan before it loses it, and a scan that clones the two *)
(* lists one after the other meets it, alive, before any older copy.       *)
THEOREM KeptAreFound == FilteredSpec => []KeptFound
  <1>1. KeptInv => KeptFound
    BY DEF KeptInv, KeptAhead, KeptFound, Enough, At
  <1>2. FilteredInit => SoundInv /\ KeptInv
    BY SoundInit, KeptInit
  <1>3. SoundInv /\ KeptInv /\ [FilteredNext]_filteredVars => (SoundInv /\ KeptInv)'
    BY SoundStep, KeptStep
  <1> QED
    BY <1>1, <1>2, <1>3, PTL DEF FilteredSpec
=============================================================================

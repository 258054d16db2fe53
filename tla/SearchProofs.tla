---------------------------- MODULE SearchProofs ----------------------------
(***************************************************************************)
(* What a search may answer, for any number of searches beside any number  *)
(* of seal and merge threads: nothing that was deleted before it began,    *)
(* and everything that was in a segment then and has stayed live.          *)
(***************************************************************************)
EXTENDS Search, SegmentsProofs

SearchTypeOK ==
    /\ rpc \in [Readers -> {"idle", "segments", "sealing", "dedup", "done"}]
    /\ todo \in [Readers -> SUBSET Allocated]
    /\ found \in [Readers -> SUBSET Record]
    /\ dead \in [Readers -> SUBSET gone]
    /\ settled \in [Readers -> SUBSET Record]

(* A deleted record never comes back: an insert gets a number of its own.  *)
GoneForGood ==
    /\ gone \cap Content = {}
    /\ \A x \in gone : x[1] \in Ids /\ x[2] \in 0 .. inserted[x[1]]
    /\ \A x \in Content : x[2] \in 0 .. inserted[x[1]]

(* Nothing that was dead at the start is collected, nor left to collect.   *)
NothingDead(r) ==
    /\ found[r] \cap dead[r] = {}
    /\ \A o \in todo[r] : LiveIn(o) \cap dead[r] = {}

(* A settled record is still live while the sources are read, is collected *)
(* or still to be collected, and no other version of its id is.            *)
OnlyVersion(x, R) == \A y \in R : y[1] = x[1] => y = x
SettledKept(r) ==
    /\ rpc[r] \in {"segments", "sealing"} => settled[r] \subseteq Content
    /\ rpc[r] \notin {"segments", "sealing"} => todo[r] = {}
    /\ rpc[r] = "idle" => found[r] = {}
    /\ rpc[r] \in {"segments", "sealing", "dedup"} =>
           \A x \in settled[r] :
               /\ OnlyVersion(x, found[r])
               /\ \A o \in todo[r] : OnlyVersion(x, LiveIn(o))
               /\ x \in found[r] \/ \E o \in todo[r] : x \in LiveIn(o)
    /\ rpc[r] = "done" => settled[r] \subseteq found[r]

ReaderInv(r) == NothingDead(r) /\ SettledKept(r)
SearchInv == IInv /\ SearchTypeOK /\ GoneForGood /\ \A r \in Readers : ReaderInv(r)

USE DEF vars, objectVars, writerVars, sealerVars, mergerVars, searchVars, readerVars, ghostVars

-----------------------------------------------------------------------------
(* Objects. *)

LEMMA ListedLive ==
  ASSUME IInv
  PROVE  /\ sealing \subseteq Allocated /\ segments \subseteq Allocated
         /\ \A o \in sealing \cup segments : LiveIn(o) \subseteq Content
         /\ buffer \subseteq Content /\ InSegments \subseteq Content
         /\ Content \subseteq Record
         /\ \A o \in Allocated : LiveIn(o) \subseteq Record
         /\ \A x \in Content : OnlyVersion(x, Content)
  <1>1. ListsTypeOK
    BY DEF IInv, TypeOK
  <1>2. \A o \in Allocated : o \in Obj
    BY <1>1, BoundsAssumption DEF ListsTypeOK, Allocated, Obj
  <1>3. sealing \subseteq Allocated /\ segments \subseteq Allocated
    BY <1>1 DEF ListsTypeOK, Allocated
  <1>4. \A o \in Allocated : LiveIn(o) \subseteq Record
    BY <1>1, <1>2 DEF ListsTypeOK, LiveIn
  <1>5. Content \subseteq Record /\ \A x \in Content : OnlyVersion(x, Content)
    BY ContentTyped DEF Record, OnlyVersion
  <1>6. /\ \A o \in sealing \cup segments : LiveIn(o) \subseteq Content
        /\ buffer \subseteq Content /\ InSegments \subseteq Content
    BY DEF Content, InSegments
  <1> QED
    BY <1>3, <1>4, <1>5, <1>6

-----------------------------------------------------------------------------
(* A step of the index. *)

LEMMA GoneStep ==
  ASSUME IInv, GoneForGood, [Next]_vars, gone' = gone \cup (Content \ Content')
  PROVE  GoneForGood'
  <1>0. inserted \in [Ids -> 0 .. InsertsPerId] /\ \A x \in Content : x[1] \in Ids
    BY ContentTyped DEF IInv, TypeOK, ListsTypeOK
  <1>1. CASE Inserting
    <2>1. PICK x : x = <<wid, inserted[wid] + 1>>
      OBVIOUS
    <2>2. Content' = Content \cup {x} /\ gone' = gone /\ wid \in Ids
      BY <1>1, <2>1 DEF Inserting
    <2>3. inserted' = [inserted EXCEPT ![wid] = @ + 1] /\ inserted[wid] \in Nat
      BY <1>0, <1>1, <2>2 DEF Inserting
    <2>4. \A id \in Ids : 0 .. inserted[id] \subseteq 0 .. inserted'[id]
      BY <1>0, <2>2, <2>3
    <2>5. x \notin gone /\ x[1] = wid /\ x[2] \in 0 .. inserted'[wid]
      BY <1>0, <2>1, <2>2, <2>3 DEF GoneForGood
    <2>6. gone' \cap Content' = {}
      BY <2>2, <2>5 DEF GoneForGood
    <2> QED
      BY <1>0, <2>2, <2>4, <2>5, <2>6 DEF GoneForGood
  <1>2. CASE Removing
    <2>1. Content' \subseteq Content /\ inserted' = inserted
      BY <1>2 DEF Removing, AbstractStore!Delete
    <2> QED
      BY <1>0, <2>1 DEF GoneForGood
  <1>3. CASE Invisible
    BY <1>3 DEF Invisible, GoneForGood
  <1> QED
    BY <1>1, <1>2, <1>3, ContentSteps

LEMMA IndexStepReaders ==
  ASSUME SearchInv, IndexStep, [Next]_vars, NEW r \in Readers
  PROVE  ReaderInv(r)'
  <1>0. ReaderInv(r) /\ SearchTypeOK /\ IInv
    BY DEF SearchInv
  <1>1. /\ rpc'[r] = rpc[r] /\ todo'[r] = todo[r] /\ found'[r] = found[r] /\ dead'[r] = dead[r]
        /\ settled'[r] = IF Searching(r) THEN settled[r] \cap Content' ELSE settled[r]
    BY DEF IndexStep
  <1>2. todo[r] \subseteq Allocated
    BY <1>0 DEF SearchTypeOK
  <1>3. /\ \A o \in todo[r] : LiveIn(o)' \subseteq LiveIn(o)
        /\ \A o \in todo[r] : \A x \in LiveIn(o) : x \in Content' => x \in LiveIn(o)'
    BY <1>0, <1>2, ObjectsKept
  <1>4. NothingDead(r)'
    BY <1>0, <1>1, <1>3 DEF ReaderInv, NothingDead
  <1>5. CASE Searching(r)
    <2>1. rpc[r] \in {"segments", "sealing"} /\ settled'[r] = settled[r] \cap Content'
      BY <1>1, <1>5 DEF Searching
    <2>2. ASSUME NEW x \in settled'[r]
          PROVE  /\ OnlyVersion(x, found'[r])
                 /\ \A o \in todo'[r] : OnlyVersion(x, LiveIn(o)')
                 /\ x \in found'[r] \/ \E o \in todo'[r] : x \in LiveIn(o)'
      <3>1. /\ OnlyVersion(x, found[r])
            /\ \A o \in todo[r] : OnlyVersion(x, LiveIn(o))
            /\ x \in found[r] \/ \E o \in todo[r] : x \in LiveIn(o)
            /\ x \in Content'
        BY <1>0, <2>1, <2>2 DEF ReaderInv, SettledKept
      <3> QED
        BY <1>1, <1>3, <3>1 DEF OnlyVersion
    <2> QED
      BY <1>1, <1>4, <2>1, <2>2 DEF ReaderInv, SettledKept, OnlyVersion
  <1>6. CASE ~Searching(r)
    BY <1>0, <1>1, <1>4, <1>6 DEF ReaderInv, SettledKept, Searching, OnlyVersion
  <1> QED
    BY <1>5, <1>6

LEMMA IndexStepKeeps ==
  ASSUME SearchInv, IndexStep
  PROVE  SearchInv'
  <1>1. [Next]_vars /\ IInv
    BY DEF IndexStep, SearchInv
  <1>2. IInv'
    BY <1>1, StepInv
  <1>3. GoneForGood'
    BY <1>1, GoneStep DEF SearchInv, IndexStep
  <1>4. SearchTypeOK'
    <2>1. Allocated \subseteq Allocated' /\ gone \subseteq gone'
      BY <1>1, ObjectsKept DEF IndexStep
    <2>2. UNCHANGED <<rpc, todo, found, dead>> /\ SearchTypeOK
      BY DEF IndexStep, SearchInv
    <2>3. todo' \in [Readers -> SUBSET Allocated'] /\ dead' \in [Readers -> SUBSET gone']
      BY <2>1, <2>2 DEF SearchTypeOK
    <2>4. settled' \in [Readers -> SUBSET Record]
      BY <2>2 DEF SearchTypeOK, IndexStep
    <2> QED
      BY <2>2, <2>3, <2>4 DEF SearchTypeOK
  <1> QED
    BY <1>1, <1>2, <1>3, <1>4, IndexStepReaders DEF SearchInv

-----------------------------------------------------------------------------
(* A step of a search. *)

(* It changes what belongs to one reader. *)
Only(r) ==
    \A p \in Readers : p # r =>
        /\ rpc'[p] = rpc[p] /\ todo'[p] = todo[p] /\ found'[p] = found[p]
        /\ dead'[p] = dead[p] /\ settled'[p] = settled[p]

LEMMA OthersKept ==
  ASSUME SearchInv, UNCHANGED <<vars, gone>>, NEW r \in Readers, Only(r),
         NEW p \in Readers, p # r
  PROVE  ReaderInv(p)'
  <1>1. Content' = Content /\ \A o : LiveIn(o)' = LiveIn(o)
    BY DEF Content, LiveIn
  <1>2. ReaderInv(p)
    BY DEF SearchInv
  <1> QED
    BY <1>1, <1>2 DEF Only, ReaderInv, NothingDead, SettledKept

LEMMA ReaderStepKeeps ==
  ASSUME SearchInv, NEW r \in Readers, ReaderStep(r)
  PROVE  SearchInv'
  <1> USE DEF Only
  <1>0. IInv /\ SearchTypeOK /\ GoneForGood /\ ReaderInv(r)
    BY DEF SearchInv
  <1>1. UNCHANGED <<vars, gone>> /\ Content' = Content /\ Allocated' = Allocated
        /\ \A o : LiveIn(o)' = LiveIn(o)
    <2>1. UNCHANGED <<vars, gone>>
      BY DEF ReaderStep, CloneSegments, VisitSegment, VisitSealing, VisitNext, CloneSealing,
             ReadBuffer, Deduplicate, Reply
    <2> QED
      BY <2>1 DEF Content, LiveIn, Allocated
  <1>2. ASSUME Only(r), SearchTypeOK', ReaderInv(r)'
        PROVE  SearchInv'
    <2>1. IInv' /\ GoneForGood'
      <3>1. [Next]_vars
        BY <1>1
      <3> QED
        BY <1>0, <1>1, <3>1, StepInv DEF GoneForGood
    <2> QED
      BY <1>1, <1>2, <2>1, OthersKept DEF SearchInv
  <1>3. /\ sealing \subseteq Allocated /\ segments \subseteq Allocated
        /\ \A o \in sealing \cup segments : LiveIn(o) \subseteq Content
        /\ buffer \subseteq Content /\ InSegments \subseteq Content
        /\ Content \subseteq Record
        /\ \A o \in Allocated : LiveIn(o) \subseteq Record
        /\ \A x \in Content : OnlyVersion(x, Content)
    BY <1>0, ListedLive
  <1>4. dead[r] \subseteq gone /\ gone \cap Content = {}
    BY <1>0 DEF SearchTypeOK, GoneForGood
  <1>5. CASE CloneSegments(r)
    <2>1. /\ rpc[r] = "idle" /\ rpc'[r] = "segments" /\ todo'[r] = segments /\ dead'[r] = gone
          /\ settled'[r] = InSegments /\ found'[r] = found[r]
      BY <1>0, <1>5 DEF CloneSegments, SearchTypeOK
    <2>2. Only(r)
      BY <1>0, <1>5 DEF CloneSegments, SearchTypeOK
    <2>3. SearchTypeOK'
      BY <1>0, <1>1, <1>3, <1>5 DEF CloneSegments, SearchTypeOK
    <2>4. found[r] = {}
      BY <1>0, <2>1 DEF ReaderInv, SettledKept
    <2> QED
      BY <1>1, <1>2, <1>3, <1>4, <2>1, <2>2, <2>3, <2>4
         DEF ReaderInv, NothingDead, SettledKept, OnlyVersion, InSegments
  <1>6. ASSUME NEW here \in {"segments", "sealing"}, VisitNext(r, here)
        PROVE  SearchInv'
    <2>1. PICK o \in todo[r] :
             /\ found' = [found EXCEPT ![r] = @ \cup LiveIn(o)]
             /\ todo' = [todo EXCEPT ![r] = @ \ {o}]
      BY <1>6 DEF VisitNext
    <2>2. /\ found'[r] = found[r] \cup LiveIn(o) /\ todo'[r] = todo[r] \ {o}
          /\ rpc[r] = here /\ rpc'[r] = here /\ dead'[r] = dead[r] /\ settled'[r] = settled[r]
      BY <1>0, <1>6, <2>1 DEF VisitNext, SearchTypeOK
    <2>3. Only(r)
      BY <1>0, <1>6, <2>1 DEF VisitNext, SearchTypeOK
    <2>4. SearchTypeOK'
      BY <1>0, <1>1, <1>3, <1>6, <2>1 DEF VisitNext, SearchTypeOK
    <2>5. NothingDead(r)'
      BY <1>0, <1>1, <2>2 DEF ReaderInv, NothingDead
    <2>6. SettledKept(r)'
      BY <1>0, <1>1, <2>1, <2>2 DEF ReaderInv, SettledKept, OnlyVersion
    <2> QED
      BY <1>2, <2>3, <2>4, <2>5, <2>6 DEF ReaderInv
  <1>7. CASE CloneSealing(r)
    <2>1. /\ rpc[r] = "segments" /\ todo[r] = {} /\ rpc'[r] = "sealing" /\ todo'[r] = sealing
          /\ dead'[r] = dead[r] /\ settled'[r] = settled[r] /\ found'[r] = found[r]
      BY <1>0, <1>7 DEF CloneSealing, SearchTypeOK
    <2>2. Only(r)
      BY <1>0, <1>7 DEF CloneSealing, SearchTypeOK
    <2>3. SearchTypeOK'
      BY <1>0, <1>1, <1>3, <1>7 DEF CloneSealing, SearchTypeOK
    <2>4. NothingDead(r)'
      BY <1>0, <1>1, <1>3, <1>4, <2>1 DEF ReaderInv, NothingDead
    <2>5. SettledKept(r)'
      BY <1>0, <1>1, <1>3, <2>1 DEF ReaderInv, SettledKept, OnlyVersion
    <2> QED
      BY <1>2, <2>2, <2>3, <2>4, <2>5 DEF ReaderInv
  <1>8. CASE ReadBuffer(r)
    <2>1. /\ rpc[r] = "sealing" /\ todo[r] = {} /\ rpc'[r] = "dedup" /\ todo'[r] = {}
          /\ dead'[r] = dead[r] /\ settled'[r] = settled[r] /\ found'[r] = found[r] \cup buffer
      BY <1>0, <1>8 DEF ReadBuffer, SearchTypeOK
    <2>2. Only(r)
      BY <1>0, <1>8 DEF ReadBuffer, SearchTypeOK
    <2>3. SearchTypeOK'
      BY <1>0, <1>1, <1>3, <1>8 DEF ReadBuffer, SearchTypeOK
    <2>4. NothingDead(r)'
      BY <1>0, <1>3, <1>4, <2>1 DEF ReaderInv, NothingDead
    <2>5. SettledKept(r)'
      BY <1>0, <1>3, <2>1 DEF ReaderInv, SettledKept, OnlyVersion
    <2> QED
      BY <1>2, <2>2, <2>3, <2>4, <2>5 DEF ReaderInv
  <1>9. CASE Deduplicate(r)
    <2>1. PICK answer \in SUBSET found[r] :
             /\ IdsOf(answer) = IdsOf(found[r])
             /\ found' = [found EXCEPT ![r] = answer]
      BY <1>9 DEF Deduplicate
    <2>2. /\ rpc[r] = "dedup" /\ rpc'[r] = "done" /\ todo'[r] = todo[r] /\ todo[r] = {}
          /\ dead'[r] = dead[r] /\ settled'[r] = settled[r] /\ found'[r] = answer
      BY <1>0, <1>9, <2>1 DEF Deduplicate, SearchTypeOK, ReaderInv, SettledKept
    <2>3. Only(r)
      BY <1>0, <1>9, <2>1 DEF Deduplicate, SearchTypeOK
    <2>4. SearchTypeOK'
      BY <1>0, <1>1, <1>9, <2>1 DEF Deduplicate, SearchTypeOK
    <2>5. NothingDead(r)'
      BY <1>0, <2>2 DEF ReaderInv, NothingDead
    <2>6. ASSUME NEW x \in settled[r]
          PROVE  x \in answer
      <3>1. x \in found[r] /\ OnlyVersion(x, found[r])
        BY <1>0, <2>2 DEF ReaderInv, SettledKept
      <3>2. PICK y \in answer : y[1] = x[1]
        BY <2>1, <3>1 DEF IdsOf
      <3> QED
        BY <3>1, <3>2 DEF OnlyVersion
    <2>7. SettledKept(r)'
      BY <2>2, <2>6 DEF SettledKept
    <2> QED
      BY <1>2, <2>3, <2>4, <2>5, <2>7 DEF ReaderInv
  <1>10. CASE Reply(r)
    <2>1. /\ rpc[r] = "done" /\ rpc'[r] = "idle" /\ todo'[r] = todo[r] /\ found'[r] = {}
          /\ todo[r] = {}
      BY <1>0, <1>10 DEF Reply, SearchTypeOK, ReaderInv, SettledKept
    <2>2. Only(r)
      BY <1>0, <1>10 DEF Reply, SearchTypeOK
    <2>3. SearchTypeOK'
      BY <1>0, <1>1, <1>10 DEF Reply, SearchTypeOK
    <2> QED
      BY <1>2, <2>1, <2>2, <2>3 DEF ReaderInv, NothingDead, SettledKept
  <1> QED
    BY <1>5, <1>6, <1>7, <1>8, <1>9, <1>10 DEF ReaderStep, VisitSegment, VisitSealing

-----------------------------------------------------------------------------
LEMMA SearchInitInv == SearchInit => SearchInv
  <1> SUFFICES ASSUME SearchInit PROVE SearchInv
    OBVIOUS
  <1>1. IInv /\ Content = {}
    BY InitInv DEF SearchInit, Init, Content
  <1>2. SearchTypeOK
    BY DEF SearchInit, SearchTypeOK
  <1>3. GoneForGood
    BY <1>1 DEF SearchInit, GoneForGood
  <1>4. \A r \in Readers : ReaderInv(r)
    BY DEF SearchInit, ReaderInv, NothingDead, SettledKept
  <1> QED
    BY <1>1, <1>2, <1>3, <1>4 DEF SearchInv

LEMMA SearchStepInv == SearchInv /\ [SearchNext]_searchVars => SearchInv'
  <1> SUFFICES ASSUME SearchInv, [SearchNext]_searchVars PROVE SearchInv'
    OBVIOUS
  <1>1. CASE IndexStep
    BY <1>1, IndexStepKeeps
  <1>2. ASSUME NEW r \in Readers, ReaderStep(r)
        PROVE  SearchInv'
    BY <1>2, ReaderStepKeeps
  <1>3. CASE UNCHANGED searchVars
    <2>1. [Next]_vars /\ Content' = Content /\ Allocated' = Allocated /\ \A o : LiveIn(o)' = LiveIn(o)
      BY <1>3 DEF Content, LiveIn, Allocated
    <2>2. IInv'
      BY <2>1, StepInv DEF SearchInv
    <2> QED
      BY <1>3, <2>1, <2>2
         DEF SearchInv, SearchTypeOK, GoneForGood, ReaderInv, NothingDead, SettledKept
  <1> QED
    BY <1>1, <1>2, <1>3 DEF SearchNext

LEMMA SearchInvariant == SearchSpec => []SearchInv
  BY SearchInitInv, SearchStepInv, PTL DEF SearchSpec

(* Whatever is built, merged, swapped and deleted while it runs, a search  *)
(* answers no record that was dead before it began.                        *)
THEOREM NoneResurrected == SearchSpec => []NoResurrection
  <1>1. SearchInv => NoResurrection
    BY DEF SearchInv, ReaderInv, NothingDead, NoResurrection
  <1> QED
    BY <1>1, SearchInvariant, PTL

(* And it answers every record that was in a segment when it began and has *)
(* not been deleted: no merge under its feet and no other version of an id *)
(* makes it miss one.                                                      *)
THEOREM SettledAnswered == SearchSpec => []SettledFound
  <1>1. SearchInv => SettledFound
    BY DEF SearchInv, ReaderInv, SettledKept, SettledFound
  <1> QED
    BY <1>1, SearchInvariant, PTL
=============================================================================

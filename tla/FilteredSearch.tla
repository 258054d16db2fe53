--------------------------- MODULE FilteredSearch ---------------------------
(***************************************************************************)
(* Metadata and filtered search on top of Segments.  The writer keeps      *)
(* three structures derived from the metadata it is given: the metadata    *)
(* store, the posting lists (a fact -> ids) and the numeric fields (a      *)
(* number -> ids), each under its own lock and changed in its own critical *)
(* section.  A search estimates, plans, and runs one arm of the plan; the  *)
(* locks it keeps from one step to the next are the metadata, buffer and   *)
(* segment-list read locks, as in the code.                                *)
(*                                                                         *)
(* The query is arbitrary: `pool` holds the hits before the last           *)
(* truncation, any K of which may be the K nearest.  A graph traversal     *)
(* may miss any record; an exact source reports K of its matches, or all.  *)
(***************************************************************************)
EXTENDS Segments

CONSTANTS
    K,              \* how many answers a search asks for
    NumberFacts,    \* facts <<key, value>> whose value is Int or Float
    TagFacts,       \* facts <<key, value>> of the other types
    FactsOf,        \* record -> the metadata it is inserted with
    Filters,        \* the filters, records [eqs, ranges] of predicates
    Limits          \* what plan's scan_limit may come to

Facts == NumberFacts \cup TagFacts

ASSUME FilterAssumption ==
    /\ IsFiniteSet(Ids)         \* an id is a u64
    /\ K \in Nat \ {0}
    /\ NumberFacts \cap TagFacts = {}
    /\ FactsOf \in [Record -> SUBSET Facts]
    /\ \A filter \in Filters : IsFiniteSet(filter.eqs) /\ IsFiniteSet(filter.ranges)
    /\ Limits \subseteq Nat

VARIABLES
    metadata,   \* id -> facts; {}: the store has no entry
    postings,   \* pairs <<fact, id>>
    numeric,    \* pairs <<fact, id>> with a number
    fields,     \* keys that have a numeric index, be it empty
    work,       \* the writer's walk over the three: [pc, id, facts]
    q,          \* the search: see NoQuery
    gone,       \* records whose vector has been deleted
    dead,       \* `gone` when the search began
    retired,    \* records the delete of which had returned by then
    kept        \* matching records that have stayed in their source since

derivedVars == <<metadata, postings, numeric, fields>>
ghosts == <<gone, dead, retired, kept>>
filteredVars == <<vars, derivedVars, work, q, ghosts>>

NoWork == [pc |-> "none", id |-> NoId, facts |-> {}]
Deleting == work.pc \in {"del_metadata", "del_postings", "del_numeric"}

NoQuery ==
    [pc |-> "idle", filter |-> [eqs |-> {}, ranges |-> {}],
     arm |-> "none",        \* all (the shortcut), post, legacy, scan
     est |-> 0, n |-> 0,    \* posting list and live counts, as read
     cand |-> {},           \* candidate ids
     todo |-> {},           \* objects still to visit
     listed |-> {},         \* the cloned segment list
     pool |-> {}]

FilteredInit ==
    /\ Init
    /\ metadata = [id \in Ids |-> {}]
    /\ postings = {} /\ numeric = {} /\ fields = {}
    /\ work = NoWork
    /\ q = NoQuery
    /\ gone = {} /\ dead = {} /\ retired = {} /\ kept = {}

-----------------------------------------------------------------------------
(* Predicates. *)

InRange(fact, range) == fact[1] = range.key /\ range.lo <= fact[2] /\ fact[2] <= range.hi

(* Filter::matches *)
Matches(facts, filter) ==
    /\ filter.eqs \subseteq facts
    /\ \A range \in filter.ranges : \E fact \in facts \cap NumberFacts : InRange(fact, range)

(* Filter::matches_id, by what the metadata store has. *)
MatchesId(id, filter) == Matches(metadata[id], filter)
MatchesRecord(r, filter) == Matches(FactsOf[r], filter)
Predicates(filter) == Cardinality(filter.eqs) + Cardinality(filter.ranges)

Posting(fact) == { p[2] : p \in { e \in postings : e[1] = fact } }
EnumerateRange(range) == { p[2] : p \in { e \in numeric : InRange(e[1], range) } }

-----------------------------------------------------------------------------
(* The writer. *)

(* Read locks the search keeps between steps. *)
WalksUnderMetadata ==
    q.pc \in {"segments", "sealing", "buffer"} /\ q.arm \in {"post", "legacy"}
Scanning == q.pc \in {"scan_snapshot", "scan_sealing", "scan_segments"}
MetadataRead == WalksUnderMetadata \/ Scanning
BufferRead == Scanning
SegmentsRead == q.pc \in {"len_sealing", "len_buffer"}

(* apply_delete keeps the metadata write lock until it returns. *)
MetadataWritten == work.pc \in {"del_postings", "del_numeric"}

WantsBuffer == wpc \in {"ins_apply", "del_buffer", "seal_swap"}

(* The metadata work an insert or a successful delete leaves to do. *)
NextWork ==
    IF inserted' # inserted
      THEN IF FactsOf[<<wid, inserted'[wid]>>] = {} THEN NoWork
           ELSE [pc |-> "ins_postings", id |-> wid, facts |-> FactsOf[<<wid, inserted'[wid]>>]]
    ELSE IF wop = "delete" /\ Content' # Content
      THEN [pc |-> "del_metadata", id |-> wid, facts |-> {}]
    ELSE NoWork

VectorStep ==
    /\ work.pc = "none"
    /\ Client \/ (WriterStep /\ ~(BufferRead /\ WantsBuffer))
    /\ work' = NextWork
    /\ UNCHANGED derivedVars

(* The seal and merge threads; what changes the segment list waits for its *)
(* readers.                                                                *)
BackgroundStep ==
    /\ \/ \E t \in SealThreads : SealerStep(t)
       \/ \E t \in MergeThreads : MergerStep(t)
    /\ SegmentsRead => segments' = segments
    /\ UNCHANGED <<derivedVars, work>>

Pairs(facts, id) == { <<f, id>> : f \in facts }
PostingInsert(facts, id) == postings \cup Pairs(facts, id)
PostingRemove(facts, id) == postings \ Pairs(facts, id)
WorkOn(pc) == work' = [work EXCEPT !.pc = pc]

(* index_metadata: three critical sections. *)
IndexPostings ==
    /\ work.pc = "ins_postings"
    /\ postings' = PostingInsert(work.facts, work.id)
    /\ WorkOn("ins_numeric")
    /\ UNCHANGED <<metadata, numeric, fields>>

IndexNumeric ==
    /\ work.pc = "ins_numeric"
    /\ numeric' = numeric \cup Pairs(work.facts \cap NumberFacts, work.id)
    /\ fields' = fields \cup { f[1] : f \in work.facts \cap NumberFacts }
    /\ WorkOn("ins_metadata")
    /\ UNCHANGED <<metadata, postings>>

IndexMetadata ==
    /\ work.pc = "ins_metadata" /\ ~MetadataRead
    /\ metadata' = [metadata EXCEPT ![work.id] = work.facts]
    /\ work' = NoWork
    /\ UNCHANGED <<postings, numeric, fields>>

(* apply_delete, after delete_vector_only. *)
RemoveMetadata ==
    /\ work.pc = "del_metadata" /\ ~MetadataRead
    /\ metadata' = [metadata EXCEPT ![work.id] = {}]
    /\ work' = IF metadata[work.id] = {} THEN NoWork
               ELSE [work EXCEPT !.pc = "del_postings", !.facts = metadata[work.id]]
    /\ UNCHANGED <<postings, numeric, fields>>

RemovePostings ==
    /\ work.pc = "del_postings"
    /\ postings' = PostingRemove(work.facts, work.id)
    /\ WorkOn("del_numeric")
    /\ UNCHANGED <<metadata, numeric, fields>>

(* Mutant: the numbers of a deleted record stay in their field. *)
RemoveNumericSkipped ==
    /\ work.pc = "del_numeric"
    /\ work' = NoWork
    /\ UNCHANGED derivedVars

RemoveNumeric ==
    /\ work.pc = "del_numeric"
    /\ numeric' = numeric \ Pairs(work.facts \cap NumberFacts, work.id)
    /\ work' = NoWork
    /\ UNCHANGED <<metadata, postings, fields>>

MetadataStep ==
    /\ \/ IndexPostings \/ IndexNumeric \/ IndexMetadata
       \/ RemoveMetadata \/ RemovePostings \/ RemoveNumeric
    /\ UNCHANGED vars

-----------------------------------------------------------------------------
(* The search.  Every step changes q only. *)

At(pc) == q.pc = pc
Answer(pool) == q' = [q EXCEPT !.pc = "done", !.pool = pool]

(* search_filtered: the shortcut is for a single Eq. *)
Begin(filter) ==
    /\ At("idle")
    /\ q' = [NoQuery EXCEPT
           !.pc = IF Predicates(filter) = 1 /\ filter.eqs # {} THEN "shortcut" ELSE "plan",
           !.filter = filter]

(* estimate: the smallest posting list of the Eq predicates, or nothing. *)
IsSmallestPosting(fact) ==
    /\ fact \in q.filter.eqs
    /\ \A f \in q.filter.eqs : Cardinality(Posting(fact)) <= Cardinality(Posting(f))

Shortcut ==
    /\ At("shortcut")
    /\ \E fact \in q.filter.eqs :
           q' = [q EXCEPT !.pc = "len_segments", !.est = Cardinality(Posting(fact))]

(* len_shared: three lists one after the other, the first read lock kept. *)
LiveTotal(list) == Cardinality({ e \in list \X Ids : e[2] \in IdsOf(data[e[1]]) })
    - Cardinality({ e \in list \X Ids : e[2] \in tombs[e[1]] })

CountStep(here, next, count) ==
    /\ At(here)
    /\ q' = [q EXCEPT !.pc = next, !.n = @ + count]
LenSegments == CountStep("len_segments", "len_sealing", LiveTotal(segments))
LenSealing == CountStep("len_sealing", "len_buffer", LiveTotal(sealing))

(* "a single Eq that every live record matches" needs no filter. *)
AtLeastOne(n) == IF n = 0 THEN 1 ELSE n
LenBuffer ==
    /\ At("len_buffer")
    /\ LET every == q.est >= AtLeastOne(q.n + Cardinality(buffer))
       IN  q' = [q EXCEPT !.pc = IF every THEN "walk" ELSE "plan",
                          !.arm = IF every THEN "all" ELSE @, !.n = 0]

(* plan, the Eq predicates: a second look at the posting lists. *)
PlanEq ==
    /\ At("plan")
    /\ IF q.filter.eqs = {} THEN q' = [q EXCEPT !.pc = "plan_ranges"]
       ELSE \E fact \in q.filter.eqs :
                /\ IsSmallestPosting(fact)
                /\ IF Posting(fact) = {} THEN Answer({})
                   ELSE q' = [q EXCEPT !.pc = "plan_ranges", !.cand = Posting(fact)]

(* plan, the ranges, under the read lock of the numeric indexes: an upper  *)
(* bound of zero answers at once (it may come out for any range that       *)
(* nothing lies in); a set within the limit is scanned; else the estimate  *)
(* decides between the two other arms.                                     *)
PlanRanges ==
    LET indexed == { range \in q.filter.ranges : range.key \in fields }
        Small(ids, limit) == Cardinality(ids) <= limit
        ScanIds(ids) == q' = [q EXCEPT !.pc = "scan", !.arm = "scan", !.cand = ids]
    IN  /\ At("plan_ranges")
        /\ \/ (\E range \in indexed : EnumerateRange(range) = {}) /\ Answer({})
           \/ \E limit \in Limits :
                IF q.filter.eqs # {} /\ Small(q.cand, limit)
                  THEN ScanIds(q.cand)
                ELSE IF \E range \in indexed : Small(EnumerateRange(range), limit)
                  THEN \E range \in indexed :
                           /\ Small(EnumerateRange(range), limit)
                           /\ ScanIds(EnumerateRange(range))
                ELSE q' = [q EXCEPT !.pc = "walk",
                              !.arm = IF q.filter.eqs # {} \/ indexed # {} THEN "post" ELSE "legacy"]

(* The walk of search_shared and of the Post and Legacy arms: clone the    *)
(* segment list, visit it, clone the sealing list, visit it, the buffer.   *)
Walk ==
    /\ At("walk")
    /\ q.arm # "all" => ~MetadataWritten
    /\ q' = [q EXCEPT !.pc = "segments", !.todo = segments]

(* `allow` of the three arms *)
Allowed(records) ==
    IF q.arm = "all" THEN records
    ELSE { r \in records : MatchesId(r[1], q.filter) }

(* What a source may report: K of its matches if it has more. *)
ReportedBy(records) ==
    { s \in SUBSET Allowed(records) :
        s = Allowed(records) \/ Cardinality(s) = K }

Visit(here, reports) ==
    /\ At(here) /\ q.todo # {}
    /\ \E o \in q.todo :
           /\ IsOldest(o, q.todo)
           /\ \E s \in reports[o] :
                  q' = [q EXCEPT !.todo = @ \ {o}, !.pool = @ \cup s]

(* The over-fetch window of the Post arm may leave anything out. *)
ReportedBySegment(o) ==
    IF q.arm = "post" THEN SUBSET Allowed(LiveIn(o)) ELSE ReportedBy(LiveIn(o))
VisitSegment == Visit("segments", [o \in q.todo |-> ReportedBySegment(o)])
CloneSealing ==
    /\ At("segments") /\ q.todo = {}
    /\ q' = [q EXCEPT !.pc = "sealing", !.todo = sealing]
VisitSealing == Visit("sealing", [o \in q.todo |-> ReportedBy(LiveIn(o))])

(* One hit per id is kept. *)
OnePerId(hits) ==
    { s \in SUBSET hits : IdsOf(s) = IdsOf(hits) /\ \A x, y \in s : x[1] = y[1] => x = y }

VisitBuffer ==
    /\ At("sealing") /\ q.todo = {}
    /\ \E s \in ReportedBy(buffer) : \E hits \in OnePerId(q.pool \cup s) :
           IF q.arm = "post" /\ Cardinality(hits) < 2 * K
             THEN q' = [q EXCEPT !.pc = "fallback", !.pool = {}]
             ELSE Answer(hits)

(* Mutant: what the window has missed is not looked for. *)
FallbackSkipped == At("fallback") /\ Answer({})

(* Fewer than 2k hits: an exact scan, of the posting list as it was when   *)
(* the plan was made or of a range as it is now.                           *)
Fallback ==
    /\ At("fallback")
    /\ IF q.filter.eqs # {}
         THEN q' = [q EXCEPT !.pc = "scan", !.arm = "scan"]
         ELSE \E range \in q.filter.ranges :
                  /\ range.key \in fields
                  /\ q' = [q EXCEPT !.pc = "scan", !.arm = "scan", !.cand = EnumerateRange(range)]

-----------------------------------------------------------------------------
(* scan_candidates. *)

(* Mutant: the candidates of one index are not checked against the others. *)
CandidatesUnfiltered == q.cand

(* A single predicate is taken to be what the index has answered. *)
Candidates ==
    IF Predicates(q.filter) = 1 THEN q.cand
    ELSE { id \in q.cand : MatchesId(id, q.filter) }

(* The remaining ids are looked up in one source: an id found there, dead  *)
(* or alive, is looked up in no older one.                                 *)
AfterLookUp(cand, records, live) ==
    [q EXCEPT !.cand = cand \ IdsOf(records),
              !.pool = @ \cup { r \in live : r[1] \in cand }]

(* Metadata and buffer read locks, kept to the end; the segment list is    *)
(* cloned before the sealing list.                                         *)
ScanBuffer ==
    /\ At("scan") /\ ~MetadataWritten
    /\ q' = [AfterLookUp(Candidates, buffer, buffer) EXCEPT
                 !.pc = "scan_snapshot", !.listed = segments]
ScanSnapshot ==
    /\ At("scan_snapshot")
    /\ q' = [q EXCEPT !.pc = "scan_sealing", !.todo = sealing]

ScanNewest(here) ==
    /\ At(here) /\ q.todo # {}
    /\ \E o \in q.todo :
           /\ IsNewest(o, q.todo)
           /\ q' = [AfterLookUp(q.cand, data[o], LiveIn(o)) EXCEPT !.todo = @ \ {o}]
ScanSealing == ScanNewest("scan_sealing")
ScanListed ==
    /\ At("scan_sealing") /\ q.todo = {}
    /\ q' = [q EXCEPT !.pc = "scan_segments", !.todo = q.listed]
ScanSegments == ScanNewest("scan_segments")
ScanDone ==
    /\ At("scan_segments") /\ q.todo = {}
    /\ Answer(q.pool)

Reply == At("done") /\ q' = NoQuery

SearchStep ==
    \/ Shortcut \/ LenSegments \/ LenSealing \/ LenBuffer \/ PlanEq \/ PlanRanges
    \/ Walk \/ VisitSegment \/ CloneSealing \/ VisitSealing \/ VisitBuffer \/ Fallback
    \/ ScanBuffer \/ ScanSnapshot \/ ScanSealing \/ ScanListed \/ ScanSegments \/ ScanDone

-----------------------------------------------------------------------------
(* What the properties compare an answer with. *)

InSegments == UNION { LiveIn(o) : o \in segments }
Stays(r) ==
    \/ r \in buffer /\ r \in buffer'
    \/ \E o \in sealing \cap sealing' : r \in LiveIn(o) /\ r[1] \notin tombs'[o]
    \/ r \in InSegments /\ r \in InSegments'

(* A search can be held to the records that match, are indexed when it     *)
(* begins, stay in their source and are not hidden behind an older copy.   *)
Expected(filter) ==
    { r \in buffer \cup UNION { LiveIn(o) : o \in sealing \cup segments } :
        MatchesRecord(r, filter) /\ r[1] # work.id /\ CopiesInOrder(r[1]) }

UnderDelete == { r \in gone : Deleting /\ r[1] = work.id /\ r[2] = inserted[r[1]] }

IndexStep ==
    /\ \/ VectorStep \/ BackgroundStep \/ MetadataStep
    /\ gone' = gone \cup (Content \ Content')
    /\ kept' = { r \in kept : Stays(r) /\ CopiesInOrder(r[1])' }
    /\ UNCHANGED <<q, dead, retired>>

QueryStep ==
    \/ \E filter \in Filters :
           /\ Begin(filter)
           /\ dead' = gone
           /\ retired' = gone \ UnderDelete
           /\ kept' = Expected(filter)
           /\ UNCHANGED <<vars, derivedVars, work, gone>>
    \/ SearchStep /\ UNCHANGED <<vars, derivedVars, work, ghosts>>
    \/ /\ Reply
       /\ dead' = {} /\ retired' = {} /\ kept' = {}
       /\ UNCHANGED <<vars, derivedVars, work, gone>>

FilteredNext == IndexStep \/ QueryStep
FilteredSpec == FilteredInit /\ [][FilteredNext]_filteredVars

-----------------------------------------------------------------------------
(* The planner draws its candidates from the derived indexes and the arms  *)
(* check them against the store: an entry of the store is always in both,  *)
(* while a metadata walk is under way too, and when none is, the three     *)
(* agree with each other and with the live records.                        *)
StoreFacts == UNION { Pairs(metadata[id], id) : id \in Ids }
NumberPairs(pairs) == { p \in pairs : p[1] \in NumberFacts }
DerivedIndexesAgree ==
    /\ StoreFacts \subseteq postings
    /\ NumberPairs(StoreFacts) \subseteq numeric
    /\ work.pc = "none" =>
           /\ postings = UNION { Pairs(FactsOf[r], r[1]) : r \in Content }
           /\ numeric = NumberPairs(postings)
           /\ StoreFacts = postings

(* What is answered was not deleted before the search began, and matches   *)
(* the filter with the metadata of that very version of the record.  Two   *)
(* ways of answering promise less: a scan for one predicate answers ids    *)
(* that had a matching version when it began or later, and the shortcut    *)
(* does not filter.                                                        *)
SingleScan == q.arm = "scan" /\ Predicates(q.filter) = 1
AnswersSound ==
    At("done") =>
        /\ q.pool \cap dead = {}
        /\ q.arm # "all" /\ ~SingleScan => \A r \in q.pool : MatchesRecord(r, q.filter)
        /\ SingleScan => \A r \in q.pool :
               \E n \in 1 .. inserted[r[1]] :
                   <<r[1], n>> \notin retired /\ MatchesRecord(<<r[1], n>>, q.filter)

(* A matching record that stays where it is while the search runs is       *)
(* answered, unless K others are: neither the plan, nor the over-fetch     *)
(* window, nor a stale candidate list loses it.                            *)
KeptFound ==
    At("done") => kept \subseteq q.pool \/ Cardinality(IdsOf(q.pool)) >= K
=============================================================================

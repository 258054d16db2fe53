---------------------------- MODULE DurableStore ----------------------------
(***************************************************************************)
(* What the server promises about crashes, whatever logs, checkpoints and  *)
(* manifests it uses inside.  The store remembers a history of contents,   *)
(* one per write.  A crash of the process or of the machine takes it back  *)
(* to a content it had before, never to anything else; how far back is     *)
(* limited by what was answered: a reply means that the writes it covers   *)
(* outlive a process crash and, unless the policy is "none", a machine     *)
(* crash.                                                                  *)
(***************************************************************************)
EXTENDS Naturals, Sequences

CONSTANTS
    Ids,        \* record ids
    Vectors     \* what an insert can store under an id

VARIABLES
    policy,     \* "none", "group" or "per_op"
    content,    \* the set of <<id, vector>> pairs that callers see
    versions,   \* contents a machine crash may leave, oldest first
    kept,       \* a process crash leaves versions[kept] or a later one
    pending,    \* writes that were applied and not answered yet
    crashes     \* crashes so far

vars == <<policy, content, versions, kept, pending, crashes>>

Last(s) == s[Len(s)]

Init ==
    /\ policy \in {"none", "group", "per_op"}
    /\ content = {}
    /\ versions = <<{}>>
    /\ kept = 1
    /\ pending = 0
    /\ crashes = 0

(* The versions become a suffix of all: what is dropped was superseded on  *)
(* disk.  What a process crash preserves only moves forward.               *)
Persist(all) ==
    LET dropped == Len(all) - Len(versions')
    IN  /\ dropped \in 0 .. Len(all) - 1
        /\ versions' = SubSeq(all, dropped + 1, Len(all))
        /\ kept' \in 1 .. Len(versions')
        /\ kept' + dropped >= kept

Write(new) ==
    /\ content' = new
    /\ Persist(Append(versions, new))
    /\ UNCHANGED <<policy, crashes>>

Insert(id, v) ==
    /\ pending' = pending + 1
    /\ \A w \in Vectors : <<id, w>> \notin content
    /\ Write(content \cup {<<id, v>>})

Delete(id) ==
    /\ pending' = pending + 1
    /\ \E v \in Vectors :
        /\ <<id, v>> \in content
        /\ Write(content \ {<<id, v>>})

(* The replies of a batch: the promise is made here. *)
Answer ==
    /\ pending' = 0
    /\ UNCHANGED <<policy, content, crashes>>
    /\ Persist(versions)
    /\ kept' = Len(versions')
    /\ policy # "none" => Len(versions') = 1

(* A checkpoint or a flush that nobody waits for. *)
Settle ==
    /\ UNCHANGED <<policy, pending, crashes, content>>
    /\ Persist(versions)

ProcessCrash ==
    /\ crashes' = crashes + 1
    /\ pending' = 0
    /\ kept' \in kept .. Len(versions)
    /\ versions' = SubSeq(versions, 1, kept')
    /\ content' = Last(versions')
    /\ UNCHANGED policy

MachineCrash ==
    /\ crashes' = crashes + 1
    /\ pending' = 0
    /\ kept' = 1
    /\ \E k \in 1 .. Len(versions) : versions' = <<versions[k]>>
    /\ content' = Last(versions')
    /\ UNCHANGED policy

Next ==
    \/ Settle \/ Answer
    \/ \E id \in Ids : Delete(id) \/ \E v \in Vectors : Insert(id, v)
    \/ ProcessCrash \/ MachineCrash

Spec == Init /\ [][Next]_vars
=============================================================================

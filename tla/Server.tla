------------------------------- MODULE Server -------------------------------
(***************************************************************************)
(* The HTTP server: handlers that send write commands to the one writer    *)
(* task over a bounded channel and wait for its reply, handlers that       *)
(* search on a thread of their own, and the writer task, which applies     *)
(* commands in batches and commits the log once for a batch before it      *)
(* replies (group commit).  All of them, and the seal and merge threads,   *)
(* run their operations under the locks of module Locks.                   *)
(***************************************************************************)
EXTENDS Locks, SequencesExt

CONSTANTS
    Clients,
    Mixes,          \* client -> what it asks for: the mixes to look at
    ChannelSize,    \* 1024
    MaxBatch,       \* 256
    QueueLimit,     \* of apply_backpressure
    MaxFaults,      \* bound: failures of the log, of a checkpoint, panics
    MayLeave,       \* clients that may hang up
    MayStop         \* may the server be stopped?

Writing == {"insert", "delete", "checkpoint"}
Reading == {"search", "post", "scan", "stats"}

ASSUME ServerAssumption ==
    /\ Threads = Clients \cup {"writer", "sealer", "merger"}
    /\ Mixes \subseteq [Clients -> Writing \cup Reading]
    /\ {ChannelSize, MaxBatch} \subseteq Nat \ {0} /\ QueueLimit \in Nat /\ MaxFaults \in Nat
    /\ MayLeave \subseteq Clients /\ MayStop \in BOOLEAN

VARIABLES
    want,       \* client -> its request
    handler,    \* client -> new, sending, waiting, searching, done, left
    answer,     \* client -> none, ok, refused, error, closed, lost
    channel,    \* clients whose commands are in the channel, in order
    wstate,     \* writer task
    batch,      \* commands received and not yet applied
    pending,    \* pairs <<client, result>>: `pending` and `results`
    applied,    \* clients whose write is in memory and in the log
    durable,    \* those of them the log or a checkpoint has made durable
    leaked,     \* clients answered after the commit of a checkpoint failed
    backlog,    \* buffers in the sealing list
    merging,    \* merge_in_flight
    closing,    \* ctrl-c
    faults

clientVars == <<want, handler, answer>>
writerVars == <<wstate, batch, pending>>
storeVars == <<applied, durable, leaked>>
serverVars == <<lockVars, clientVars, channel, writerVars, storeVars, backlog, merging, closing, faults>>

ServerInit ==
    /\ LockInit
    /\ want \in Mixes
    /\ handler = [c \in Clients |-> "new"] /\ answer = [c \in Clients |-> "none"]
    /\ channel = <<>> /\ wstate = "recv" /\ batch = <<>> /\ pending = <<>>
    /\ applied = {} /\ durable = {} /\ leaked = {}
    /\ backlog = 0 /\ merging = FALSE /\ closing = FALSE /\ faults = 0

(* An operation that may fail: at the cost of one fault. *)
Outcome(fails) == IF fails THEN faults < MaxFaults /\ faults' = faults + 1 ELSE UNCHANGED faults

WriterGone == wstate \in {"dead", "stopped"}

-----------------------------------------------------------------------------
(* Handlers. *)

HandlerVars == <<want, writerVars, storeVars, backlog, merging, closing, faults>>

Arrive(c) ==
    /\ handler[c] = "new" /\ ~closing
    /\ IF want[c] \in Writing
         THEN handler' = [handler EXCEPT ![c] = "sending"] /\ UNCHANGED lockVars
         ELSE /\ handler' = [handler EXCEPT ![c] = "searching"]
              /\ Begin(c, CASE want[c] = "search" -> SearchProgram
                            [] want[c] = "post" -> PostProgram
                            [] want[c] = "scan" -> ScanProgram
                            [] want[c] = "stats" -> StatsProgram)
              /\ UNCHANGED <<holds, waits>>
    /\ UNCHANGED <<HandlerVars, answer, channel>>

(* writer.send(..).await: it waits for room in the channel. *)
Send(c) ==
    /\ handler[c] = "sending"
    /\ IF WriterGone
         THEN /\ handler' = [handler EXCEPT ![c] = "done"]
              /\ answer' = [answer EXCEPT ![c] = "closed"]
              /\ UNCHANGED channel
         ELSE /\ Len(channel) < ChannelSize
              /\ channel' = Append(channel, c)
              /\ handler' = [handler EXCEPT ![c] = "waiting"]
              /\ UNCHANGED answer
    /\ UNCHANGED <<HandlerVars, lockVars>>

(* rx.await: the reply, or the news that its sender has been dropped. *)
Receive(c) ==
    /\ handler[c] = "waiting"
    /\ IF answer[c] # "none" THEN UNCHANGED answer
       ELSE WriterGone /\ answer' = [answer EXCEPT ![c] = "lost"]
    /\ handler' = [handler EXCEPT ![c] = "done"]
    /\ UNCHANGED <<HandlerVars, lockVars, channel>>

SearchRuns(c) ==
    /\ handler[c] = "searching" /\ Run(c)
    /\ UNCHANGED <<HandlerVars, handler, answer, channel>>
SearchEnds(c) ==
    /\ handler[c] = "searching" /\ Idle(c)
    /\ handler' = [handler EXCEPT ![c] = "done"]
    /\ answer' = [answer EXCEPT ![c] = "ok"]
    /\ UNCHANGED <<HandlerVars, lockVars, channel>>

(* A client that hangs up takes its handler with it; a command in the      *)
(* channel stays there.                                                    *)
HangUp(c) ==
    /\ c \in MayLeave /\ handler[c] \in {"sending", "waiting"}
    /\ handler' = [handler EXCEPT ![c] = "left"]
    /\ UNCHANGED <<HandlerVars, lockVars, answer, channel>>

Handler(c) == Arrive(c) \/ Send(c) \/ Receive(c) \/ SearchRuns(c) \/ SearchEnds(c)

-----------------------------------------------------------------------------
(* The writer task. *)

WriterSame == <<want, handler, merging, closing>>
At(w) == wstate = w
Runs(steps) == Begin("writer", steps) /\ UNCHANGED <<holds, waits>>

(* Replies go to the handlers that still wait, each with its own result,   *)
(* or all with the error of the commit.                                    *)
PendingOf(c) == { p \in ToSet(pending) : p[1] = c }
Deliver(failed) ==
    answer' = [c \in Clients |->
        IF handler[c] = "waiting" /\ PendingOf(c) # {}
          THEN IF failed THEN "error" ELSE (CHOOSE p \in PendingOf(c) : TRUE)[2]
          ELSE answer[c]]

(* blocking_recv, then try_recv until the batch is full or nothing waits. *)
ReceiveBatch ==
    /\ At("recv") /\ channel # <<>>
    /\ LET n == IF Len(channel) < MaxBatch THEN Len(channel) ELSE MaxBatch
       IN  batch' = SubSeq(channel, 1, n) /\ channel' = SubSeq(channel, n + 1, Len(channel))
    /\ wstate' = "next"
    /\ UNCHANGED <<WriterSame, answer, lockVars, pending, storeVars, backlog, faults>>

(* The next command.  An insert or delete is refused (duplicate, not       *)
(* found) or fails to be logged before anything is changed; an insert may  *)
(* fill the buffer, which is then handed to the seal thread.               *)
StartWrite ==
    /\ At("next") /\ batch # <<>> /\ want[Head(batch)] # "checkpoint"
    /\ \/ wstate' = "refused" /\ Runs(LookUpLive) /\ Outcome(FALSE)
       \/ wstate' = "error" /\ Runs(LookUpLive) /\ Outcome(TRUE)
       \/ wstate' = "ok" /\ Outcome(FALSE)
          /\ Runs(IF want[Head(batch)] = "insert" THEN InsertProgram ELSE DeleteProgram)
       \/ wstate' = "seal" /\ want[Head(batch)] = "insert" /\ Outcome(FALSE)
          /\ Runs(InsertProgram \o SealProgram)
    /\ UNCHANGED <<WriterSame, answer, channel, batch, pending, storeVars, backlog>>

WriterRuns ==
    /\ Run("writer")
    /\ UNCHANGED <<WriterSame, answer, channel, writerVars, storeVars, backlog, faults>>

EndWrite ==
    /\ Idle("writer") /\ wstate \in {"refused", "error", "ok", "seal"}
    /\ LET result == IF At("seal") THEN "ok" ELSE wstate
       IN  /\ pending' = Append(pending, <<Head(batch), result>>)
           /\ applied' = IF result = "ok" THEN applied \cup {Head(batch)} ELSE applied
    /\ batch' = Tail(batch)
    /\ backlog' = IF At("seal") THEN backlog + 1 ELSE backlog
    /\ wstate' = IF At("seal") THEN "stall" ELSE "next"
    /\ UNCHANGED <<WriterSame, answer, channel, lockVars, durable, leaked, faults>>

(* Mutant: the writer waits for fewer buffers than are allowed. *)
StallBelow ==
    /\ At("stall") /\ backlog < QueueLimit
    /\ wstate' = "next"
    /\ UNCHANGED <<WriterSame, answer, channel, lockVars, batch, pending, storeVars, backlog, faults>>

(* apply_backpressure, its safety valve left out. *)
Stall ==
    /\ At("stall") /\ backlog <= QueueLimit
    /\ wstate' = "next"
    /\ UNCHANGED <<WriterSame, answer, channel, lockVars, batch, pending, storeVars, backlog, faults>>

(* A checkpoint in a batch: the pending writes are committed and answered  *)
(* with their own results, whatever the commit returned.                   *)
CheckpointCommit ==
    /\ At("next") /\ batch # <<>> /\ want[Head(batch)] = "checkpoint"
    /\ \E fails \in BOOLEAN :
           /\ Outcome(fails)
           /\ durable' = IF fails THEN durable ELSE applied
           /\ leaked' = IF fails THEN leaked \cup (applied \ durable) ELSE leaked
    /\ Deliver(FALSE)
    /\ pending' = <<>>
    /\ \/ wstate' = "ckpt_seal" /\ Runs(SealProgram)
       \/ wstate' = "ckpt_wait" /\ Runs(Touch("write", "buffer"))
    /\ UNCHANGED <<WriterSame, channel, batch, applied, backlog>>

CheckpointSealed ==
    /\ At("ckpt_seal") /\ Idle("writer")
    /\ backlog' = backlog + 1
    /\ wstate' = "ckpt_wait"
    /\ UNCHANGED <<WriterSame, answer, channel, lockVars, batch, pending, storeVars, faults>>

(* wait_for_background, then the files. *)
CheckpointStore ==
    /\ At("ckpt_wait") /\ backlog = 0 /\ Idle("sealer") /\ ~merging
    /\ Runs(StoreProgram)
    /\ wstate' = "ckpt_store"
    /\ UNCHANGED <<WriterSame, answer, channel, batch, pending, storeVars, backlog, faults>>

CheckpointReply ==
    /\ At("ckpt_store") /\ Idle("writer")
    /\ \E fails \in BOOLEAN :
           /\ Outcome(fails)
           /\ durable' = IF fails THEN durable ELSE applied
           /\ answer' = IF handler[Head(batch)] = "waiting"
                          THEN [answer EXCEPT ![Head(batch)] = IF fails THEN "error" ELSE "ok"]
                          ELSE answer
    /\ batch' = Tail(batch)
    /\ wstate' = "next"
    /\ UNCHANGED <<WriterSame, channel, lockVars, pending, applied, leaked, backlog>>

(* Mutant: the replies do not depend on the commit. *)
CommitIgnored ==
    /\ At("next") /\ batch = <<>>
    /\ \E fails \in BOOLEAN :
           /\ Outcome(fails)
           /\ durable' = IF fails THEN durable ELSE applied
    /\ Deliver(FALSE)
    /\ pending' = <<>>
    /\ wstate' = "recv"
    /\ UNCHANGED <<WriterSame, channel, lockVars, batch, applied, leaked, backlog>>

(* The end of a batch: one commit, if there is anything to answer. *)
Commit ==
    /\ At("next") /\ batch = <<>>
    /\ IF pending = <<>> THEN UNCHANGED <<answer, durable, faults>>
       ELSE \E fails \in BOOLEAN :
                /\ Outcome(fails)
                /\ durable' = IF fails THEN durable ELSE applied
                /\ Deliver(fails)
    /\ pending' = <<>>
    /\ wstate' = "recv"
    /\ UNCHANGED <<WriterSame, channel, lockVars, batch, applied, leaked, backlog>>

(* The channel is closed and empty: flush_wal. *)
Stop ==
    /\ At("recv") /\ channel = <<>> /\ closing
    /\ \A c \in Clients : handler[c] \in {"new", "done", "left"}
    /\ \E fails \in BOOLEAN :
           /\ Outcome(fails)
           /\ durable' = IF fails THEN durable ELSE applied
    /\ wstate' = "stopped"
    /\ UNCHANGED <<WriterSame, answer, channel, lockVars, batch, pending, applied, leaked, backlog>>

(* A panic between two operations drops the receiver and every reply. *)
Panic ==
    /\ ~WriterGone /\ Idle("writer") /\ Outcome(TRUE)
    /\ wstate' = "dead" /\ channel' = <<>> /\ batch' = <<>> /\ pending' = <<>>
    /\ UNCHANGED <<WriterSame, answer, lockVars, storeVars, backlog>>

WriterTask ==
    \/ ReceiveBatch \/ StartWrite \/ WriterRuns \/ EndWrite \/ Stall
    \/ CheckpointCommit \/ CheckpointSealed \/ CheckpointStore \/ CheckpointReply
    \/ Commit \/ Stop

-----------------------------------------------------------------------------
(* The seal and merge threads, and the end of the server. *)

BackgroundSame == <<clientVars, channel, writerVars, storeVars, closing, faults>>

SealerWorks ==
    /\ \/ backlog > 0 /\ Begin("sealer", BuildProgram) /\ UNCHANGED <<holds, waits>>
       \/ Run("sealer") /\ Len(program'["sealer"]) > 0
    /\ UNCHANGED <<BackgroundSame, backlog, merging>>

(* The last step of a build: one buffer less, and perhaps a merge. *)
SealerEnds ==
    /\ Len(program["sealer"]) = 1 /\ LockStep("sealer")
    /\ backlog' = backlog - 1
    /\ merging' \in {merging, TRUE}
    /\ UNCHANGED BackgroundSame

MergerWorks ==
    /\ \/ Run("merger") /\ merging' = (program'["merger"] # <<>>)
       \/ merging /\ Begin("merger", MergeProgram) /\ UNCHANGED <<holds, waits, merging>>
    /\ UNCHANGED <<BackgroundSame, backlog>>

ShutDown ==
    /\ MayStop /\ ~closing
    /\ closing' = TRUE
    /\ UNCHANGED <<lockVars, clientVars, channel, writerVars, storeVars, backlog, merging, faults>>

Next ==
    \/ \E c \in Clients : Handler(c) \/ HangUp(c)
    \/ WriterTask \/ Panic
    \/ SealerWorks \/ SealerEnds \/ MergerWorks
    \/ ShutDown

(* The threads run; clients need not come, and nobody need hang up. *)
Fairness ==
    /\ \A c \in Clients : WF_serverVars(Handler(c) /\ handler[c] # "new")
    /\ WF_serverVars(WriterTask)
    /\ WF_serverVars(SealerWorks \/ SealerEnds)
    /\ WF_serverVars(MergerWorks)

Spec == ServerInit /\ [][Next]_serverVars /\ Fairness

-----------------------------------------------------------------------------
(* "a write response is returned only AFTER the durability the policy      *)
(* promises has been achieved", but for the writes a checkpoint answered   *)
(* although their commit had failed; and a stop without failures leaves    *)
(* nothing behind that is not durable, whoever hung up meanwhile.          *)
OkMeansDurable ==
    /\ \A c \in Clients :
           answer[c] = "ok" /\ want[c] \in {"insert", "delete"} => c \in durable \cup leaked
    /\ wstate = "stopped" /\ faults = 0 => applied = durable

(* Every request is answered, one way or another: through full channels,   *)
(* batches, failed commits, waiting checkpoints, hang-ups of others and    *)
(* the death of the writer task.                                           *)
EveryRequestAnswered ==
    \A c \in Clients :
        handler[c] \in {"sending", "waiting", "searching"} ~> handler[c] \in {"done", "left"}
=============================================================================

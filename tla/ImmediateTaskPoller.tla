--------------------------- MODULE ImmediateTaskPoller ---------------------------
(***************************************************************************)
(* One shard's immediate-task pipeline at the grain of task sequences:     *)
(*   - store transactions (one per process, Writers) insert a task row     *)
(*     whose task_sequence the database assigns at the INSERT and which    *)
(*     becomes visible at COMMIT;                                          *)
(*   - the poller reads a page of visible rows with task_sequence >=       *)
(*     its cursor (BatchSelectImmediateTasks), forwards each task into     *)
(*     taskToProcessChan, receives commits from its commit channel,        *)
(*     advances the low-water mark and deletes the committed range         *)
(*     (BatchDeleteImmediateTask);                                         *)
(*   - the processor goroutines (immediateTaskConcurrentProcessor.Start)   *)
(*     take a task, process it, and either send it to the commit channel   *)
(*     or put it back into taskToProcessChan;                              *)
(*   - a server restart loses everything in memory.                         *)
(* What a task does to the process is left to TaskProcessor; here a task  *)
(* is its sequence number and `processed` records whose store transaction *)
(* committed.                                                               *)
(***************************************************************************)
EXTENDS Naturals, Sequences, SequencesExt, FiniteSets, FiniteSetsExt

CONSTANTS
    Writers,             \* processes of the shard, each with its own transactions
    Goroutines,          \* ProcessorConcurrency
    ProcessorBufferSize, \* capacity of taskToProcessChan
    CommitBufferSize,    \* capacity of the shard's commit channel
    PollPageSize,        \* PollPageSize of the immediate task queue
    MaxTasks,            \* bound: task sequences allocated
    MaxProcessErrors,    \* bound: internal errors of processImmediateTask
    MaxCrashes           \* bound: server restarts

VARIABLES
    nextSeq,    \* the shard's task_sequence generator
    open,       \* writer -> sequence its open transaction inserted, 0 if none
    table,      \* visible rows of xdb_sys_immediate_tasks
    cursor,     \* startSequenceInclusive of the next page
    page,       \* tasks read and not yet forwarded
    inflight,   \* tasks forwarded whose commit the poller has not received
    committed,  \* commits received, not yet covered by a range delete
    chan,       \* taskToProcessChan
    commitChan, \* the shard's tasksToCommitChan
    wtask,      \* goroutine -> task it holds, 0 if none
    wres,       \* goroutine -> "none" | "ok" | "err": result of processImmediateTask
    processed,  \* tasks whose store transaction committed
    inserted,   \* history: rows that ever became visible
    errors,     \* internal errors so far
    crashes     \* restarts so far

vars == <<nextSeq, open, table, cursor, page, inflight, committed, chan,
          commitChan, wtask, wres, processed, inserted, errors, crashes>>

Seqs == 1..MaxTasks

-----------------------------------------------------------------------------
(* Store side.                                                              *)

(* InsertImmediateTask: the INSERT names no task_sequence, so the column's *)
(* sequence assigns the next value inside the still-open transaction.      *)
InsertImmediateTask(w) ==
    /\ open[w] = 0
    /\ nextSeq <= MaxTasks
    /\ open' = [open EXCEPT ![w] = nextSeq]
    /\ nextSeq' = nextSeq + 1
    /\ UNCHANGED <<table, cursor, page, inflight, committed, chan, commitChan,
                   wtask, wres, processed, inserted, errors, crashes>>

(* Commit of the writer's transaction: the row becomes visible.           *)
CommitTransaction(w) ==
    /\ open[w] # 0
    /\ table' = table \cup {open[w]}
    /\ inserted' = inserted \cup {open[w]}
    /\ open' = [open EXCEPT ![w] = 0]
    /\ UNCHANGED <<nextSeq, cursor, page, inflight, committed, chan, commitChan,
                   wtask, wres, processed, errors, crashes>>

(* Rollback (a failed conditional update): the sequence value is lost.   *)
RollbackTransaction(w) ==
    /\ open[w] # 0
    /\ open' = [open EXCEPT ![w] = 0]
    /\ UNCHANGED <<nextSeq, table, cursor, page, inflight, committed, chan,
                   commitChan, wtask, wres, processed, inserted, errors, crashes>>

-----------------------------------------------------------------------------
(* Poller side.                                                             *)

(* BatchSelectImmediateTasks: task_sequence >= start, ascending, LIMIT.   *)
BatchSelectImmediateTasks(start, pageSize) ==
    LET rows == SetToSortSeq({s \in table : s >= start}, <)
    IN  SubSeq(rows, 1, IF Len(rows) < pageSize THEN Len(rows) ELSE pageSize)

(* BatchDeleteImmediateTask: task_sequence >= min AND task_sequence <= max. *)
BatchDeleteImmediateTaskPastMax(min, max) ==
    {s \in table : ~(min <= s /\ s <= max + 1)}

BatchDeleteImmediateTask(min, max) ==
    {s \in table : ~(min <= s /\ s <= max)}

(* The poller reads the next page and moves its cursor past it.           *)
PollImmediateTasks ==
    /\ page = <<>>
    /\ LET rows == BatchSelectImmediateTasks(cursor, PollPageSize)
       IN  /\ rows # <<>>
           /\ page' = rows
           /\ cursor' = Last(rows) + 1
    /\ UNCHANGED <<nextSeq, open, table, inflight, committed, chan, commitChan,
                   wtask, wres, processed, inserted, errors, crashes>>

(* Forward the next task of the page; blocks while the channel is full.   *)
ForwardTask ==
    /\ page # <<>>
    /\ Len(chan) < ProcessorBufferSize
    /\ chan' = Append(chan, Head(page))
    /\ page' = Tail(page)
    /\ inflight' = inflight \cup {Head(page)}
    /\ UNCHANGED <<nextSeq, open, table, cursor, committed, commitChan, wtask,
                   wres, processed, inserted, errors, crashes>>

(* Receive one commit from the commit channel.                             *)
ReceiveCommit ==
    /\ page = <<>>
    /\ commitChan # <<>>
    /\ committed' = committed \cup {Head(commitChan)}
    /\ inflight' = inflight \ {Head(commitChan)}
    /\ commitChan' = Tail(commitChan)
    /\ UNCHANGED <<nextSeq, open, table, cursor, page, chan, wtask, wres,
                   processed, inserted, errors, crashes>>

(* The low-water mark: the highest received commit below which no        *)
(* forwarded task is still in flight.                                       *)
LowWaterMark ==
    {c \in committed : \A f \in inflight : c < f}

(* Mutation: the poller forgets the commits above the low-water mark.     *)
DeleteCommittedTasksClearing ==
    /\ page = <<>>
    /\ LowWaterMark # {}
    /\ table' = BatchDeleteImmediateTask(Min(committed), Max(LowWaterMark))
    /\ committed' = {}
    /\ UNCHANGED <<nextSeq, open, cursor, page, inflight, chan, commitChan,
                   wtask, wres, processed, inserted, errors, crashes>>

(* Delete the committed tasks from the smallest up to the low-water mark. *)
DeleteCommittedTasks ==
    /\ page = <<>>
    /\ LowWaterMark # {}
    /\ LET lo == Min(committed)
           hi == Max(LowWaterMark)
       IN  /\ table' = BatchDeleteImmediateTask(lo, hi)
           /\ committed' = {c \in committed : c > hi}
    /\ UNCHANGED <<nextSeq, open, cursor, page, inflight, chan, commitChan,
                   wtask, wres, processed, inserted, errors, crashes>>

-----------------------------------------------------------------------------
(* Processor goroutines (immediateTaskConcurrentProcessor.Start).          *)

ReceiveTask(g) ==
    /\ wtask[g] = 0
    /\ chan # <<>>
    /\ wtask' = [wtask EXCEPT ![g] = Head(chan)]
    /\ chan' = Tail(chan)
    /\ UNCHANGED <<nextSeq, open, table, cursor, page, inflight, committed,
                   commitChan, wres, processed, inserted, errors, crashes>>

(* processImmediateTask: its store transaction commits, or it returns an  *)
(* internal error and changes nothing.                                      *)
ProcessImmediateTask(g) ==
    /\ wtask[g] # 0
    /\ wres[g] = "none"
    /\ \/ /\ wres' = [wres EXCEPT ![g] = "ok"]
          /\ processed' = processed \cup {wtask[g]}
          /\ UNCHANGED errors
       \/ /\ errors < MaxProcessErrors
          /\ wres' = [wres EXCEPT ![g] = "err"]
          /\ errors' = errors + 1
          /\ UNCHANGED processed
    /\ UNCHANGED <<nextSeq, open, table, cursor, page, inflight, committed,
                   chan, commitChan, wtask, inserted, crashes>>

SendCommit(g) ==
    /\ wres[g] = "ok"
    /\ Len(commitChan) < CommitBufferSize
    /\ commitChan' = Append(commitChan, wtask[g])
    /\ wtask' = [wtask EXCEPT ![g] = 0]
    /\ wres' = [wres EXCEPT ![g] = "none"]
    /\ UNCHANGED <<nextSeq, open, table, cursor, page, inflight, committed,
                   chan, processed, inserted, errors, crashes>>

(* On error the task goes back into taskToProcessChan.                    *)
RequeueTaskUnbounded(g) ==
    /\ wres[g] = "err"
    /\ chan' = Append(chan, wtask[g])
    /\ wtask' = [wtask EXCEPT ![g] = 0]
    /\ wres' = [wres EXCEPT ![g] = "none"]
    /\ UNCHANGED <<nextSeq, open, table, cursor, page, inflight, committed,
                   commitChan, processed, inserted, errors, crashes>>

RequeueTask(g) ==
    /\ wres[g] = "err"
    /\ Len(chan) < ProcessorBufferSize
    /\ chan' = Append(chan, wtask[g])
    /\ wtask' = [wtask EXCEPT ![g] = 0]
    /\ wres' = [wres EXCEPT ![g] = "none"]
    /\ UNCHANGED <<nextSeq, open, table, cursor, page, inflight, committed,
                   commitChan, processed, inserted, errors, crashes>>

-----------------------------------------------------------------------------
(* A restart loses the poller's and processor's memory and every open    *)
(* transaction; the poller starts again from the beginning of the table. *)
Restart ==
    /\ crashes < MaxCrashes
    /\ crashes' = crashes + 1
    /\ open' = [w \in Writers |-> 0]
    /\ cursor' = 0
    /\ page' = <<>>
    /\ inflight' = {}
    /\ committed' = {}
    /\ chan' = <<>>
    /\ commitChan' = <<>>
    /\ wtask' = [g \in Goroutines |-> 0]
    /\ wres' = [g \in Goroutines |-> "none"]
    /\ UNCHANGED <<nextSeq, table, processed, inserted, errors>>

Init ==
    /\ nextSeq = 1
    /\ open = [w \in Writers |-> 0]
    /\ table = {}
    /\ cursor = 0
    /\ page = <<>>
    /\ inflight = {}
    /\ committed = {}
    /\ chan = <<>>
    /\ commitChan = <<>>
    /\ wtask = [g \in Goroutines |-> 0]
    /\ wres = [g \in Goroutines |-> "none"]
    /\ processed = {}
    /\ inserted = {}
    /\ errors = 0
    /\ crashes = 0

Next ==
    \/ \E w \in Writers :
          InsertImmediateTask(w) \/ CommitTransaction(w) \/ RollbackTransaction(w)
    \/ PollImmediateTasks \/ ForwardTask \/ ReceiveCommit \/ DeleteCommittedTasks
    \/ \E g \in Goroutines :
          ReceiveTask(g) \/ ProcessImmediateTask(g) \/ SendCommit(g) \/ RequeueTask(g)
    \/ Restart

(* Every loop of the server runs while it has work; a transaction that    *)
(* was begun ends.  New inserts and restarts carry no fairness.            *)
Fairness ==
    /\ \A w \in Writers : WF_vars(CommitTransaction(w) \/ RollbackTransaction(w))
    /\ WF_vars(PollImmediateTasks) /\ WF_vars(ForwardTask)
    /\ WF_vars(ReceiveCommit) /\ WF_vars(DeleteCommittedTasks)
    /\ \A g \in Goroutines :
          /\ WF_vars(ReceiveTask(g)) /\ WF_vars(ProcessImmediateTask(g))
          /\ WF_vars(SendCommit(g)) /\ WF_vars(RequeueTask(g))

Spec == Init /\ [][Next]_vars /\ Fairness

-----------------------------------------------------------------------------
TypeOK ==
    /\ nextSeq \in 1..MaxTasks + 1
    /\ open \in [Writers -> 0..MaxTasks]
    /\ table \subseteq inserted /\ inserted \subseteq Seqs /\ processed \subseteq Seqs
    /\ inflight \subseteq Seqs /\ committed \subseteq Seqs
    /\ page \in Seq(Seqs) /\ commitChan \in Seq(Seqs)
    /\ chan \in Seq(Seqs) /\ Len(chan) <= ProcessorBufferSize
    /\ wtask \in [Goroutines -> 0..MaxTasks]
    /\ wres \in [Goroutines -> {"none", "ok", "err"}]

(* The range delete never removes a task the poller forwarded and whose   *)
(* store transaction has not committed: goroutines finish tasks out of     *)
(* order and requeue failed ones, and BatchDeleteImmediateTask removes a  *)
(* whole [min, max] range, so the low-water mark must stay below every     *)
(* task still in taskToProcessChan, in a goroutine or requeued.            *)
NoInFlightTaskDeleted ==
    \A s \in inflight : s \in table \/ s \in processed

(* Every task whose store transaction committed is eventually deleted     *)
(* from the table: its commit reaches the poller, the low-water mark      *)
(* passes it, or a restart makes the poller read and process it again.    *)
ProcessedTaskEventuallyDeleted ==
    \A s \in Seqs : s \in processed ~> s \notin table
==================================================================================

---------------------------- MODULE ProcessStore ----------------------------
(***************************************************************************)
(* The process store of xdb: the SQL transactions that start a process    *)
(* execution and move its async state executions forward, together with   *)
(* the immediate tasks, timer tasks and local-queue rows they insert in    *)
(* the same transaction.                                                   *)
(*                                                                         *)
(* One process execution is modelled.  A transaction is one TLA+ step:    *)
(* the SQL store commits it atomically or rolls it back, and a rolled-back *)
(* transaction (a failed conditional update, a data-corruption error)      *)
(* leaves every table unchanged; the xxxOk predicates say when a           *)
(* transaction commits.  The module declares the tables and the            *)
(* transactions; TaskProcessor composes them with the callers.             *)
(***************************************************************************)
EXTENDS Naturals, Sequences, FiniteSets, Functions, FiniteSetsExt, TLC

CONSTANTS
    StateIds,           \* the state ids of the process type
    MaxStateIdSequence, \* bound: executions started per state id
    NextStateChoices,   \* the StateDecision.NextStates a worker may return
    Queues,             \* local queue names
    MaxMessages,        \* bound: local-queue messages published
    NoState             \* StateId of a NewLocalQueueMessage task ("" in the code)

ASSUME MaxStateIdSequence \in Nat \ {0}
ASSUME NextStateChoices \subseteq Seq([stateId : StateIds, skipWaitUntil : BOOLEAN])

VARIABLES
    started,        \* the xdb_sys_latest_process_executions row exists
    prcStatus,      \* xdb_sys_process_executions.status
    pending,        \* PendingExecutionMap of state_execution_sequence_maps
    seqMap,         \* SequenceMap: last StateIdSequence started per state id
    waitToComplete, \* xdb_sys_process_executions.wait_to_complete
    waitingQ,       \* waiting-queue map: per queue, the state executions waiting
    unconsumed,     \* waiting-queue map: per queue, the messages nobody took yet
    received,       \* dedup ids the waiting-queue map has taken in
    consumed,       \* WaitUntilCommandResults: <<state execution, message>> taken
    se,             \* xdb_sys_async_state_executions: id -> [wu, ex, ver]
    imm,            \* xdb_sys_immediate_tasks of the default shard
    timers,         \* xdb_sys_timer_tasks of the default shard
    lq,             \* xdb_sys_local_queue: dedup ids of the published messages
    taskSeq         \* the next task_sequence of the shard

storeVars == <<started, prcStatus, pending, seqMap, waitToComplete, waitingQ,
               unconsumed, received, consumed, se, imm, timers, lq, taskSeq>>

-----------------------------------------------------------------------------
(* Status encodings of persistence.StateExecutionStatus and the process.  *)
StateStatuses == {"Undefined", "Running", "Waiting", "Completed",
                  "Skipped", "Aborted", "Failed"}
ProcessStatuses == {"Running", "Completed", "Failed", "Terminated", "Timeout"}

StateExecId == StateIds \X (1..MaxStateIdSequence)
NoStateExecId == <<NoState, 0>>
MsgIds == 1..MaxMessages

TaskTypes == {"WaitUntil", "Execute", "NewLocalQueueMessage"}

(* xdbapi.CommandRequest waiting types the worker's WaitUntil returns.    *)
CommandRequests == {[kind |-> "Empty"], [kind |-> "Timer"]}
                   \cup [kind : {"LocalQueue"}, queue : Queues]

CloseTypes == {"None", "GracefulComplete", "ForceComplete", "ForceFail", "DeadEnd"}

(* A StateDecision: next states or a thread close decision, never both    *)
(* (checkDecision turns both into a worker failure).                      *)
Decisions == [next : NextStateChoices, close : {"None"}]
             \cup [next : {<<>>}, close : CloseTypes]

(* PublishToLocalQueue of a worker response: no message or one message.   *)
PublishChoices == {<<>>} \cup {<<q>> : q \in Queues}

Task == [seq : Nat, type : TaskTypes, id : StateExecId \cup {NoStateExecId},
         attempts : Nat, queue : Queues \cup {NoState}, msg : MsgIds \cup {0}]

-----------------------------------------------------------------------------
(* insertAsyncStateExecution: the initial statuses of a new row.          *)
InitialRow(skipWaitUntil) ==
    IF skipWaitUntil THEN [wu |-> "Skipped", ex |-> "Running", ver |-> 1]
                     ELSE [wu |-> "Running", ex |-> "Undefined", ver |-> 1]

(* insertImmediateTask: the task type of a new state execution.           *)
FirstTaskType(skipWaitUntil) ==
    IF skipWaitUntil THEN "Execute" ELSE "WaitUntil"

StateTask(type, id) ==
    [seq |-> 0, type |-> type, id |-> id, attempts |-> 0, queue |-> NoState, msg |-> 0]

(* InsertImmediateTask for each row of a sequence, with consecutive       *)
(* task_sequence values from the shard's sequence.                         *)
InsertImmediateTasks(rows) ==
    /\ imm' = imm \cup {[rows[i] EXCEPT !.seq = taskSeq + i - 1] :
                           i \in 1..Len(rows)}
    /\ taskSeq' = taskSeq + Len(rows)

(* publishToLocalQueue: a fresh dedup id, an xdb_sys_local_queue row and  *)
(* a NewLocalQueueMessage task per message.  The message ids are minted   *)
(* in publication order.                                                   *)
PublishedTasks(publish) ==
    [i \in 1..Len(publish) |->
        [seq |-> 0, type |-> "NewLocalQueueMessage", id |-> NoStateExecId, attempts |-> 0,
         queue |-> publish[i], msg |-> Cardinality(lq) + i]]

PublishFits(publish) == Cardinality(lq) + Len(publish) <= MaxMessages

PublishRows(publish) == lq \cup {Cardinality(lq) + i : i \in 1..Len(publish)}

-----------------------------------------------------------------------------
(* StateExecutionSequenceMaps.StartNewStateExecution over the next states *)
(* of a decision: the i-th next state gets the next sequence of its id.   *)
NewSeq(ns, i) ==
    seqMap[ns[i].stateId]
        + Cardinality({j \in 1..i : ns[j].stateId = ns[i].stateId})

(* Mutation: the sequence is read before it is incremented, so a next    *)
(* state reuses the last StateIdSequence of its id.                        *)
NewIdsReused(ns) ==
    [i \in 1..Len(ns) |-> <<ns[i].stateId, NewSeq(ns, i) - 1>>]

NewIds(ns) == [i \in 1..Len(ns) |-> <<ns[i].stateId, NewSeq(ns, i)>>]

NextStatesFit(ns) == \A i \in 1..Len(ns) : NewSeq(ns, i) <= MaxStateIdSequence

(* BatchUpdateAsyncStateExecutionsToAbortRunning: every Running phase of  *)
(* the process becomes Aborted; a row with a Running phase gets version+1.*)
(* Mutation: the abort leaves the version column alone.                  *)
AbortRunningKeepVersion(rows) ==
    [id \in DOMAIN rows |->
        [wu  |-> IF rows[id].wu = "Running" THEN "Aborted" ELSE rows[id].wu,
         ex  |-> IF rows[id].ex = "Running" THEN "Aborted" ELSE rows[id].ex,
         ver |-> rows[id].ver]]

AbortRunning(rows) ==
    [id \in DOMAIN rows |->
        LET r == rows[id]
        IN  IF r.wu = "Running" \/ r.ex = "Running"
            THEN [wu  |-> IF r.wu = "Running" THEN "Aborted" ELSE r.wu,
                  ex  |-> IF r.ex = "Running" THEN "Aborted" ELSE r.ex,
                  ver |-> r.ver + 1]
            ELSE r]

-----------------------------------------------------------------------------
StoreInit ==
    /\ started = FALSE
    /\ prcStatus = "Running"
    /\ pending = {}
    /\ seqMap = [s \in StateIds |-> 0]
    /\ waitToComplete = FALSE
    /\ waitingQ = [q \in Queues |-> <<>>]
    /\ unconsumed = [q \in Queues |-> <<>>]
    /\ received = {}
    /\ consumed = {}
    /\ se = <<>>
    /\ imm = {}
    /\ timers = {}
    /\ lq = {}
    /\ taskSeq = 0

(* StartProcess of the process store: insert the latest-process pointer, *)
(* the start state's row and its immediate task, and the process row with *)
(* the start state in its PendingExecutionMap, in one transaction.  A    *)
(* second start of the same ProcessId hits the duplicate entry, returns   *)
(* alreadyStarted and rolls back: it changes nothing and is not a step.   *)
StartProcess(start) ==
    /\ ~started
    /\ started' = TRUE
    /\ prcStatus' = "Running"
    /\ IF start = <<>>
       THEN UNCHANGED <<pending, seqMap, se, imm, taskSeq>>
       ELSE LET id == <<start[1].stateId, 1>>
            IN  /\ seqMap' = [seqMap EXCEPT ![start[1].stateId] = 1]
                /\ pending' = {id}
                /\ se' = id :> InitialRow(start[1].skipWaitUntil)
                /\ InsertImmediateTasks(<<StateTask(FirstTaskType(start[1].skipWaitUntil), id)>>)
    /\ UNCHANGED <<waitToComplete, waitingQ, unconsumed, received, consumed, timers, lq>>

(* PrepareStateExecution: the snapshot a caller reads before its worker   *)
(* call; it carries the row's statuses and PreviousVersion.               *)
PrepareStateExecution(id) == se[id]

-----------------------------------------------------------------------------
(* doProcessLocalQueueMessageTx, applied to the waiting-queue map after   *)
(* the messages of the request were appended to it: while some queue has *)
(* both a waiting state execution and an unconsumed message, the first    *)
(* waiting one takes the first message into its command results, moves to *)
(* ExecuteRunning and gets an Execute task.  One command per state        *)
(* execution, so AnyOf and AllOf agree.  Returns the new waiting,         *)
(* unconsumed, rows, results and tasks.                                    *)
RECURSIVE Match(_, _, _, _, _)
Match(wq, uq, rows, res, tasks) ==
    IF \E q \in Queues : wq[q] # <<>> /\ uq[q] # <<>>
    THEN LET q  == CHOOSE q \in Queues : wq[q] # <<>> /\ uq[q] # <<>>
             id == Head(wq[q])
         IN  Match([wq EXCEPT ![q] = Tail(@)], [uq EXCEPT ![q] = Tail(@)],
                   [rows EXCEPT ![id] = [wu |-> "Completed", ex |-> "Running",
                                         ver |-> @.ver + 1]],
                   res \cup {<<id, Head(uq[q])>>},
                   Append(tasks, StateTask("Execute", id)))
    ELSE [wq |-> wq, uq |-> uq, rows |-> rows, res |-> res, tasks |-> tasks]

(* Mutation: the consumer keeps no record of the dedup ids it took in.    *)
ProcessLocalQueueMessageNoDedup(task) ==
    LET uq == [unconsumed EXCEPT ![task.queue] = Append(@, task.msg)]
        m  == Match(waitingQ, uq, se, consumed, <<>>)
    IN  /\ waitingQ' = m.wq
        /\ unconsumed' = m.uq
        /\ received' = received \cup {task.msg}
        /\ se' = m.rows
        /\ consumed' = m.res
        /\ InsertImmediateTasks(m.tasks)
        /\ UNCHANGED <<started, prcStatus, pending, seqMap, waitToComplete,
                       timers, lq>>

(* ProcessLocalQueueMessage for one NewLocalQueueMessage task: a message  *)
(* whose dedup id was taken in before is dropped (consumer dedup).        *)
ProcessLocalQueueMessage(task) ==
    LET fresh == task.msg \notin received
        uq    == IF fresh THEN [unconsumed EXCEPT ![task.queue] = Append(@, task.msg)]
                          ELSE unconsumed
        m     == Match(waitingQ, uq, se, consumed, <<>>)
    IN  /\ waitingQ' = m.wq
        /\ unconsumed' = m.uq
        /\ received' = received \cup {task.msg}
        /\ se' = m.rows
        /\ consumed' = m.res
        /\ InsertImmediateTasks(m.tasks)
        /\ UNCHANGED <<started, prcStatus, pending, seqMap, waitToComplete,
                       timers, lq>>

-----------------------------------------------------------------------------
(* Mutation: the update of the state row is not conditional on the      *)
(* version.                                                                *)
ProcessWaitUntilExecutionOkAnyVersion(id, prepVer) == id \in DOMAIN se

(* ProcessWaitUntilExecution commits iff the conditional update of the    *)
(* state row finds the version the caller prepared.                       *)
ProcessWaitUntilExecutionOk(id, prepVer) == se[id].ver = prepVer

(* ProcessWaitUntilExecution: an EMPTY_COMMAND completes the wait-until   *)
(* phase (CompleteWaitUntilExecution); any other command moves the row to *)
(* WaitUntilWaiting (updateWaitUntilExecution), registering a local-queue *)
(* command in the waiting-queue map first and consuming unconsumed        *)
(* messages after.  A timer command only records the command.  Then the   *)
(* published messages are inserted.                                       *)
ProcessWaitUntilExecution(id, prepVer, cmd, publish) ==
    LET waiting  == [se EXCEPT ![id] = [wu |-> "Waiting", ex |-> @.ex,
                                        ver |-> @.ver + 1]]
        wq       == IF cmd.kind = "LocalQueue"
                    THEN [waitingQ EXCEPT ![cmd.queue] = Append(@, id)]
                    ELSE waitingQ
        consume  == cmd.kind = "LocalQueue" /\ \E q \in Queues : unconsumed[q] # <<>>
        m        == IF consume THEN Match(wq, unconsumed, waiting, consumed, <<>>)
                    ELSE [wq |-> wq, uq |-> unconsumed, rows |-> waiting,
                          res |-> consumed, tasks |-> <<>>]
        pubTasks == PublishedTasks(publish)
    IN  /\ ProcessWaitUntilExecutionOk(id, prepVer)
        /\ PublishFits(publish)
        /\ IF cmd.kind = "Empty"
           THEN /\ se' = [se EXCEPT ![id] = [wu |-> "Completed", ex |-> "Running",
                                             ver |-> @.ver + 1]]
                /\ InsertImmediateTasks(<<StateTask("Execute", id)>> \o pubTasks)
                /\ UNCHANGED <<waitingQ, unconsumed, consumed>>
           ELSE /\ se' = m.rows
                /\ waitingQ' = m.wq
                /\ unconsumed' = m.uq
                /\ consumed' = m.res
                /\ InsertImmediateTasks(m.tasks \o pubTasks)
        /\ lq' = PublishRows(publish)
        /\ UNCHANGED <<started, prcStatus, pending, seqMap, waitToComplete,
                       received, timers>>

-----------------------------------------------------------------------------
(* CompleteExecuteExecution commits iff the conditional update finds the  *)
(* prepared version and the state is in the pending map (otherwise it     *)
(* fails with "completing a non-existing state execution").               *)
CompleteExecuteExecutionOk(id, prepVer) ==
    se[id].ver = prepVer /\ id \in pending

(* Mutation: CompleteNewStateExecution is left out.                      *)
PendingAfterNextStatesKeepCurrent(id, ids) == pending \cup Range(ids)

(* Steps 2-1 and 2-2: CompleteNewStateExecution removes the state from    *)
(* the PendingExecutionMap, StartNewStateExecution adds the next states.  *)
PendingAfterNextStates(id, ids) == (pending \ {id}) \cup Range(ids)

(* Mutation: a force close keeps the PendingExecutionMap.                 *)
PendingAfterCloseKept(force, pending1) == pending1

(* Step 2-3: a force complete or force fail empties the                    *)
(* PendingExecutionMap.                                                    *)
PendingAfterClose(force, pending1) == IF force THEN {} ELSE pending1

CompleteExecuteExecution(id, prepVer, decision, publish) ==
    LET ns        == decision.next
        ids       == NewIds(ns)
        pending1  == PendingAfterNextStates(id, ids)
        graceful0 == waitToComplete /\ pending1 = {}
        applies   == ~graceful0 /\ decision.close # "None"
        force     == applies /\ decision.close \in {"ForceComplete", "ForceFail"}
        graceful  == IF applies /\ decision.close = "GracefulComplete"
                     THEN pending1 = {} ELSE graceful0
        completed == [se EXCEPT ![id] = [wu |-> @.wu, ex |-> "Completed",
                                         ver |-> @.ver + 1]]
        inserted  == completed @@ [nid \in Range(ids) |->
                        InitialRow(ns[CHOOSE i \in 1..Len(ns) : ids[i] = nid].skipWaitUntil)]
        nextTasks == [i \in 1..Len(ns) |->
                        StateTask(FirstTaskType(ns[i].skipWaitUntil), ids[i])]
    IN  /\ CompleteExecuteExecutionOk(id, prepVer)
        /\ NextStatesFit(ns)
        /\ PublishFits(publish)
        /\ seqMap' = [s \in StateIds |->
                        seqMap[s] + Cardinality({i \in 1..Len(ns) : ns[i].stateId = s})]
        /\ waitToComplete' = (waitToComplete \/ (applies /\ decision.close = "GracefulComplete"))
        /\ pending' = PendingAfterClose(force, pending1)
        /\ prcStatus' = CASE force /\ decision.close = "ForceFail" -> "Failed"
                          [] force \/ graceful                     -> "Completed"
                          [] OTHER                                 -> prcStatus
        /\ se' = IF force /\ pending1 # {} THEN AbortRunning(inserted) ELSE inserted
        /\ InsertImmediateTasks(nextTasks \o PublishedTasks(publish))
        /\ lq' = PublishRows(publish)
        /\ UNCHANGED <<started, waitingQ, unconsumed, received, consumed, timers>>

-----------------------------------------------------------------------------
(* BackoffImmediateTask commits iff its conditional update of the state   *)
(* row (recording the last failure) finds the prepared version.           *)
BackoffImmediateTaskOk(task, prepVer) == se[task.id].ver = prepVer

(* BackoffImmediateTask: delete the immediate task and insert a timer     *)
(* task carrying the attempts made; the state row keeps its statuses.     *)
BackoffImmediateTask(task, prepVer, attempts) ==
    /\ BackoffImmediateTaskOk(task, prepVer)
    /\ imm' = {t \in imm : t.seq # task.seq}
    /\ timers' = timers \cup {[task EXCEPT !.seq = taskSeq, !.attempts = attempts]}
    /\ taskSeq' = taskSeq + 1
    /\ se' = [se EXCEPT ![task.id].ver = @ + 1]
    /\ UNCHANGED <<started, prcStatus, pending, seqMap, waitToComplete, waitingQ,
                   unconsumed, received, consumed, lq>>

(* The timer-task processor: a due timer task becomes an immediate task   *)
(* of the same type, state execution and attempts, in one transaction.    *)
(* Fire times are not modelled: any timer task may become due.            *)
ProcessTimerTask(tt) ==
    /\ timers' = timers \ {tt}
    /\ InsertImmediateTasks(<<tt>>)
    /\ UNCHANGED <<started, prcStatus, pending, seqMap, waitToComplete, waitingQ,
                   unconsumed, received, consumed, se, lq>>

-----------------------------------------------------------------------------
StoreTypeOK ==
    /\ started \in BOOLEAN
    /\ prcStatus \in ProcessStatuses
    /\ pending \subseteq StateExecId
    /\ seqMap \in [StateIds -> 0..MaxStateIdSequence]
    /\ waitToComplete \in BOOLEAN
    /\ waitingQ \in [Queues -> Seq(StateExecId)]
    /\ unconsumed \in [Queues -> Seq(MsgIds)]
    /\ received \subseteq MsgIds
    /\ consumed \subseteq StateExecId \X MsgIds
    /\ DOMAIN se \subseteq StateExecId
    /\ \A id \in DOMAIN se :
          se[id] \in [wu : StateStatuses, ex : StateStatuses, ver : Nat \ {0}]
    /\ imm \subseteq Task
    /\ timers \subseteq Task
    /\ lq \subseteq MsgIds
    /\ taskSeq \in Nat
=============================================================================

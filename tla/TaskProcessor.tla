---------------------------- MODULE TaskProcessor ----------------------------
(***************************************************************************)
(* The immediate-task pipeline of the async service composed with the     *)
(* process store: the poller reads immediate tasks of the shard in        *)
(* task_sequence order into the bounded taskToProcessChan, a pool of      *)
(* worker goroutines (immediateTaskConcurrentProcessor) takes them,       *)
(* prepares the state execution, calls the worker's WaitUntil or Execute  *)
(* API and commits the answer through the store.  A task that failed     *)
(* with an error is put back on the same channel; a task that succeeded   *)
(* is committed and deleted.  The server may crash and restart: the       *)
(* channel and the goroutines are lost, the tables are not, and the       *)
(* poller reads the shard again from its first task.                      *)
(***************************************************************************)
EXTENDS ProcessStore

CONSTANTS
    Workers,             \* the ProcessorConcurrency worker goroutines
    ProcessorBufferSize, \* capacity of taskToProcessChan
    MaximumAttempts,     \* RetryPolicy.MaximumAttempts of the state
    WaitUntilCommands,   \* the CommandRequests a worker's WaitUntil may return
    MaxCrashes           \* bound: server restarts

ASSUME ProcessorBufferSize \in Nat \ {0}
ASSUME MaximumAttempts \in Nat \ {0}
ASSUME WaitUntilCommands \subseteq CommandRequests

VARIABLES
    chan,    \* taskToProcessChan
    wpc,     \* per worker goroutine: "idle", "prepared" or "done"
    wtask,   \* the task a worker goroutine holds
    wprep,   \* the PrepareStateExecution snapshot it read
    werr,    \* processImmediateTask returned an error
    cursor,  \* the poller's next task_sequence to read
    crashes, \* restarts so far
    stateConfig, \* the process's state-execution info carries a StateConfig
    panicked, \* history: a goroutine's panic took the server down
    callFailed \* the goroutine's worker call failed (transport, timeout, status)

procVars == <<chan, wpc, wtask, wprep, werr, cursor, crashes, stateConfig, panicked,
             callFailed>>
vars == <<storeVars, procVars>>

NoTask == [seq |-> 0, type |-> "None", id |-> NoStateExecId, attempts |-> 0,
           queue |-> NoState, msg |-> 0]
NoPrep == [wu |-> "Undefined", ex |-> "Undefined", ver |-> 0]

(* GetNextBackoff: no retry once MaximumAttempts attempts completed.      *)
(* MaximumAttemptsDurationSeconds is left at its default (unbounded).     *)
ShouldRetry(completedAttempts) == completedAttempts < MaximumAttempts

StartChoices == {<<>>} \cup {<<[stateId |-> s, skipWaitUntil |-> k, config |-> c]>> :
                                s \in StateIds, k \in BOOLEAN, c \in BOOLEAN}

(* The info StartProcess writes for the start state carries the request's *)
(* StartStateConfig, an optional field; CompleteExecuteExecution copies   *)
(* that info verbatim to every next state, so it is the process's.        *)
InfoHasStateConfig(start) == start # <<>> /\ start[1].config

-----------------------------------------------------------------------------
Init ==
    /\ StoreInit
    /\ chan = <<>>
    /\ wpc = [w \in Workers |-> "idle"]
    /\ wtask = [w \in Workers |-> NoTask]
    /\ wprep = [w \in Workers |-> NoPrep]
    /\ werr = [w \in Workers |-> FALSE]
    /\ cursor = 0
    /\ crashes = 0
    /\ stateConfig = FALSE
    /\ panicked = FALSE
    /\ callFailed = [w \in Workers |-> FALSE]

(* The API service's StartProcess request.                                *)
StartProcessRequest ==
    /\ \E start \in StartChoices :
          /\ StartProcess(start)
          /\ stateConfig' = InfoHasStateConfig(start)
    /\ UNCHANGED <<chan, wpc, wtask, wprep, werr, cursor, crashes, panicked, callFailed>>

(* Mutation: the poller deletes the task row as it reads it.             *)
PollImmediateTaskDeleting ==
    LET unread == {t \in imm : t.seq >= cursor}
        t      == CHOOSE t \in unread : \A u \in unread : t.seq <= u.seq
    IN  /\ unread # {}
        /\ Len(chan) < ProcessorBufferSize
        /\ chan' = Append(chan, t)
        /\ cursor' = t.seq + 1
        /\ imm' = imm \ {t}
        /\ UNCHANGED <<started, prcStatus, pending, seqMap, waitToComplete, waitingQ,
                       unconsumed, received, consumed, se, timers, lq, taskSeq,
                       wpc, wtask, wprep, werr, crashes, stateConfig, panicked, callFailed>>

(* The immediate-task poller: the task of lowest task_sequence not read   *)
(* yet goes to the channel; the send blocks while the channel is full.    *)
PollImmediateTask ==
    LET unread == {t \in imm : t.seq >= cursor}
        t      == CHOOSE t \in unread : \A u \in unread : t.seq <= u.seq
    IN  /\ unread # {}
        /\ Len(chan) < ProcessorBufferSize
        /\ chan' = Append(chan, t)
        /\ cursor' = t.seq + 1
        /\ UNCHANGED <<storeVars, wpc, wtask, wprep, werr, crashes, stateConfig, panicked, callFailed>>

(* The timer-task pipeline hands a due timer task back as an immediate    *)
(* task.                                                                   *)
FireTimerTask ==
    /\ \E tt \in timers : ProcessTimerTask(tt)
    /\ UNCHANGED procVars

(* A worker goroutine receives a task and, unless it is a local-queue     *)
(* message, reads the state execution (PrepareStateExecution).            *)
ReceiveTask(w) ==
    /\ wpc[w] = "idle"
    /\ chan # <<>>
    /\ wtask' = [wtask EXCEPT ![w] = Head(chan)]
    /\ wprep' = [wprep EXCEPT ![w] =
                    IF Head(chan).type = "NewLocalQueueMessage" THEN NoPrep
                    ELSE PrepareStateExecution(Head(chan).id)]
    /\ chan' = Tail(chan)
    /\ wpc' = [wpc EXCEPT ![w] = "prepared"]
    /\ UNCHANGED <<storeVars, werr, cursor, crashes, stateConfig, panicked, callFailed>>

Done(w, err) ==
    /\ wpc' = [wpc EXCEPT ![w] = "done"]
    /\ werr' = [werr EXCEPT ![w] = err]
    /\ callFailed' = [callFailed EXCEPT ![w] = FALSE]
    /\ UNCHANGED <<chan, wtask, wprep, cursor, crashes, stateConfig, panicked>>

Fail(w) == Done(w, TRUE) /\ UNCHANGED storeVars

(* The error processWaitUntilTask or processExecuteTask returns after a   *)
(* failed worker call.                                                     *)
FailedCall(w) ==
    /\ wpc' = [wpc EXCEPT ![w] = "done"]
    /\ werr' = [werr EXCEPT ![w] = TRUE]
    /\ callFailed' = [callFailed EXCEPT ![w] = TRUE]
    /\ UNCHANGED <<storeVars, chan, wtask, wprep, cursor, crashes, stateConfig, panicked>>

(* processLocalQueueMessageTask                                           *)
ProcessLocalQueueMessageTask(w) ==
    /\ wpc[w] = "prepared"
    /\ wtask[w].type = "NewLocalQueueMessage"
    /\ ProcessLocalQueueMessage(wtask[w])
    /\ Done(w, FALSE)

(* checkRetry reads info.StateConfig.WaitUntilApiRetryPolicy; with a nil *)
(* StateConfig the goroutine panics, and a panic nobody recovers ends the  *)
(* server: the channel and all work in flight are lost as in a restart.    *)
ServerPanics ==
    /\ panicked' = TRUE
    /\ chan' = <<>>
    /\ wpc' = [w \in Workers |-> "idle"]
    /\ wtask' = [w \in Workers |-> NoTask]
    /\ wprep' = [w \in Workers |-> NoPrep]
    /\ werr' = [w \in Workers |-> FALSE]
    /\ cursor' = 0
    /\ callFailed' = [w \in Workers |-> FALSE]
    /\ UNCHANGED <<storeVars, crashes, stateConfig>>

(* A failed worker call (transport error, timeout, non-200 status or an   *)
(* invalid decision): the attempt counts; if the policy allows a retry    *)
(* the task moves to the timer table (retryTask), otherwise the error is  *)
(* returned.  When ctxExpired, retryTask runs under the worker call's     *)
(* expired deadline and its store call fails before it reaches the row.   *)
WorkerCallFailed(w, ctxExpired) ==
    LET t == wtask[w]
        a == t.attempts + 1
    IN  IF ~stateConfig THEN ServerPanics ELSE
        \/ /\ ShouldRetry(a)
           /\ ~ctxExpired
           /\ BackoffImmediateTaskOk(t, wprep[w].ver)
           /\ BackoffImmediateTask(t, wprep[w].ver, a)
           /\ Done(w, FALSE)
        \/ /\ ShouldRetry(a)
           /\ ctxExpired \/ ~BackoffImmediateTaskOk(t, wprep[w].ver)
           /\ FailedCall(w)
        \/ /\ ~ShouldRetry(a)
           /\ FailedCall(w)

(* The worker answered WaitUntil and ProcessWaitUntilExecution commits.  *)
WaitUntilAnswered(w) ==
    \E cmd \in WaitUntilCommands, publish \in PublishChoices :
        /\ ProcessWaitUntilExecutionOk(wtask[w].id, wprep[w].ver)
        /\ ProcessWaitUntilExecution(wtask[w].id, wprep[w].ver, cmd, publish)
        /\ Done(w, FALSE)

(* processWaitUntilTask                                                   *)
ProcessWaitUntilTask(w) ==
    /\ wpc[w] = "prepared"
    /\ wtask[w].type # "NewLocalQueueMessage"
    /\ wprep[w].wu = "Running"
    /\ \/ WorkerCallFailed(w, FALSE)
       \/ WaitUntilAnswered(w)
       \/ /\ ~ProcessWaitUntilExecutionOk(wtask[w].id, wprep[w].ver)
          /\ Fail(w)

(* The worker answered Execute and CompleteExecuteExecution commits.     *)
ExecuteAnswered(w) ==
    \E decision \in Decisions, publish \in PublishChoices :
        /\ CompleteExecuteExecutionOk(wtask[w].id, wprep[w].ver)
        /\ CompleteExecuteExecution(wtask[w].id, wprep[w].ver, decision, publish)
        /\ Done(w, FALSE)

(* processExecuteTask rebinds ctx to the worker call's context with its  *)
(* timeout, and passes that ctx on to retryTask and to                    *)
(* CompleteExecuteExecution.  When the call times out, the backoff runs   *)
(* under the expired deadline; when the answer arrives as the deadline    *)
(* passes, the commit does.  Either store call fails and the error puts   *)
(* the task back on the channel.                                           *)
ExecuteCallTimedOut(w) ==
    \/ WorkerCallFailed(w, TRUE)
    \/ Fail(w)

(* processExecuteTask                                                     *)
ProcessExecuteTask(w) ==
    /\ wpc[w] = "prepared"
    /\ wtask[w].type # "NewLocalQueueMessage"
    /\ wprep[w].wu # "Running"
    /\ wprep[w].ex = "Running"
    /\ \/ WorkerCallFailed(w, FALSE)
       \/ ExecuteCallTimedOut(w)
       \/ ExecuteAnswered(w)
       \/ /\ ~CompleteExecuteExecutionOk(wtask[w].id, wprep[w].ver)
          /\ Fail(w)

(* processImmediateTask when neither phase is Running: a no-op.           *)
SkipStaleTask(w) ==
    /\ wpc[w] = "prepared"
    /\ wtask[w].type # "NewLocalQueueMessage"
    /\ wprep[w].wu # "Running"
    /\ wprep[w].ex # "Running"
    /\ Done(w, FALSE)
    /\ UNCHANGED storeVars

(* Mutation: the commit deletes every task of the state execution.      *)
CommitTaskByState(w) ==
    /\ wpc[w] = "done"
    /\ ~werr[w]
    /\ imm' = {t \in imm : t.id # wtask[w].id}
    /\ wpc' = [wpc EXCEPT ![w] = "idle"]
    /\ UNCHANGED <<started, prcStatus, pending, seqMap, waitToComplete, waitingQ,
                   unconsumed, received, consumed, se, timers, lq, taskSeq,
                   chan, wtask, wprep, werr, cursor, crashes, stateConfig, panicked, callFailed>>

(* No error: the task goes to the shard's commit channel and the poller   *)
(* deletes its row.                                                        *)
CommitTask(w) ==
    /\ wpc[w] = "done"
    /\ ~werr[w]
    /\ imm' = {t \in imm : t.seq # wtask[w].seq}
    /\ wpc' = [wpc EXCEPT ![w] = "idle"]
    /\ UNCHANGED <<started, prcStatus, pending, seqMap, waitToComplete, waitingQ,
                   unconsumed, received, consumed, se, timers, lq, taskSeq,
                   chan, wtask, wprep, werr, cursor, crashes, stateConfig, panicked, callFailed>>

(* Mutation: the failed task is put back whatever the channel holds.     *)
RequeueTaskUnbounded(w) ==
    /\ wpc[w] = "done"
    /\ werr[w]
    /\ chan' = Append(chan, wtask[w])
    /\ wpc' = [wpc EXCEPT ![w] = "idle"]
    /\ UNCHANGED <<storeVars, wtask, wprep, werr, cursor, crashes, stateConfig, panicked, callFailed>>

(* An error: the goroutine puts the task back on taskToProcessChan, the   *)
(* channel it consumes from; the send blocks while the channel is full.   *)
RequeueTask(w) ==
    /\ wpc[w] = "done"
    /\ werr[w]
    /\ Len(chan) < ProcessorBufferSize
    /\ chan' = Append(chan, wtask[w])
    /\ wpc' = [wpc EXCEPT ![w] = "idle"]
    /\ UNCHANGED <<storeVars, wtask, wprep, werr, cursor, crashes, stateConfig, panicked, callFailed>>

(* The server crashes and restarts: the channel and every goroutine's     *)
(* work in flight are lost, the tables stay, the poller starts over.      *)
Restart ==
    /\ crashes < MaxCrashes
    /\ crashes' = crashes + 1
    /\ chan' = <<>>
    /\ wpc' = [w \in Workers |-> "idle"]
    /\ wtask' = [w \in Workers |-> NoTask]
    /\ wprep' = [w \in Workers |-> NoPrep]
    /\ werr' = [w \in Workers |-> FALSE]
    /\ cursor' = 0
    /\ callFailed' = [w \in Workers |-> FALSE]
    /\ UNCHANGED <<storeVars, stateConfig, panicked>>

Next ==
    \/ StartProcessRequest
    \/ PollImmediateTask
    \/ FireTimerTask
    \/ \E w \in Workers :
          \/ ReceiveTask(w)
          \/ ProcessLocalQueueMessageTask(w)
          \/ ProcessWaitUntilTask(w)
          \/ ProcessExecuteTask(w)
          \/ SkipStaleTask(w)
          \/ CommitTask(w)
          \/ RequeueTask(w)
    \/ Restart

Spec == Init /\ [][Next]_vars

(* The poller loop, the timer pipeline and each worker goroutine keep      *)
(* running while they have something to do: weak fairness on each.  The    *)
(* worker's answer stays a free choice, so a worker may fail for ever.     *)
Fairness ==
    /\ WF_vars(PollImmediateTask)
    /\ WF_vars(FireTimerTask)
    /\ \A w \in Workers :
          /\ WF_vars(ReceiveTask(w))
          /\ WF_vars(ProcessLocalQueueMessageTask(w))
          /\ WF_vars(ProcessWaitUntilTask(w))
          /\ WF_vars(ProcessExecuteTask(w))
          /\ WF_vars(SkipStaleTask(w))
          /\ WF_vars(CommitTask(w))
          /\ WF_vars(RequeueTask(w))

FairSpec == Spec /\ Fairness

-----------------------------------------------------------------------------
TypeOK ==
    /\ StoreTypeOK
    /\ chan \in Seq(Task)
    /\ Len(chan) <= ProcessorBufferSize
    /\ wpc \in [Workers -> {"idle", "prepared", "done"}]
    /\ wtask \in [Workers -> Task \cup {NoTask}]
    /\ werr \in [Workers -> BOOLEAN]
    /\ cursor \in Nat
    /\ crashes \in 0..MaxCrashes
    /\ stateConfig \in BOOLEAN
    /\ panicked \in BOOLEAN
    /\ callFailed \in [Workers -> BOOLEAN]

-----------------------------------------------------------------------------
(* State executions with a phase that still has to run or wait.           *)
ActiveStates ==
    {id \in DOMAIN se : se[id].wu \in {"Running", "Waiting"} \/ se[id].ex = "Running"}

(* Something in the tables will hand the state execution to a worker      *)
(* again: an immediate or timer task for it, or, while it waits, its     *)
(* place in a queue of the waiting-queue map that holds no unconsumed    *)
(* message; a message already there when the state joined the queue must *)
(* have been matched to it in the same transaction, since no later       *)
(* transaction is bound to look at that queue again.                     *)
HasWakeUp(id) ==
    \/ \E t \in imm \cup timers : t.id = id
    \/ /\ se[id].wu = "Waiting"
       /\ \E q \in Queues : id \in Range(waitingQ[q]) /\ unconsumed[q] = <<>>

(* A process execution that is no longer Running has nothing pending: the *)
(* force decisions clear the PendingExecutionMap and a graceful complete   *)
(* only closes once it is empty (doCompleteExecuteExecutionTx).            *)
TerminalHasNoPending ==
    prcStatus # "Running" => pending = {}

(* While the process runs, the PendingExecutionMap holds exactly the      *)
(* state executions whose Execute phase has not completed: every          *)
(* StartNewStateExecution has a row and every CompleteNewStateExecution    *)
(* is the commit of that row's Execute, whatever the interleaving of the  *)
(* workers, retries and restarts.                                          *)
PendingTracksLiveStates ==
    started /\ prcStatus = "Running" =>
        pending = {id \in DOMAIN se : se[id].ex # "Completed"}

(* While the process runs, no state execution is stranded: each active   *)
(* one has a task in the immediate or timer table or waits in a queue of *)
(* the waiting-queue map.  A commit, backoff or local-queue transaction   *)
(* that deletes or moves a task must insert the next one in the same      *)
(* transaction, and the processor deletes a task only after its commit.   *)
NoStrandedStateExecution ==
    prcStatus = "Running" => \A id \in ActiveStates : HasWakeUp(id)

(* Closing a process execution ends all of its state executions: the      *)
(* state-execution status machine sends every running or waiting phase to *)
(* Aborted on a force complete or force fail.                              *)
ClosedProcessLeavesNoActiveStateExecution ==
    prcStatus # "Running" => ActiveStates = {}

(* The worker goroutines keep draining taskToProcessChan: it never        *)
(* happens that every goroutine is blocked putting a failed task back on  *)
(* the full channel it is the only consumer of.                            *)
ProcessorNotBlocked ==
    ~ /\ Len(chan) = ProcessorBufferSize
      /\ \A w \in Workers : wpc[w] = "done" /\ werr[w]

(* A failed worker call ends in checkRetry's decision, a backoff through  *)
(* the timer table or an error that puts the task back on the channel;    *)
(* it never takes the server down, whatever StartStateConfig the process  *)
(* was started with (StartStateConfig is optional in the start request). *)
WorkerFailureHandled == ~panicked

(* A worker call that failed while the retry policy allows another       *)
(* attempt is backed off through the timer table (retryTask), a call that *)
(* timed out included: a canceled context is a worker failure that        *)
(* re-enters the backoff path.  Only a state row changed since the        *)
(* prepare, which BackoffImmediateTask's version check rejects, may turn  *)
(* it into an error that puts the task straight back on the channel.      *)
WorkerFailureBacksOff ==
    \A w \in Workers :
        wpc[w] = "done" /\ werr[w] /\ callFailed[w] /\ ShouldRetry(wtask[w].attempts + 1)
            => ~BackoffImmediateTaskOk(wtask[w], wprep[w].ver)

(* Every state execution settles: a phase that runs is eventually        *)
(* completed, skipped, aborted or failed.  The retry policy promises it   *)
(* for a worker that keeps failing: after MaximumAttempts attempts the     *)
(* state execution is failed (the TODO in processWaitUntilTask and         *)
(* processExecuteTask returns the error instead).                          *)
StateExecutionsSettle ==
    \A id \in StateExecId : [](id \in ActiveStates => <>(id \notin ActiveStates))

(* The store's transactions implement the state-execution status machine *)
(* (AsyncStateMachine): every phase moves only along its legal            *)
(* progressions and every change raises the row's version, even when a    *)
(* stale worker answer, a backoff and an abort race on the same row.      *)
(* A local-queue message is taken by at most one state execution, and a   *)
(* message a state execution took is no longer unconsumed in the waiting- *)
(* queue map: neither a NewLocalQueueMessage task redelivered after a      *)
(* restart (processLocalQueueMessageTask) nor the consume step of          *)
(* updateWaitUntilExecution may hand the same message out twice.          *)
MessageConsumedOnce ==
    \A m \in MsgIds :
        LET takers == {p \in consumed : p[2] = m}
        IN  /\ Cardinality(takers) <= 1
            /\ takers # {} => \A q \in Queues : m \notin Range(unconsumed[q])

ASM == INSTANCE AsyncStateMachine WITH Ids <- StateExecId, status <- prcStatus, rows <- se

ImplementsAsyncStateMachine == ASM!Spec
=============================================================================

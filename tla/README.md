# TLA+ models of xdb

xdb is a durable process-execution engine. A *process execution* is a graph of
*async state executions*. Each state has a WaitUntil phase and an Execute
phase. A worker service outside xdb implements both phases behind HTTP.

xdb keeps everything in SQL tables:
- the process row: status, PendingExecutionMap, SequenceMap, waiting-queue map, wait_to_complete;
- one row per state execution: wait_until_status, execute_status and an optimistic `version`;
- immediate tasks, timer tasks and local-queue messages.

xdb moves work forward with tasks that are inserted in the same transaction as
the state change that schedules them.

## The system's parts and how they interact

| Part | Source | State | Operations |
|---|---|---|---|
| Process store | `persistence/sql/complete_execute.go`, `persistence/sql/wait_until.go`, `unnamed/part_002`, `unnamed/part_003` | process row, state rows, task and local-queue tables | StartProcess, PrepareStateExecution, ProcessWaitUntilExecution (CompleteWaitUntilExecution / updateWaitUntilExecution), CompleteExecuteExecution, BackoffImmediateTask, ProcessLocalQueueMessage, publishToLocalQueue |
| Postgres layer | `extensions/postgres/*.go`, `unnamed/part_004`, `unnamed/part_005` | the SQL rows | version-gated UpdateAsyncStateExecution, BatchUpdateAsyncStateExecutionsToAbortRunning, inserts, worker-task select and range delete |
| Immediate task processor | `engine/api_engine_sql_impl.go` 192-633 | `taskToProcessChan` (bounded), ProcessorConcurrency goroutines | receive, prepare, call the worker, commit; retry via the timer table; requeue on error; commit channel |
| Immediate task poller | `unnamed/part_005` (queries), `unnamed/part_004` (commit, rollback), `extensions/postgres/transactional.go` (task insert) | read cursor, page, in-flight and committed sets | read a page from the cursor, forward, collect commits, range-delete up to the low-water mark |
| Timer pipeline | `unnamed/part_001` (createGetTimerTaskResponse), `unnamed/part_005` (BatchSelectTimerTasks), `extensions/postgres/transactional.go` (timer insert and delete), `engine/timer_task_priority_queue_test.go` | timer table, priority queue, clock | back off into the timer table, read due rows, keep them in (FireTime, Seq) order, fire a due timer task as an immediate task |
| Backoff | `engine/backoff.go` | none (pure) | GetNextBackoff, setDefaultRetryPolicyValue |
| API / HTTP | `api_engine_sql_impl.go` 1-191, `unnamed/part_006`, `unnamed/part_007` | none | StartProcess, DescribeLatestProcess |
| Notifier, visibility, bootstrap | `engine` notify calls, `persistence/visibility`, `cmd/server` | none | latency hints, a stub, wiring |

How they interact:
1. The API inserts the process and its start state's task.
2. The poller feeds the tasks to the processor's channel.
3. A goroutine prepares the task, calls the worker, and commits the answer in one store transaction. That transaction writes the next rows and tasks.
4. The poller deletes the task afterwards.
5. A failed call goes to the timer table through BackoffImmediateTask. The timer pipeline hands it back later.
6. Any other error puts the task back on the channel.

Concurrent transactions on one process serialise as follows:
- The process row is locked by `SELECT ... FOR UPDATE`.
- Every update of a state row is conditional on the `version` that was prepared before the worker call.

## Modules

- **ProcessStore.tla**: the store's transactions as operators over the tables.
  - One process execution, on the default shard.
  - A transaction is one step. A rolled-back transaction (a failed conditional update, a data-corruption error) changes nothing. The `...Ok` predicates say when a transaction commits.
  - `se` maps (StateId, StateIdSequence) to `[wu, ex, ver]`.
  - `pending`, `seqMap`, `waitToComplete`, `waitingQ` and `unconsumed` are the process row's maps.
  - `imm` and `timers` are task sets with a `seq` (task_sequence). `lq` holds the published message ids.
  - Worker payloads, encodings and failure details are left out.
- **TaskProcessor.tla**: extends ProcessStore with the poller, `taskToProcessChan`, the worker goroutines (`wpc`, `wtask`, `wprep`, `werr`) and server restarts. One action per handler:
  - ReceiveTask (receive and PrepareStateExecution);
  - ProcessWaitUntilTask, ProcessExecuteTask, ProcessLocalQueueMessageTask and SkipStaleTask (the no-op branch);
  - CommitTask and RequeueTask (the two branches after processImmediateTask);
  - PollImmediateTask, FireTimerTask, StartProcessRequest and Restart.

  `stateConfig` records whether the state-execution info carries a `StateConfig`. The start request may omit `StartStateConfig`, and the older engine StartProcess never writes one; next states copy the info. When a worker call fails and `stateConfig` is FALSE, checkRetry dereferences nil and ServerPanics: the goroutine has no recover, the server exits and loses its channel and goroutines. `panicked` is the history variable for that.

  A failed worker call goes through `WorkerCallFailed(w, ctxExpired)`: checkRetry, then retryTask's BackoffImmediateTask, which commits only with a live context and a matching version. Otherwise the goroutine returns the error (`FailedCall`, recorded in `callFailed`) and the task goes back on the channel. processWaitUntilTask calls the worker under a separate `workerApiCtx`, so its backoff runs with a live context. processExecuteTask rebinds `ctx` to the call's timeout context (line 441), so after an Execute timeout (`ExecuteCallTimedOut`) the backoff, or the CompleteExecuteExecution that follows, runs under the expired deadline.

  The worker's answer is a free choice over a small set:
  - a failure;
  - a WaitUntil command (empty, timer, local queue) with or without a published message;
  - a decision (next states, or a close type: graceful, force complete, force fail, dead end).
- **AsyncStateMachine.tla**: the abstract specification of what the store promises about state rows:
  - the legal phase progressions;
  - Execute runs only after WaitUntil completed or was skipped;
  - every change raises the version;
  - the process leaves Running once, for a terminal status.

  TaskProcessor instantiates it with `rows <- se, status <- prcStatus`. It is checked as the PROPERTY `ImplementsAsyncStateMachine`.
- **Backoff.tla**: GetNextBackoff as a pure operator, and the retry loop of one task whose worker keeps failing.
  - When checkRetry says no retry, the error goes back to the goroutine, which requeues the task at once (lines 388 and 297), so the loop never stops. The requeued task is a copy whose `WorkerTaskBackoffInfo` is a pointer: a task that never went through the timer table starts counting from 0 again, while one loaded from a timer task keeps counting.
  - The `int32(float64 ...)` conversion is modelled by what it does. In range, it gives the exact value. Out of range, it gives any of the results the builds produce: MinInt32 on amd64, saturation on arm64.
  - Integers never exceed TLC's range, because `Scaled` stops as soon as the product leaves int32.
- **ImmediateTaskPoller.tla**: the immediate-task pipeline of one shard, seen from the task table.
  - Writers (processes on DefaultShardId) insert a task row in an open transaction; `task_sequence` is taken from `nextSeq` at the INSERT and the row joins `table` at COMMIT (or is lost at ROLLBACK, leaving a gap).
  - The poller (spec section 4.E; the loop is not in the repository) reads `BatchSelectImmediateTasks` pages from `cursor`, forwards each task into `chan`, collects commits from `commitChan`, and range-deletes `[min committed, max of the low-water mark]` with `BatchDeleteImmediateTask`.
  - Goroutines receive, process (success, or an error that requeues the task into the channel), and send the commit, as in `immediateTaskConcurrentProcessor.Start`.
  - A restart loses open transactions, channels and the poller's memory; the cursor goes back to 0.
  - `inserted` is a history variable: every row that ever committed.
- **LatestProcess.tla**: process executions and the latest-process pointer across namespaces.
  - `InsertCurrentProcessExecution`, `InsertProcessExecution`, `CommitStart` and `RollbackStart` are the steps of `APIEngineSQLImpl.StartProcess`: its transaction, the pointer insert, the process execution row, and the deferred commit or rollback. The state row and task it also writes are left to ProcessStore.
  - The pointer's unique key (namespace, process_id) makes a second insert a duplicate entry (`alreadyStarted`, no step) and makes it wait while another transaction holds an uncommitted row.
  - `DescribeLatestProcess` reads `SelectCurrentProcessExecution`: the pointer joined to every execution row with the same process_id. GetContext keeps the first row, and the query gives no order, so any joined row may be the answer.
  - `described` is a history variable holding the last answer.
- **TimerTaskQueue.tla**: EXTENDS ImmediateTaskPoller and adds the shard's timer pipeline.
  - `BackoffImmediateTask(g)` is `retryTask`: instead of the goroutine's success, one step deletes the immediate task row (`DeleteImmediateTask`), inserts a timer row at `clock + d` with the next timer sequence (`InsertTimerTask`), and wakes the timer poller (`NotifyNewTimerTasks`). `d` ranges over `BackoffIntervals`.
  - `BatchSelectTimerTasks` is the query: rows with fire <= now, sorted by `FiresBefore` (fire, then sequence) and cut at the LIMIT. `createGetTimerTaskResponse` builds the response as the code does: min/max fire from the first and last row, min/max sequence from a fold over the rows, and `fullPage` when the page has exactly pageSize rows.
  - The timer poller loop follows spec section 4.E. `LoadTimerTasks` fills the empty heap from one page and sleeps unless the page was full. `FireTimerTask` takes the heap's least task once it is due; in one transaction it inserts an immediate task and deletes the timer row (`DeleteTimerTask`), and `fired` records it. That transaction takes the next task_sequence and commits at once, so it can commit past a process's transaction that is still open with a smaller sequence: immediate rows become visible out of task_sequence order. `Tick` advances `clock` and ends the sleep (the poll interval). `RestartAll` also loses the heap.
  - `WriterInsert` reserves `MaxTimers` task sequences for firings, so the immediate side's bound `MaxTasks` covers them.
  - `timerInserted` is a history variable holding every timer row ever inserted.
- **MCTaskProcessor.tla**, **MCTimerTaskQueue.tla**, **MCLatestProcess.tla**, **MCBackoff.tla**: the model values and small sets used by the `.cfg` files.

Some code is not in the repository, so the model follows spec.md for it. These definitions are marked `spec_modelled` in PROJECT.json:
- `doProcessLocalQueueMessageTx`;
- the store's `StartProcess` and `BackoffImmediateTask`;
- `StartNewStateExecution`;
- the timer processor and the timer poller loop (loading the heap, firing, sleeping);
- the immediate-task poller loop (forwarding, the commit channel, the low-water mark and the delete).

`APIEngineSQLImpl.StartProcess` and `DescribeLatestProcess` in `api_engine_sql_impl.go` are an older copy of the store's operations. They call `InsertCurrentProcessExecution` and `SelectCurrentProcessExecution`, which the current SQL interface (`extensions/sql_db_interfaces.go`) has renamed to the Latest variants. The HTTP handler calls the process store. LatestProcess models the older copy because it is the only describe code in the repository, and its join is the same as `selectLatestExecutionQuery`'s.

## Runs

| Run | Config | Checks | Shows |
|---|---|---|---|
| store_fanout | MCTaskProcessorFanOut.cfg | TypeOK, TerminalHasNoPending, PendingTracksLiveStates, NoStrandedStateExecution, MessageConsumedOnce, ImplementsAsyncStateMachine | siblings, racing close decisions, local-queue messages before or after the command, and a restart that loses the channel and redelivers tasks keep every invariant and the status machine. No message is handed to two states, and a state that waits on a queue never sits beside an unconsumed message on that queue |
| store_retry_races | MCTaskProcessorRetry.cfg | NoStrandedStateExecution, PendingTracksLiveStates, ImplementsAsyncStateMachine | backoffs racing aborts and stale answers are stopped by the version gates and the pending-map check, and the pending map stays exact |
| task_queues | MCTimerTaskQueue.cfg | TimerTypeOK, NoInFlightTaskDeleted, NoDueTimerLeftAsleep, ProcessedTaskEventuallyDeleted, TimerEventuallyFires | the immediate and timer pipelines together, with a timer firing that commits past an open process transaction, so rows become visible out of task_sequence order. The range delete never removes a task still in flight, and every processed task is eventually deleted. The timer poller never sleeps while a due row is outside its heap. Every timer row is eventually fired, through requeues, backoffs, rollback gaps, page limits, rows sharing a fire second, and a restart that loses the channel and the heap (106 thousand states, about 2.5 minutes) |
| backoff_policy | MCBackoff.cfg | BackoffWithinPolicy | for 108 policies, the backoff is non-decreasing and stays within [0, max], also after an exhausted policy starts requeueing the task |
| force_close_leaves_waiting | MCTaskProcessorForceClose.cfg | ClosedProcessLeavesNoActiveStateExecution | **violated**: a Waiting sibling survives a force close |
| timer_command_stranded | MCTaskProcessorTimer.cfg | NoStrandedStateExecution | **violated**: a timer command gets no timer task |
| retry_exhaustion_loops | MCTaskProcessorExhausted.cfg | StateExecutionsSettle | **violated**: an exhausted retry is requeued for ever instead of failing the state |
| processor_blocked | MCTaskProcessorBlocked.cfg | ProcessorNotBlocked | **violated**: every goroutine can block on requeueing into the full channel |
| describe_mixes_namespaces | MCLatestProcess.cfg | DescribeReturnsLatestExecution | **violated** in 8 states: namespaces n1 and n2 both start pid1, and describing n1 returns n1's execution id with n2's process type, worker URL and start time |
| execute_timeout_no_backoff | MCTaskProcessorExecuteTimeout.cfg | WorkerFailureBacksOff | **violated** in 5 states: the start state's Execute call times out with an attempt left; retryTask's BackoffImmediateTask runs under the expired call context and fails, and the task goes straight back on the channel with no backoff |
| backoff_overflow | MCBackoffOverflow.cfg | BackoffWithinPolicy | **violated**: attempt 31 of the default policy yields a negative interval on amd64 |
| engine_nil_state_config | MCTaskProcessorNilStateConfig.cfg | WorkerFailureHandled | **violated**: a process started without StartStateConfig panics the server on its first failed worker call (checkRetry reads a nil StateConfig) |

Each property of a passing run has a mutant in PROJECT.json: a variant of one mapped definition, written in the module just before it, that the property catches. Examples:
- the abort without its version bump;
- the wait-until update without its version gate;
- a backoff without a timer task;
- a commit that deletes every task of the state;
- a poller that deletes the task when it reads it;
- a FullPage that needs more rows than the page holds;
- a timer delete whose WHERE clause leaves out task_sequence;
- a consumer that keeps no record of the dedup ids it took in.

## Bounds and why they are enough

**State ids and processor.** Two state ids, A and B, start at A. The decisions are:
- go to A;
- go to B (skipping WaitUntil);
- fan out to both;
- each close type.

With `MaxStateIdSequence = 2`, the fan-out creates two concurrently running siblings. That is the smallest setting in which:
- a close decision meets a sibling in flight;
- a stale prepare races an abort;
- graceful completion waits for a sibling.

Two worker goroutines with a one-slot channel are the smallest pool in which:
- two tasks are processed at once;
- the channel can be full while a goroutine requeues.

**Start requests.** The fan-out run also starts processes without a StartStateConfig, so its passing properties cover the server panic and restart. The nil-StateConfig run has one worker, a start without config and no restarts: five steps reach the panic.

**Namespaces.** LatestProcess has two namespaces, one processId and three execution ids. Two namespaces sharing a processId is the smallest case where the join meets a row of another namespace. The third id lets a start that rolls back be followed by a new start.

**Local queue.** One queue and one message make a message arrive before or after the command that waits for it. The fan-out run has `MaxStateIdSequence = 2` and one restart, so two executions of A can wait on the same queue and a NewLocalQueueMessage task can be delivered twice.

**Poller.** One writer with four sequences, a page of two, a one-slot task channel and two goroutines: a page holds tasks on both sides of a commit, a second page starts past the first, a requeued task is in flight below the low-water mark, and a rollback leaves a sequence gap. The commit channel has room for every task (`CommitBufferSize = MaxTasks`), because its capacity is set by the poller, which is not in the repository. A timer firing can commit past the writer's open transaction, so rows become visible out of task_sequence order (see below).

**Timers.** The composed run has one writer, two goroutines and four task sequences; two of them are kept for timer firings. It has `MaxTimers = 2`, a timer page of one row, backoff intervals 1 and 2 seconds, and a clock that runs to 2. With these bounds:
- two timer rows can be due at once, so a page of one is full with a due row left behind;
- two rows can share a fire second, so a delete keyed on the fire time alone removes both;
- one row can fall due while another is in the heap;
- a fired task can fail and back off again;
- the restart can lose a loaded heap.

**Retries and restarts.** `MaximumAttempts = 2` gives one retry through the timer table and one exhaustion. One restart loses the channel and all work in flight.

**Why the processor runs are split.** Retries multiply the state space. So:
- the fan-out run has no retry, and one restart;
- the retry run has only empty WaitUntil commands and no restart (a restart on top of it gives 15 million states and nine minutes).

Together they fire every action and every disjunct. The run times are about one minute each, with 1.3 and 1.7 million states. The Execute-timeout run has one worker, no retries of its own and no restarts: four steps reach the timed-out call.

**Symmetry.** The worker goroutines are symmetric, because the code never tells them apart. No liveness run uses symmetry.

**Backoff.** The policies combine set and nil fields:
- initial interval 1, 2 or nil;
- coefficient 1, 2 or nil;
- maximum 5 or nil;
- MaximumAttempts 3 or 6;
- duration 0, 10 or nil.

The overflow run follows the default policy to attempt 32.

## Fairness

`Fairness` in TaskProcessor is weak fairness on:
- the poller;
- the timer pipeline;
- each goroutine's actions.

These are loops that run while they have work. The worker's answer stays a free choice, so a worker may fail for ever. That is the behaviour spec scenario 3 describes.

Backoff has weak fairness on its two steps: the timer fires, and the task is taken again.

Restarts and new process starts carry no fairness.

In ImmediateTaskPoller every open transaction eventually commits or rolls back (a Go `defer` ends it), and the poller and goroutine actions are weakly fair for the same reason as above. A task's processing may fail at most `MaxProcessErrors` times; after that it succeeds, so the liveness properties say what the pipeline does when the worker recovers. Inserts and restarts carry no fairness.

TimerTaskQueue keeps those fairness conditions, with one condition per goroutine on `GoroutineStep`. A goroutine's steps are enabled in disjoint states (no task, a task not yet processed, a processed task, a failed task), so fairness on the disjunction is fairness on each step. The backoff is a disjunct of that step: a goroutine holding a task eventually finishes it one way or the other. `LoadTimerTasks`, `FireTimerTask` and `Tick` are also weakly fair. The timer poller loops while it has work, and the wall clock advances.

## Deadlock checking

The processor runs say `CHECK_DEADLOCK FALSE`. A process that has finished, or whose states wait on a local queue with no message left, leaves the system idle. That is a legal end.

Blocking of the processor itself is checked by the invariant `ProcessorNotBlocked`.

The poller and timer runs also say `CHECK_DEADLOCK FALSE`: once the bounded sequences are used and every task is deleted, nothing is left to do. A pipeline that stops with work left is caught by `ProcessedTaskEventuallyDeleted` and `TimerEventuallyFires`.

## What is not modelled, and why

- **Several processes and shards.** ProcessStore has one process: rows of different processes never share a transaction. ImmediateTaskPoller has several writers on the one shard every process uses. Shard movement (`currentShards`) only ever adds shards in this code, so its skip branch cannot be taken.
- **`extensions/postgres/non_transactional.go`.** It repeats part_005's `dbSession` methods (an older copy: the two cannot build together), and its `BatchDeleteWorkerTask` runs the select query. The model follows part_005, except for `SelectCurrentProcessExecution`, whose join LatestProcess models.
- **The commit channel filling up.** Its capacity is set by the poller, which is not in the repository. The modelled poller forwards a whole page before it reads commits, so with a small buffer the goroutines and the poller could wait on each other once `CommitBufferSize + |Goroutines| + ProcessorBufferSize + 1` tasks are in flight. The runs give the channel room for every task.
- **Time in TaskProcessor.** There, any timer task may fire; fire times and the heap order are in TimerTaskQueue.
- **`SelectTimerTasksForTimestamps`.** This is the read that a notification with fire timestamps triggers. Its consumer is not in the repository, and the poll-interval read finds the same rows, so TimerTaskQueue models a notification as a wake-up only. The response's min/max fields are computed but nothing in the repository reads them.
- **Several namespaces in the store.** ProcessStore and TaskProcessor have one process in one namespace. Namespaces matter only to the pointer and describe, which LatestProcess models.
- **The older engine StartProcess's missing PendingExecutionMap.** `APIEngineSQLImpl.StartProcess` writes a StateIdSequence with no PendingExecutionMap. Its first CompleteExecuteExecution would therefore fail. This code calls `InsertCurrentProcessExecution`, which the current interface no longer declares, so it cannot be reached. The store's StartProcess, which the handler calls, is what the processor runs check.
- **Task rows committed out of task_sequence order.** `InsertImmediateTask` takes task_sequence at INSERT, and the row becomes visible at COMMIT, so a timer firing or a second process can make rows 2 and 3 visible in the order 3, 2. The task_queues run contains this, and its properties hold through it. What it does to row 2 is not checked. The spec's poller (section 4.E) has already moved its cursor past row 2, so it reads row 2 again only after a restart, and a later range delete can remove it unprocessed. Spec section 5 says tasks are consumed in TaskSequence order. That poller is not in the repository, so no run claims the row is processed; the hazard is listed with this note.
- **The spec's scenario 3 timing.** GetNextBackoff raises the coefficient to the already incremented attempt count, so the first retry waits Initial*Coefficient; the Backoff module models the code's schedule and checks its bounds, not the spec's example times.
- **The notifier, the visibility stub, bootstrap, encodings and HTTP details.** They are read-only, latency-only or I/O.
- **AnyOf and AllOf with several commands.** Each state waits on one command, so the two agree.
- **Worker-supplied dedup ids.** Every published message is fresh.

## Plan

Built in this order, most important behaviour first:
1. ProcessStore + TaskProcessor: the store's transactions under concurrent workers, retries and restarts. **Done.**
2. AsyncStateMachine and the refinement. **Done.**
3. Backoff. **Done.**

Next:
4. The poller's commit loop with range deletes, the low-water mark, and a liveness run with a bounded failure budget. **Done** (ImmediateTaskPoller).
5. One local-queue message wakes at most one state, with redelivery after a crash. **Done** (MessageConsumedOnce).
6. Several processes on one shard. **Partly** (the poller's writers).

Next:
7. Timer pipeline: fire times, the (FireTime, Seq) order, and createGetTimerTaskResponse's min/max/FullPage. **Done** (TimerTaskQueue).
8. A processor liveness run: every pending state settles when the worker recovers.

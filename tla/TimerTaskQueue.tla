---------------------------- MODULE TimerTaskQueue ----------------------------
(***************************************************************************)
(* The shard's timer pipeline composed with its immediate pipeline:       *)
(*   - a goroutine whose worker call failed with retries left runs        *)
(*     retryTask: BackoffImmediateTask deletes the immediate task row and *)
(*     inserts a timer task row at clock + the backoff interval, and the    *)
(*     notifier wakes the timer poller;                                   *)
(*   - the timer poller reads a page of due rows (BatchSelectTimerTasks), *)
(*     builds its response (createGetTimerTaskResponse), keeps the tasks  *)
(*     in a min-heap on (FireTimeUnixSeconds, TaskSequence), re-polls at  *)
(*     once after a full page and otherwise sleeps until the poll         *)
(*     interval or a notification;                                        *)
(*   - firing a timer task is one store transaction that inserts an       *)
(*     immediate task and deletes the timer row (DeleteTimerTask).       *)
(* A timer task is a record [fire, seq].  `clock` counts wall-clock       *)
(* seconds up to MaxTime.                                                  *)
(***************************************************************************)
EXTENDS ImmediateTaskPoller

CONSTANTS
    TimerPageSize,     \* PollPageSize of the timer task queue
    BackoffIntervals,  \* nextIntervalSecs values GetNextBackoff may return
    MaxTimers,         \* bound: timer task sequences allocated
    MaxTime            \* bound: the clock

VARIABLES
    clock,           \* wall-clock seconds
    timers,        \* visible rows of xdb_sys_timer_tasks
    timerSeq,      \* the shard's timer task_sequence generator
    heap,          \* the poller's priority queue of loaded timer tasks
    asleep,        \* the timer poller waits for the poll interval or a notification
    timerInserted, \* history: timer rows that were ever inserted
    fired          \* history: timer rows that were turned into immediate tasks

timerVars == <<clock, timers, timerSeq, heap, asleep, timerInserted, fired>>
allVars == <<vars, timerVars>>

TimerTasks == [fire: 0..MaxTime, seq: 1..MaxTimers]
NoResponse == [tasks |-> <<>>, minFire |-> 0, maxFire |-> 0,
               minSeq |-> 0, maxSeq |-> 0, fullPage |-> FALSE]

(* The heap's order: FireTimeUnixSeconds, then TaskSequence.               *)
FiresBefore(t, u) == t.fire < u.fire \/ (t.fire = u.fire /\ t.seq < u.seq)

-----------------------------------------------------------------------------
(* Store side.                                                              *)

(* InsertTimerTask: the row gets the next task_sequence of the shard.     *)
InsertTimerTask(fire) == [fire |-> fire, seq |-> timerSeq]

(* Mutation: the WHERE clause leaves out task_sequence.                    *)
DeleteTimerTaskByFire(t) == {u \in timers : u.fire # t.fire}

(* DeleteTimerTask: shard_id, fire_time_unix_seconds and task_sequence.   *)
DeleteTimerTask(t) == {u \in timers : ~(u.fire = t.fire /\ u.seq = t.seq)}

(* DeleteImmediateTask: shard_id and task_sequence.                        *)
DeleteImmediateTask(s) == table \ {s}

(* retryTask after a failed worker call with retries left: in one store   *)
(* transaction BackoffImmediateTask deletes the immediate task and        *)
(* inserts a timer task at clock + nextIntervalSecs; then NotifyNewTimerTasks *)
(* wakes the timer poller.  The goroutine then commits the task.           *)
BackoffImmediateTask(g) ==
    /\ wtask[g] # 0
    /\ wres[g] = "none"
    /\ timerSeq <= MaxTimers
    /\ \E d \in BackoffIntervals :
          /\ clock + d <= MaxTime
          /\ timers' = timers \cup {InsertTimerTask(clock + d)}
          /\ timerInserted' = timerInserted \cup {InsertTimerTask(clock + d)}
    /\ timerSeq' = timerSeq + 1
    /\ table' = DeleteImmediateTask(wtask[g])
    /\ processed' = processed \cup {wtask[g]}
    /\ wres' = [wres EXCEPT ![g] = "ok"]
    /\ asleep' = FALSE
    /\ UNCHANGED <<nextSeq, open, cursor, page, inflight, committed, chan,
                   commitChan, wtask, inserted, errors, crashes, clock, heap, fired>>

-----------------------------------------------------------------------------
(* Timer poller side.                                                       *)

(* BatchSelectTimerTasks: fire_time_unix_seconds <= max, ordered by        *)
(* fire_time_unix_seconds, task_sequence, LIMIT pageSize.                  *)
BatchSelectTimerTasks(maxFire, pageSize) ==
    LET rows == SetToSortSeq({t \in timers : t.fire <= maxFire}, FiresBefore)
    IN  SubSeq(rows, 1, IF Len(rows) < pageSize THEN Len(rows) ELSE pageSize)

(* createGetTimerTaskResponse: FullPage is a page of pageSize rows.       *)
createGetTimerTaskResponseFullPageStrict(rows, pageSize) ==
    IF rows = <<>> THEN NoResponse
    ELSE [tasks |-> rows, minFire |-> rows[1].fire, maxFire |-> Last(rows).fire,
          minSeq |-> rows[1].seq, maxSeq |-> Last(rows).seq,
          fullPage |-> Len(rows) > pageSize]

(* createGetTimerTaskResponse: the fire-time bounds are the first and the *)
(* last row's, the sequence bounds come from a scan of the rows (the loop *)
(* starts from MaxInt64 and MinInt64; on a non-empty page starting from   *)
(* the first row gives the same result), and FullPage is a page of        *)
(* exactly pageSize rows.  An empty page keeps the zero values.            *)
createGetTimerTaskResponse(rows, pageSize) ==
    IF rows = <<>>
    THEN NoResponse
    ELSE LET scan == FoldLeft(LAMBDA acc, t :
                        [min |-> IF t.seq < acc.min THEN t.seq ELSE acc.min,
                         max |-> IF t.seq > acc.max THEN t.seq ELSE acc.max],
                        [min |-> rows[1].seq, max |-> rows[1].seq], rows)
         IN  [tasks |-> rows, minFire |-> rows[1].fire, maxFire |-> Last(rows).fire,
              minSeq |-> scan.min, maxSeq |-> scan.max,
              fullPage |-> Len(rows) = pageSize]

(* The poller loads the due timer tasks into its empty heap; it sleeps   *)
(* after a page that is not full.                                          *)
LoadTimerTasks ==
    /\ heap = {}
    /\ ~asleep
    /\ LET r == createGetTimerTaskResponse(BatchSelectTimerTasks(clock, TimerPageSize), TimerPageSize)
       IN  /\ heap' = Range(r.tasks)
           /\ asleep' = ~r.fullPage
    /\ UNCHANGED <<vars, clock, timers, timerSeq, timerInserted, fired>>

(* The heap's first task fires: one store transaction inserts an          *)
(* immediate task and deletes the timer row.  It takes the next           *)
(* task_sequence and commits at once, so it may commit past a process's   *)
(* transaction that took a smaller sequence and is still open: the rows   *)
(* become visible out of task_sequence order.                              *)
FireTimerTask ==
    /\ heap # {}
    /\ nextSeq <= MaxTasks
    /\ LET t == CHOOSE t \in heap : \A u \in heap \ {t} : FiresBefore(t, u)
       IN  /\ t.fire <= clock
           /\ heap' = heap \ {t}
           /\ timers' = DeleteTimerTask(t)
           /\ fired' = fired \cup {t}
    /\ table' = table \cup {nextSeq}
    /\ inserted' = inserted \cup {nextSeq}
    /\ nextSeq' = nextSeq + 1
    /\ UNCHANGED <<open, cursor, page, inflight, committed, chan, commitChan,
                   wtask, wres, processed, errors, crashes,
                   clock, timerSeq, asleep, timerInserted>>

(* A second passes; the poll interval ends the poller's sleep.            *)
Tick ==
    /\ clock < MaxTime
    /\ clock' = clock + 1
    /\ asleep' = FALSE
    /\ UNCHANGED <<vars, timers, timerSeq, heap, timerInserted, fired>>

(* A restart also loses the heap; the rows stay in the table.             *)
RestartAll ==
    /\ Restart
    /\ heap' = {}
    /\ asleep' = FALSE
    /\ UNCHANGED <<clock, timers, timerSeq, timerInserted, fired>>

(* A process's transaction inserts an immediate task; MaxTimers task     *)
(* sequences are kept for the timer firings.                               *)
WriterInsert(w) ==
    /\ nextSeq + MaxTimers <= MaxTasks
    /\ InsertImmediateTask(w)

-----------------------------------------------------------------------------
InitAll ==
    /\ Init
    /\ clock = 0
    /\ timers = {}
    /\ timerSeq = 1
    /\ heap = {}
    /\ asleep = FALSE
    /\ timerInserted = {}
    /\ fired = {}

NextAll ==
    \/ /\ \/ \E w \in Writers :
                WriterInsert(w) \/ CommitTransaction(w) \/ RollbackTransaction(w)
          \/ PollImmediateTasks \/ ForwardTask \/ ReceiveCommit \/ DeleteCommittedTasks
          \/ \E g \in Goroutines :
                ReceiveTask(g) \/ ProcessImmediateTask(g) \/ SendCommit(g) \/ RequeueTask(g)
       /\ UNCHANGED timerVars
    \/ \E g \in Goroutines : BackoffImmediateTask(g)
    \/ LoadTimerTasks \/ FireTimerTask \/ Tick
    \/ RestartAll

(* One iteration step of a goroutine's loop.  Its steps are enabled in    *)
(* disjoint states (no task; a task not yet processed; processed; failed), *)
(* so weak fairness on the disjunction is weak fairness on each step.      *)
GoroutineStep(g) ==
    \/ /\ ReceiveTask(g) \/ ProcessImmediateTask(g) \/ SendCommit(g) \/ RequeueTask(g)
       /\ UNCHANGED timerVars
    \/ BackoffImmediateTask(g)

(* The immediate pipeline's loops as in ImmediateTaskPoller; the timer    *)
(* poller runs while it has work, and the wall clock advances.             *)
FairnessAll ==
    /\ \A w \in Writers : WF_allVars((CommitTransaction(w) \/ RollbackTransaction(w)) /\ UNCHANGED timerVars)
    /\ WF_allVars(PollImmediateTasks /\ UNCHANGED timerVars)
    /\ WF_allVars(ForwardTask /\ UNCHANGED timerVars)
    /\ WF_allVars(ReceiveCommit /\ UNCHANGED timerVars)
    /\ WF_allVars(DeleteCommittedTasks /\ UNCHANGED timerVars)
    /\ \A g \in Goroutines : WF_allVars(GoroutineStep(g))
    /\ WF_allVars(LoadTimerTasks) /\ WF_allVars(FireTimerTask) /\ WF_allVars(Tick)

SpecAll == InitAll /\ [][NextAll]_allVars /\ FairnessAll

-----------------------------------------------------------------------------
TimerTypeOK ==
    /\ TypeOK
    /\ clock \in 0..MaxTime
    /\ timers \subseteq timerInserted /\ timerInserted \subseteq TimerTasks
    /\ heap \subseteq TimerTasks
    /\ fired \subseteq timerInserted
    /\ timerSeq \in 1..MaxTimers + 1
    /\ asleep \in BOOLEAN

(* A timer poller that sleeps has every due timer task in its heap: a     *)
(* page that was not full (FullPage false) held all rows due at the load, *)
(* and a row that becomes due later comes with a tick or a notification   *)
(* that wakes the poller.  A wrong FullPage leaves due retries waiting a  *)
(* whole poll interval.                                                     *)
NoDueTimerLeftAsleep ==
    asleep => \A t \in timers : t.fire <= clock => t \in heap

(* Every timer task row that retryTask inserted is eventually fired: it    *)
(* becomes an immediate task in the transaction that deletes it, through  *)
(* page limits, rows sharing a fire second, a restart that loses the heap *)
(* and immediate tasks backed off again.  Deleting a row without firing  *)
(* it loses the retry.                                                     *)
TimerEventuallyFires ==
    \A t \in TimerTasks : t \in timers ~> t \in fired
==================================================================================

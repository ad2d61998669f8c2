---------------------------- MODULE LatestProcess ----------------------------
(***************************************************************************)
(* Process executions and the latest-process pointer across namespaces:   *)
(*   - StartProcess requests run concurrently, each in its own            *)
(*     transaction: insert the pointer row for (namespace, processId),    *)
(*     which fails on a duplicate and waits on an uncommitted one, then   *)
(*     the process execution row, then commit or roll back;               *)
(*   - DescribeLatestProcess reads, outside any transaction, the pointer  *)
(*     joined to xdb_sys_process_executions.                              *)
(* A process execution row stands for its own ProcessType, WorkerURL and  *)
(* StartTime; the state rows and tasks a start writes are left to         *)
(* ProcessStore.                                                           *)
(***************************************************************************)
EXTENDS Naturals, FiniteSets

CONSTANTS
    Namespaces,  \* namespaces of the requests
    ProcessIds,  \* user-supplied process ids
    MaxStarts    \* bound: process execution ids minted

VARIABLES
    nextId,      \* the next ProcessExecutionId uuid.MustNewUUID returns
    txs,         \* open StartProcess transactions
    pointers,    \* committed rows of the latest-process pointer table
    executions,  \* committed rows of xdb_sys_process_executions
    described    \* history: the last DescribeLatestProcess answer

vars == <<nextId, txs, pointers, executions, described>>

ExeIds == 1..MaxStarts
NotFound == [found |-> FALSE]

Answers ==
    {NotFound} \cup
    [found: {TRUE}, processExecutionId: ExeIds, rowId: ExeIds]

-----------------------------------------------------------------------------
(* InsertLatestProcessExecution under the table's unique key              *)
(* (namespace, process_id): a committed row makes it a duplicate entry,   *)
(* an uncommitted row of another transaction makes it wait.               *)
DuplicateEntry(ns, pid) == \E p \in pointers : p.ns = ns /\ p.pid = pid

WaitsOnUniqueKey(ns, pid) == \E t \in txs : t.ns = ns /\ t.pid = pid

(* StartProcess: begin the transaction, mint the ProcessExecutionId and   *)
(* insert the pointer.  On a duplicate entry the request returns          *)
(* alreadyStarted and the deferred Rollback leaves no row: no step.       *)
InsertCurrentProcessExecution(ns, pid) ==
    /\ nextId <= MaxStarts
    /\ ~DuplicateEntry(ns, pid)
    /\ ~WaitsOnUniqueKey(ns, pid)
    /\ txs' = txs \cup {[id |-> nextId, ns |-> ns, pid |-> pid, row |-> FALSE]}
    /\ nextId' = nextId + 1
    /\ UNCHANGED <<pointers, executions, described>>

(* The rest of StartProcess: the start state's row and task (abstracted  *)
(* here) and the process execution row with namespace, process_id and    *)
(* the request's ProcessType, WorkerURL and StartTime.                    *)
InsertProcessExecution(t) ==
    /\ t \in txs
    /\ ~t.row
    /\ txs' = (txs \ {t}) \cup {[t EXCEPT !.row = TRUE]}
    /\ UNCHANGED <<nextId, pointers, executions, described>>

(* The deferred Commit after a StartProcess that returned no error.       *)
CommitStart(t) ==
    /\ t \in txs
    /\ t.row
    /\ pointers' = pointers \cup {[ns |-> t.ns, pid |-> t.pid, exe |-> t.id]}
    /\ executions' = executions \cup {[id |-> t.id, ns |-> t.ns, pid |-> t.pid]}
    /\ txs' = txs \ {t}
    /\ UNCHANGED <<nextId, described>>

(* The deferred Rollback after an error of any insert or marshal.         *)
RollbackStart(t) ==
    /\ t \in txs
    /\ txs' = txs \ {t}
    /\ UNCHANGED <<nextId, pointers, executions, described>>

-----------------------------------------------------------------------------
(* SelectCurrentProcessExecution: the pointer of (namespace, processId)   *)
(* INNER JOIN the executions ON e.process_id = ce.process_id.  GetContext *)
(* keeps the first row of the result, whose order the query leaves open:  *)
(* the set of rows it may return.  selectLatestExecutionQuery of the      *)
(* current schema joins the same way.                                      *)
SelectCurrentProcessExecution(ns, pid) ==
    {[processExecutionId |-> p.exe, rowId |-> e.id] :
        p \in {q \in pointers : q.ns = ns /\ q.pid = pid},
        e \in {r \in executions : r.pid = pid}}

(* DescribeLatestProcess: not found when the select has no row; otherwise *)
(* the pointer's ProcessExecutionId with the ProcessType, WorkerUrl and   *)
(* StartTimestamp of the joined row.                                       *)
DescribeLatestProcess(ns, pid) ==
    /\ LET rows == SelectCurrentProcessExecution(ns, pid)
       IN  IF rows = {}
           THEN described' = NotFound
           ELSE \E r \in rows :
                  described' = [found |-> TRUE,
                                processExecutionId |-> r.processExecutionId,
                                rowId |-> r.rowId]
    /\ UNCHANGED <<nextId, txs, pointers, executions>>

-----------------------------------------------------------------------------
Init ==
    /\ nextId = 1
    /\ txs = {}
    /\ pointers = {}
    /\ executions = {}
    /\ described = NotFound

Next ==
    \/ \E ns \in Namespaces, pid \in ProcessIds :
          InsertCurrentProcessExecution(ns, pid) \/ DescribeLatestProcess(ns, pid)
    \/ \E t \in txs :
          InsertProcessExecution(t) \/ CommitStart(t) \/ RollbackStart(t)

Spec == Init /\ [][Next]_vars

-----------------------------------------------------------------------------
TypeOK ==
    /\ nextId \in 1..MaxStarts + 1
    /\ pointers \subseteq [ns: Namespaces, pid: ProcessIds, exe: ExeIds]
    /\ executions \subseteq [id: ExeIds, ns: Namespaces, pid: ProcessIds]
    /\ described \in Answers

(* DescribeLatestProcess answers with one execution: the ProcessType,     *)
(* WorkerUrl and StartTimestamp it returns are those of the execution     *)
(* whose id it returns, the one the pointer of the requested namespace    *)
(* names.  Two namespaces that start the same processId make the join of *)
(* selectCurrentExecutionQuery return both executions' rows.              *)
DescribeReturnsLatestExecution ==
    described.found => described.rowId = described.processExecutionId
==================================================================================

-------------------------- MODULE AsyncStateMachine --------------------------
(***************************************************************************)
(* What the process store promises about the rows it writes, stated       *)
(* without tables, tasks or callers: a state execution is created with    *)
(* its initial statuses; each of its two phases (WaitUntil, Execute)       *)
(* only moves along the legal progressions                                *)
(*     Undefined -> Running,                                               *)
(*     Running   -> Waiting | Completed | Skipped | Aborted | Failed,     *)
(*     Waiting   -> Completed | Aborted | Failed,                         *)
(* the terminal statuses being sinks; the Execute phase runs or completes *)
(* only after the WaitUntil phase completed or was skipped; every change  *)
(* of a row raises its version; and the process leaves Running once, for  *)
(* a terminal status that it keeps.                                        *)
(***************************************************************************)
EXTENDS Naturals

CONSTANTS Ids   \* the possible state execution ids

VARIABLES
    status, \* the process execution's status
    rows    \* existing state executions: id -> [wu, ex, ver]

Terminal == {"Completed", "Failed", "Terminated", "Timeout"}

InitialRows == {[wu |-> "Running", ex |-> "Undefined", ver |-> 1],
                [wu |-> "Skipped", ex |-> "Running",   ver |-> 1]}

Progressions ==
    {<<"Undefined", "Running">>}
    \cup {<<"Running", s>> : s \in {"Waiting", "Completed", "Skipped", "Aborted", "Failed"}}
    \cup {<<"Waiting", s>> : s \in {"Completed", "Aborted", "Failed"}}

PhaseStep(from, to) == from = to \/ <<from, to>> \in Progressions

ExecuteAfterWaitUntil(r) ==
    r.ex \in {"Running", "Completed"} => r.wu \in {"Completed", "Skipped"}

RowStep(r, s) ==
    \/ r = s
    \/ /\ PhaseStep(r.wu, s.wu)
       /\ PhaseStep(r.ex, s.ex)
       /\ ExecuteAfterWaitUntil(s)
       /\ s.ver > r.ver

Init ==
    /\ status = "Running"
    /\ rows \in [{} -> InitialRows]

(* One step changes any number of rows legally, may create rows, and may  *)
(* close the process.                                                      *)
Next ==
    /\ DOMAIN rows \subseteq DOMAIN rows'
    /\ DOMAIN rows' \subseteq Ids
    /\ \A id \in DOMAIN rows' \ DOMAIN rows : rows'[id] \in InitialRows
    /\ \A id \in DOMAIN rows : RowStep(rows[id], rows'[id])
    /\ \/ status' = status
       \/ status = "Running" /\ status' \in Terminal

Spec == Init /\ [][Next]_<<status, rows>>
=============================================================================

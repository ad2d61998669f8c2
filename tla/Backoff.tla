------------------------------- MODULE Backoff -------------------------------
(***************************************************************************)
(* The retry loop of one worker task whose worker keeps failing: each     *)
(* attempt raises CompletedAttempts (processWaitUntilTask,                 *)
(* processExecuteTask), checkRetry asks GetNextBackoff for the next        *)
(* interval, retryTask moves the task to the timer table with fire time    *)
(* now + interval, and the timer hands it back when that time has come.    *)
(* GetNextBackoff is modelled with its int32 conversion: Go's conversion  *)
(* of an out-of-range float64 is implementation-defined, and the result   *)
(* is any of what the builds produce (the integer-indefinite value         *)
(* MinInt32 on amd64, saturation on arm64).                                *)
(***************************************************************************)
EXTENDS Integers, Sequences

CONSTANTS
    Policies,        \* xdbapi.RetryPolicy values of the state; Unset fields allowed
    MaxAttemptBound, \* bound: attempts explored
    Unset            \* a field left nil in the RetryPolicy

VARIABLES
    policy,   \* the state's WaitUntilApiRetryPolicy
    attempts, \* WorkerTaskBackoffInfo.CompletedAttempts
    now,      \* the clock, in seconds; the first attempt starts at 0
    interval, \* the last backoff interval scheduled
    status    \* "calling" the worker, "backoff" in the timer table

vars == <<policy, attempts, now, interval, status>>

MaxInt32 == 2147483647
MinInt32 == -2147483647 - 1

PolicyFields == {"init", "coef", "max", "maxAttempts", "maxDuration"}

(* defaultWorkerTaskBackoffRetryPolicy.                                    *)
DefaultRetryPolicy ==
    [init |-> 1, coef |-> 2, max |-> 60, maxAttempts |-> 0, maxDuration |-> 0]

(* setDefaultRetryPolicyValue: every nil field takes its default.          *)
SetDefaultRetryPolicyValue(p) ==
    [f \in PolicyFields |-> IF p[f] = Unset THEN DefaultRetryPolicy[f] ELSE p[f]]

(* float64(init) * math.Pow(coef, n) for integral operands: the exact     *)
(* product while it fits an int32 (float64 holds it exactly), otherwise    *)
(* out of range.  Computed step by step so that no intermediate exceeds    *)
(* the int32 range.                                                         *)
RECURSIVE Scaled(_, _, _)
Scaled(x, coef, n) ==
    CASE n = 0                               -> [fits |-> TRUE, value |-> x]
      [] coef # 0 /\ x > MaxInt32 \div coef  -> [fits |-> FALSE, value |-> 0]
      [] OTHER                               -> Scaled(x * coef, coef, n - 1)

(* int32(v): in range the value itself; out of range whatever the build's *)
(* conversion instruction yields.                                           *)
Float64ToInt32(v) == IF v.fits THEN {v.value} ELSE {MinInt32, MaxInt32}

(* Mutation: the interval is not capped at MaximumIntervalSeconds.       *)
GetNextBackoffUncapped(completedAttempts, firstAttemptStart, nowSeconds, rp) ==
    LET p == SetDefaultRetryPolicyValue(rp)
    IN  IF \/ p.maxAttempts > 0 /\ completedAttempts >= p.maxAttempts
           \/ p.maxDuration > 0 /\ firstAttemptStart + p.maxDuration < nowSeconds
        THEN {[interval |-> 0, shouldRetry |-> FALSE]}
        ELSE {[interval |-> n, shouldRetry |-> TRUE] :
                 n \in Float64ToInt32(Scaled(p.init, p.coef, completedAttempts))}

(* GetNextBackoff: the possible (nextBackoffSeconds, shouldRetry) results. *)
GetNextBackoff(completedAttempts, firstAttemptStart, nowSeconds, rp) ==
    LET p == SetDefaultRetryPolicyValue(rp)
    IN  IF \/ p.maxAttempts > 0 /\ completedAttempts >= p.maxAttempts
           \/ p.maxDuration > 0 /\ firstAttemptStart + p.maxDuration < nowSeconds
        THEN {[interval |-> 0, shouldRetry |-> FALSE]}
        ELSE {[interval |-> IF n > p.max THEN p.max ELSE n, shouldRetry |-> TRUE] :
                 n \in Float64ToInt32(Scaled(p.init, p.coef, completedAttempts))}

-----------------------------------------------------------------------------
Init ==
    /\ policy \in Policies
    /\ attempts = 0
    /\ now = 0
    /\ interval = 0
    /\ status = "calling"

(* The worker call fails: CompletedAttempts++, then checkRetry.  A retry  *)
(* goes to the timer table (retryTask), which stores the attempt count.   *)
(* Otherwise the error is returned and the goroutine puts the task back   *)
(* on taskToProcessChan, so it is called again at once.  The task is a    *)
(* copy and WorkerTaskBackoffInfo a pointer: a task that never went       *)
(* through the timer table had none, so its count starts again from 0;    *)
(* one loaded from a timer task shares it, so its count keeps rising.     *)
AttemptFails ==
    /\ status = "calling"
    /\ attempts < MaxAttemptBound
    /\ \E r \in GetNextBackoff(attempts + 1, 0, now, policy) :
          IF r.shouldRetry
          THEN /\ status' = "backoff"
               /\ interval' = r.interval
               /\ attempts' = attempts + 1
          ELSE /\ attempts' = IF attempts = 0 THEN 0 ELSE attempts + 1
               /\ UNCHANGED <<status, interval>>
    /\ UNCHANGED <<policy, now>>

(* The timer task fires at now + interval, or at once when that time has  *)
(* passed, and the next attempt starts.                                    *)
TimerFires ==
    /\ status = "backoff"
    /\ now' = IF interval > 0 THEN now + interval ELSE now
    /\ status' = "calling"
    /\ UNCHANGED <<policy, attempts, interval>>

Next == AttemptFails \/ TimerFires

Spec == Init /\ [][Next]_vars /\ WF_vars(AttemptFails) /\ WF_vars(TimerFires)

-----------------------------------------------------------------------------
(* The backoff never shrinks and stays within [0, MaximumIntervalSeconds]: *)
(* each interval GetNextBackoff schedules is at least the one before, for  *)
(* any number of attempts the policy allows.                               *)
BackoffWithinPolicy ==
    [][status' = "backoff" =>
          /\ 0 <= interval'
          /\ interval' <= SetDefaultRetryPolicyValue(policy).max
          /\ (attempts > 0 => interval <= interval')]_vars

=============================================================================

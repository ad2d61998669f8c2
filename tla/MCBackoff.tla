------------------------------ MODULE MCBackoff ------------------------------
(* Backoff instantiated for TLC.                                          *)
EXTENDS Backoff

(* Retry policies mixing set and nil fields, with attempt limits the      *)
(* loop reaches within MaxAttemptBound.                                     *)
MCPolicies ==
    [init : {1, 2, Unset}, coef : {1, 2, Unset}, max : {5, Unset},
     maxAttempts : {3, 6}, maxDuration : {0, 10, Unset}]

(* A state without a retry policy: every field takes its default, and the *)
(* attempts are unbounded.                                                 *)
MCDefaultPolicy ==
    {[f \in PolicyFields |-> Unset]}

=============================================================================

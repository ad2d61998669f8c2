CONSTANTS
    Unset = Unset
    Policies <- MCPolicies
    MaxAttemptBound = 6

SPECIFICATION Spec
PROPERTY BackoffWithinPolicy
CHECK_DEADLOCK FALSE

CONSTANTS
    Unset = Unset
    Policies <- MCDefaultPolicy
    MaxAttemptBound = 32

SPECIFICATION Spec
PROPERTY BackoffWithinPolicy
CHECK_DEADLOCK FALSE

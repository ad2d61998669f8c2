CONSTANTS
    A = A
    B = B
    w1 = w1
    w2 = w2
    q1 = q1
    NoState = NoState
    StateIds <- MCStateIds
    Workers <- MCOneWorker
    Queues <- MCQueues
    NextStateChoices <- MCNextStateChoices
    WaitUntilCommands <- MCEmptyCommandOnly
    StartChoices <- MCUnconfiguredStart
    MaxStateIdSequence = 1
    MaxMessages = 0
    ProcessorBufferSize = 1
    MaximumAttempts = 3
    MaxCrashes = 0

SPECIFICATION Spec
INVARIANT WorkerFailureHandled
CHECK_DEADLOCK FALSE

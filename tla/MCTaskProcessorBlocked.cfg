CONSTANTS
    A = A
    B = B
    w1 = w1
    w2 = w2
    q1 = q1
    NoState = NoState
    StateIds <- MCStateIds
    Workers <- MCWorkers
    Queues <- MCQueues
    NextStateChoices <- MCNextStateChoices
    WaitUntilCommands <- MCWaitUntilCommands
    StartChoices <- MCStartChoices
    MaxStateIdSequence = 2
    MaxMessages = 1
    ProcessorBufferSize = 1
    MaximumAttempts = 1
    MaxCrashes = 0

SYMMETRY WorkerSymmetry
SPECIFICATION Spec
CHECK_DEADLOCK FALSE
INVARIANT ProcessorNotBlocked

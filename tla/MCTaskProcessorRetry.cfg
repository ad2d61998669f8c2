CONSTANTS
    A = A
    B = B
    w1 = w1
    w2 = w2
    q1 = q1
    NoState = NoState
    StateIds <- MCStateIds
    Workers <- MCWorkers
    Queues <- MCQueues
    NextStateChoices <- MCNextStateChoices
    WaitUntilCommands <- MCEmptyCommandOnly
    StartChoices <- MCStartChoices
    MaxStateIdSequence = 2
    MaxMessages = 0
    ProcessorBufferSize = 1
    MaximumAttempts = 2
    MaxCrashes = 0

SYMMETRY WorkerSymmetry
SPECIFICATION Spec
INVARIANT NoStrandedStateExecution PendingTracksLiveStates
PROPERTY ImplementsAsyncStateMachine
CHECK_DEADLOCK FALSE

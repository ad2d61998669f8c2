CONSTANTS
    p1 = p1
    g1 = g1
    g2 = g2
    Writers <- MCOneWriter
    Goroutines <- MCGoroutines
    ProcessorBufferSize = 1
    CommitBufferSize = 4
    PollPageSize = 2
    MaxTasks = 4
    MaxProcessErrors = 1
    MaxCrashes = 1
    TimerPageSize = 1
    BackoffIntervals = {1, 2}
    MaxTimers = 2
    MaxTime = 2
SPECIFICATION SpecAll
INVARIANT TimerTypeOK NoInFlightTaskDeleted NoDueTimerLeftAsleep
PROPERTY ProcessedTaskEventuallyDeleted TimerEventuallyFires
CHECK_DEADLOCK FALSE

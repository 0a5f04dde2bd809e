\* Liveness: a queue of one, no batch window, a deadline.
CONSTANTS
    f1 = f1  f2 = f2  f3 = f3  c1 = c1  c2 = c2
    Stop = Stop
    Frames <- MCTwoFrames
    BadFrames <- MCBadFrames
    Closers <- MCTwoClosers
    QueueCapacity = 1
    BatchSize = 2
    BatchWaits = FALSE
    HasDeadline = TRUE
SPECIFICATION FairSpec
CHECK_DEADLOCK FALSE
PROPERTIES
    EveryCallReturns
    StopEndsWorker

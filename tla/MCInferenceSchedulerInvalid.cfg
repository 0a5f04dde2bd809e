\* One undecodable frame in a batch of two.
CONSTANTS
    f1 = f1  f2 = f2  f3 = f3  c1 = c1  c2 = c2
    Stop = Stop
    Frames <- MCFrames
    BadFrames <- MCBadFrames
    Closers <- MCClosers
    QueueCapacity = 2
    BatchSize = 2
    BatchWaits = TRUE
    HasDeadline = TRUE
SPECIFICATION Spec
SYMMETRY MCSymmetry
CHECK_DEADLOCK FALSE
INVARIANTS
    InvalidMeansThisFrame

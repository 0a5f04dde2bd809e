\* Four segments from any client; c alone fills the character limit.
CONSTANTS
    a = a  b = b  c = c  d = d
    None = None
    Ids <- MCIds
    Size <- MCSize
    MaxQueued = 2
    MaxCharacters = 3
    MaxChunks = 1
    MaxMessages = 4
SPECIFICATION Spec
SYMMETRY MCSymmetry
CHECK_DEADLOCK FALSE
INVARIANTS
    TypeOK
    QueueWithinLimits
    SlotOutlivesSynthesis
    SessionEndsWithCause
PROPERTIES
    KeepsContract

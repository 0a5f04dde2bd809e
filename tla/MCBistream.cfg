\* Two calls of two texts on one of two connections, a bridge of one text.
CONSTANTS
    MaxItems = 1
    MaxChunks = 1
    MaxCalls = 2
    MaxTexts = 2
    MaxConnections = 2
    OddTexts = TRUE
SPECIFICATION Spec
CHECK_DEADLOCK FALSE
INVARIANTS
    TypeOK
    NoUnexpectedSequence
    GeneratorsNeverOverlap
    DoneMeansSpoken
PROPERTIES
    CancelledCallEnds
    AcceptedSessionFreesSlot

\* Two calls on one connection, the first one cancelled.
CONSTANTS
    MaxItems = 1
    MaxChunks = 1
    MaxCalls = 2
    MaxTexts = 1
    MaxConnections = 1
    OddTexts = FALSE
SPECIFICATION Spec
CHECK_DEADLOCK FALSE
INVARIANT
    ReusableAfterCancel

\* Two segments, of which b is refused while a is active, one that is too large for a
\* message, four messages.
CONSTANTS
    a = a  b = b  c = c
    None = None
    Ids <- MCIds
    Size <- MCSize
    Oversized = {c}
    MaxQueued = 1
    MaxCharacters = 1
    MaxChunks = 1
    MaxMessages = 4
SPECIFICATION SessionSpec
CHECK_DEADLOCK FALSE
INVARIANTS
    OnlyOversizedMisleads
    ViewsAgree
PROPERTIES
    CancelIsAnswered

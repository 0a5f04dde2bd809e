\* Liveness: two segments from any client, a waiting queue of one.
CONSTANTS
    a = a  b = b  c = c  d = d
    None = None
    Ids <- MCTwoIds
    Size <- MCTwoSize
    MaxQueued = 1
    MaxCharacters = 1
    MaxChunks = 1
    MaxMessages = 3
SPECIFICATION FairSpec
CHECK_DEADLOCK FALSE
PROPERTIES
    EveryAcceptedSegmentEnds
    DisconnectFreesSlot

\* Two refreshes beside three scheduled collections.
CONSTANTS
    r1 = r1  r2 = r2
    Sampler = Sampler
    None = None
    Refreshers <- MCTwoRefreshers
    MaxRounds = 3
SPECIFICATION FairSpec
CHECK_DEADLOCK FALSE
INVARIANTS
    TypeOK
    RefreshingIsOwned
PROPERTIES
    EveryRefreshReturns

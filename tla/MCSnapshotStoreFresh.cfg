\* Two refreshes beside two scheduled collections.
CONSTANTS
    r1 = r1  r2 = r2
    Sampler = Sampler
    None = None
    Refreshers <- MCTwoRefreshers
    MaxRounds = 2
SPECIFICATION Spec
CHECK_DEADLOCK FALSE
INVARIANTS
    RefreshSeesNewSample

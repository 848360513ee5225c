SPECIFICATION Spec
CONSTANTS
    d1 = d1
    NoDispatch = none
    Dispatches = {d1}
    BackoffCap = 2
    StrayPages = FALSE
    Configs <- OneLiveConfig
    MostAttempts = 2
    BatchLimit = 50
    MaxCrashes = 2
    MaxSignals = 0
INVARIANT NoDuplicates

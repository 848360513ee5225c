SPECIFICATION FairSpec
CONSTANTS
    d1 = d1
    d2 = d2
    NoDispatch = none
    Dispatches = {d1, d2}
    BackoffCap = 1
    StrayPages = TRUE
    Configs <- OneLiveConfig
    MostAttempts = 2
    BatchLimit = 1
    MaxCrashes = 0
    MaxSignals = 1
PROPERTIES EveryDispatchSettles ShutdownCompletes ShutdownAdvances NoRowPassedOver LoopSpec

SPECIFICATION Spec
CONSTANTS
    d1 = d1
    NoDispatch = none
    Dispatches = {d1}
    BackoffCap = 2
    StrayPages = TRUE
    Configs <- OneLiveConfig
    MostAttempts = 2
    BatchLimit = 50
    MaxCrashes = 0
    MaxSignals = 0
INVARIANT DeliveredIsHeld

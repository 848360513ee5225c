SPECIFICATION Spec
CONSTANTS
    k1 = k1
    k2 = k2
    r1 = r1
    r2 = r2
    Keys = {k1, k2}
    NoKey = noKey
    Unset = unset
    Requests = {r1, r2}
    BridgeEnv <- DryBridgeEnv
    HandEdits = TRUE
SYMMETRY Symmetry
INVARIANTS LiveOnlyIfAsked CalmAgrees LiveKeyIsShared

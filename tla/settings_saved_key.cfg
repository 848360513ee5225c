SPECIFICATION Spec
CONSTANTS
    k1 = k1
    k2 = k2
    r1 = r1
    Keys = {k1, k2}
    NoKey = noKey
    Unset = unset
    Requests = {r1}
    BridgeEnv <- DryBridgeEnv
    HandEdits = FALSE
INVARIANT SavedKeyIsKept
CHECK_DEADLOCK FALSE

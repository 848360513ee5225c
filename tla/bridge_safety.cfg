SPECIFICATION Spec
CONSTANTS
    d1 = d1
    d2 = d2
    NoDispatch = none
    Dispatches = {d1, d2}
    BackoffCap = 1
    StrayPages = FALSE
    Configs <- ChangingConfigs
    MostAttempts = 2
    BatchLimit = 2
    MaxCrashes = 1
    MaxSignals = 1
SYMMETRY Symmetry
INVARIANTS TypeOK BatchStaysFresh DuplicatesExplained RetryBudget ExactlyOnce FirstPostInOrder
PROPERTIES SettledIsFinal LedgerSpec DispatchAdvances

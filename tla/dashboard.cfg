SPECIFICATION DashboardSpec
CONSTANTS
    PollInterval = 2
    BaseBackoff = 2
    MaxBackoff = 5
    SleepCap = 3
    BatchLimit = 2
    FetchTimes = {0, 1}
    PostTimes = {0, 2}
    MaxFailures = 3
    MaxRows = 3
    r1 = r1
    Requests = {r1}
INVARIANTS WebTypeOK SourceIsSpared OutageEndsSoon SourceIsWatched StopIsPrompt StatsAreRecent PageIsPast FoundAreCounted
PROPERTY LoopSpec

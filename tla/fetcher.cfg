SPECIFICATION FairSpec
CONSTANTS
    MaxBytes = 3
    ChunkSize = 2
    ReadTimeout = 2
    LongestGet = 3
    MaxUnpacked = 4
    MaxTime = 17
    MaxFailures = 2
INVARIANTS TypeOK FetchIsBounded
PROPERTIES FetchAdvances FetchReturns

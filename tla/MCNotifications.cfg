SPECIFICATION FairSpec
CONSTANTS
    Rules        = {"r1"}
    MaxEvents    = 2
    MaxRevision  = 2
    MaxAttempts  = 3
    SuspendAfter = 5
    BatchSize    = 1
    MaxExits     = 2
INVARIANT TypeOK
PROPERTIES
    RecordsAreKept
    EventuallySettled
CHECK_DEADLOCK FALSE

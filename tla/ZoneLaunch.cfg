SPECIFICATION FairSpec
CONSTANTS
    NZones = 2
    NPids = 2
    MaxKillFails = 1
    MaxRequests = 3
    ForkFails = TRUE
    ObeysTerm = FALSE
    SlowKill = FALSE
    SignalsMerge = FALSE
INVARIANTS TypeOK OneProcessPerZone RunningCounted ReportedRight
PROPERTY DeathNoticed
CHECK_DEADLOCK FALSE

SPECIFICATION FairSpec
CONSTANTS
    NZones = 2
    NPids = 2
    MaxKillFails = 1
    MaxRequests = 2
    ForkFails = FALSE
    ObeysTerm = FALSE
    SlowKill = FALSE
    SignalsMerge = TRUE
PROPERTY DeathNoticed
CHECK_DEADLOCK FALSE

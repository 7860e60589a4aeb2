SPECIFICATION FairSpec
CONSTANTS
    NZones = 1
    NPids = 1
    MaxKillFails = 1
    MaxRequests = 2
    ForkFails = FALSE
    ObeysTerm = FALSE
    SlowKill = FALSE
    SignalsMerge = FALSE
PROPERTY RestartCompletes
CHECK_DEADLOCK FALSE

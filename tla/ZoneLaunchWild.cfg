SPECIFICATION FairSpec
CONSTANTS
    NZones = 2
    NPids = 2
    MaxKillFails = 1
    MaxRequests = 3
    ForkFails = FALSE
    ObeysTerm = FALSE
    SlowKill = TRUE
    SignalsMerge = TRUE
INVARIANT RefNotReaped
PROPERTIES GivenUpAfterKill StopCompletes
CHECK_DEADLOCK FALSE

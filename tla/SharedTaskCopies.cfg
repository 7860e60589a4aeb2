SPECIFICATION Spec
CONSTANTS
  Players = {ann, bob}
  GMs = {}
  Templates = {hunt}
  LocksAtOnce = {}
  Expiring = {}
  MinPlayers = 1
  MaxPlayers = 2
  Goal = 1
  MaxTasks = 2
  MaxRequests = 2
  MaxKills = 1
  MaxOut = 1
  MaxMoves = 1
  MaxEvents = 1
INVARIANTS TypeOK MirrorFollows RewardedOnce
PROPERTIES KeepsParties
SYMMETRY PlayerSymmetry
CHECK_DEADLOCK FALSE

SPECIFICATION Spec
CONSTANTS
  Players = {ann, bob, cid}
  GMs = {}
  Templates = {hunt}
  LocksAtOnce = {}
  Expiring = {hunt}
  MinPlayers = 1
  MaxPlayers = 2
  Goal = 1
  MaxTasks = 2
  MaxRequests = 3
  MaxKills = 0
  MaxOut = 1
  MaxMoves = 0
  MaxEvents = 1
INVARIANTS OneTaskEach LedByOne RecordsKept NeverOverfull ClosingShort
PROPERTIES ClosedToNewcomers
SYMMETRY PlayerSymmetry
CHECK_DEADLOCK FALSE

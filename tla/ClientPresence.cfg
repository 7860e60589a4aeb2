SPECIFICATION Spec
CONSTANTS
  NLogins = 1
  NServers = 2
  NEntries = 4
  MaxMoves = 7
  LateReports = FALSE
  LostLinks = TRUE
INVARIANTS TypeOK ZonesCounted PlayersCounted PointersLive PlayersFound
PROPERTIES GhostsGo
CHECK_DEADLOCK FALSE

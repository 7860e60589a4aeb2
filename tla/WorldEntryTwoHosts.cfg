SPECIFICATION Spec
CONSTANTS
  NServers = 2
  NZones = 2
  NClients = 2
  MaxTries = 3
  BadZones = {}
  KillProcessOnDynamicShutdown = TRUE
  FreshGap = TRUE
  LostLinks = FALSE
  LateAnswers = FALSE
INVARIANTS OneHostPerZone
CHECK_DEADLOCK FALSE

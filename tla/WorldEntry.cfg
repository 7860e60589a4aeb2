SPECIFICATION Spec
CONSTANTS
  NServers = 3
  NZones = 2
  NClients = 1
  MaxTries = 2
  BadZones = {}
  KillProcessOnDynamicShutdown = TRUE
  FreshGap = FALSE
  LostLinks = TRUE
  LateAnswers = FALSE
INVARIANTS TypeOK OneHostPerZone WarnedBeforeSent AdmittedOnce
CHECK_DEADLOCK FALSE

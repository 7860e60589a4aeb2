SPECIFICATION Spec
CONSTANTS
  NServers = 2
  NZones = 2
  NClients = 1
  MaxTries = 2
  BadZones = {2}
  KillProcessOnDynamicShutdown = FALSE
  FreshGap = TRUE
  LostLinks = TRUE
  LateAnswers = TRUE
INVARIANTS ViewsAgree
PROPERTIES BootRequestAnswered
CHECK_DEADLOCK FALSE

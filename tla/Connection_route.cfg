CONSTANTS
  Server = srv
  Clients = {c1}
  None = None
  NumRetries = 2
  WrNumber = 1
  NumQps = 1
  BuildFaults <- NoFaults
SPECIFICATION FairSpec
PROPERTIES RouteErrorAborts
CHECK_DEADLOCK FALSE

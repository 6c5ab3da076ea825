CONSTANTS
  Server = srv
  Clients = {c1}
  None = None
  NumRetries = 2
  WrNumber = 1
  NumQps = 1
  BuildFaults <- AllFaults
SPECIFICATION FairSpec
PROPERTIES ServerEnds ClientEnds ClientSettles
CHECK_DEADLOCK FALSE

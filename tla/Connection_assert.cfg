CONSTANTS
  Server = srv
  Clients = {c1, c2}
  None = None
  NumRetries = 2
  WrNumber = 1
  NumQps = 1
  BuildFaults <- NoFaults
SPECIFICATION Spec
INVARIANTS CmIdAssertHolds
CHECK_DEADLOCK FALSE

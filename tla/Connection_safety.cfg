CONSTANTS
  Server = srv
  Clients = {c1, c2}
  None = None
  NumRetries = 1
  WrNumber = 1
  NumQps = 1
  BuildFaults <- AllFaults
SPECIFICATION Spec
SYMMETRY ClientSymmetry
INVARIANTS TypeOK MainOutlivesRun SendOnLiveQp DestroyOnlyBuilt MetaFindsRecv SidesAgree
PROPERTIES ImplementsSession
CHECK_DEADLOCK FALSE

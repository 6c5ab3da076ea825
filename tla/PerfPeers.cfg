SPECIFICATION Spec
CONSTANTS
  MaxQps = 2
  None = None
  MaxTries = 2
  MaxSends = 3
  Wrap = 64
  CharRange = 4
  Tests <- MCTests
INVARIANTS TypeOK Alike InStep Agreement OneToOne ReadyBeforeTraffic NoReceiveMissing PingPong OrderlyEnd CleanTeardown
PROPERTIES PeersFinish
CHECK_DEADLOCK FALSE

SPECIFICATION Spec
CONSTANTS
  MaxQps = 2
  None = None
  MaxTries = 2
  MaxSends = 3
  Wrap = 64
  CharRange = 4
  Tests <- BuiltTests
INVARIANTS HandShakeFills
CHECK_DEADLOCK FALSE

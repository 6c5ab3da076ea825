CONSTANTS
  Adders = {a1, a2, a3}
  Capacity = 2
  Lengths = {1, 2, 3}
  Stops = FALSE
  MaxPos = 7
SPECIFICATION FairSpec
INVARIANTS TypeOK SlotFree NoHoleBelow
PROPERTIES ImplementsOrder AddersFinish TailCatchesUp
CHECK_DEADLOCK FALSE

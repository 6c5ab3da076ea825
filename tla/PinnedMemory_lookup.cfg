CONSTANTS
  Allocators = {a1, a2}
  Readers = {r1}
  NumBlocks = 2
  Nobody = Nobody
  Null = Null
SPECIFICATION Spec
INVARIANTS LookupWithinMemory
CHECK_DEADLOCK FALSE

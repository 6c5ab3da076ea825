CONSTANTS
  Allocators = {a1, a2, a3}
  Readers = {r1}
  NumBlocks = 2
  Nobody = Nobody
  Null = Null
SPECIFICATION FairSpec
INVARIANTS TypeOK SlotFreeAtInstall RefusedOnlyWhenFull QuietSizeExact InstalledBlockFound
PROPERTIES AllocReturns ImplementsPool
CHECK_DEADLOCK FALSE

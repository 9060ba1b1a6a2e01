CONSTANTS
  Pcs <- MCPcs
  Words <- MCWords
  Kind <- MCKind
  Succ <- MCSucc
  Target <- MCTarget
  Vector = 0
  Stored = {"add", "bfm"}
  Budget = 5
  Size <- MCSize
  SlotLen = 2
  MaxSlots = 2
  Capacities = {1, 2, 6}
SPECIFICATION FairSpec
INVARIANTS
  SealedAndCurrent
PROPERTIES
  NeverOpened
  CacheInvisible
  RunReturns

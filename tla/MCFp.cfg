CONSTANTS
  EBits = 3
  FBits = 2
  Reg = {0, 1}
  Scenario <- MCScenario
  MemBase = 4086
  MemLanes = 10
SPECIFICATION Spec
CHECK_DEADLOCK FALSE
PROPERTIES
  FpRoundsOnce
  FpCallsWhole

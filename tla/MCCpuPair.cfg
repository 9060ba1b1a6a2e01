CONSTANTS
  RamBytes = 16
  Budget = 4
  BlockMax = 2
  Regimes <- MCRegimes
  Families <- MCFamilies
  MaxRuns = 2
SPECIFICATION Spec
INVARIANTS
  CpuTypeOK
  NativeAgrees
  RoundTrip
  MmuFollowsRegisters
  MonitorExact
  GraphFollowsCpu

CONSTANTS
  IrqCount = 8
  CpuCount = 2
  MaxTime = 3
  MaxGen = 2
  SeqMod = 3
  FifoDepth = 2
  DbMask = 3
  HostLines = {7}
  Focus <- MCFocus
  MaxAddr = 199
  Slots = {1, 2}
  Words = {1, 198}
  Controls = {"sctlr", "ttbr0"}
  PermWords <- MCPermWords
  MaskWords <- MCMaskWords
  Vcpu = {"cpu0", "cpu1"}
  MaxFlush = 2
  MaxKeys = 7
  NewKey = {"new1", "new2"}
  SmcKeys = {"CLKH", "MBSE", "new1", "new2"}
  Regions = {0, 1}
  Pages = {0, 1, 2}
  MaxSartGen = 3
  NPins = 3
  NGroups = 2
  WordBits = 2
  IntWords = 2
  GpioModes <- MCGpioModes
SPECIFICATION Spec
INVARIANTS
  ClaimedOnce
  RouteExclusive
  CompletionSignalled
  ExitUndoesEntry
  KeysReadBack
  
PROPERTIES
  
  BanksSeparate
  LocksHold
  ChangeAnnounced
  SartCacheable

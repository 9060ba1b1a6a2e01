CONSTANTS
  Reg <- MCReg
  Value <- MCValue
  Attr = {"A"}
  LastAddr = 6
  RamAddr = {0, 1, 2, 3, 4}
  TableAddr = {5}
  ValidBanks <- MCValidBanks
  ZeroAsidBanks <- MCZeroAsidBanks
  FixedField <- MCFixedField
  Walk <- MCWalk
  Seed <- MCSeed
  Images <- MCImages
  Storable <- MCStorable
  ClientPc = {}
  CounterMax = 3
  TokenMax = 7
  Budget = 6
  Entry = {0, 2}
SPECIFICATION FairRunSpec
INVARIANTS
  KnownIsCommitted
  UncertainByOneStep
  RunInProfile
PROPERTIES
  AtomicExchange
  RunEnds

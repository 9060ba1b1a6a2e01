CONSTANTS
  Reg <- MCReg
  Value <- MCValue
  Attr = {"A"}
  LastAddr = 3
  RamAddr = {0, 1}
  TableAddr = {2}
  ValidBanks <- MCValidBanks
  ZeroAsidBanks <- MCZeroAsidBanks
  FixedField <- MCFixedField
  Walk <- MCWalk
  Seed <- MCSeed
  Images <- MCImages
  Storable <- MCStorable
  ClientPc = {0, 1}
  CounterMax = 3
  TokenMax = 6
SPECIFICATION Spec
INVARIANTS
  TypeOK
  TlbCoherent
  TransitionCode
PROPERTIES
  OneWayEnable
  CountersNameSnapshots

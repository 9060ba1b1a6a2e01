CONSTANTS
  AddrBits = 8
  PageShift <- MCShift
  IndexBits <- MCShift
  EntryBytes = 1
  InstrBytes = 2
  ValidTsz <- MCValidTsz
  OutBits <- MCOutBits
  AsidMax = 2
  TlbEntries = 2
  Settings <- MCSettings
  Vas <- MCVas
  Images <- MCImages
  Writes <- MCWrites
  MaxSeen = 3
SPECIFICATION Spec
INVARIANTS
  HotIsSomeCold
  PathsSeparatePages

CONSTANTS
  Names = {"boot-args", "n1", "n2"}
  Images <- MCImages
  MaxLen = 3
  MaxEnv = 2
  CommonCap = 2
  StageMax = 1
  MaxBanks = 3
SPECIFICATION Spec
INVARIANTS
  NoMixture
  NoHalfBank
  

CONSTANTS
  DbMask = 3
  AcqSizes = {}
SPECIFICATION Spec
INVARIANT
  StartedIsContinuous

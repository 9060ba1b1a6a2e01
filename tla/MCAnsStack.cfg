CONSTANTS
  DbMask = 3
  AcqSizes = {0, 2}
SPECIFICATION Spec
INVARIANTS
  QueueAgrees
PROPERTIES
  ActsOnlyWhenLive

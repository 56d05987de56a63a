SPECIFICATION Spec
CONSTANTS
  NPages = 6
  PageSize = 2
  Threshold = 0
  LargeSize = 4
  LargeLimit = 1
  NumNewAreas = 1
  NumGenerations = 2
  OldestGenToGc = 1
  Consed = 1
  LastGens = {1}
  Size <- TableSizes
  Stack = {s1}
  Static = {st}
  MaxObjects = 3
  MaxOps = 4
  MaxGC = 1
INVARIANTS TypeOK CopyingComplete
PROPERTIES GraphKept RoundsMove
CHECK_DEADLOCK FALSE

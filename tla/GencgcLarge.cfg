SPECIFICATION Spec
CONSTANTS
  NPages = 8
  PageSize = 2
  Threshold = 0
  LargeSize = 4
  LargeLimit = 1
  NumNewAreas = 2
  NumGenerations = 3
  OldestGenToGc = 2
  Consed = 1
  LastGens = {0, 2}
  Size <- LargeSizes
  Stack = {s1}
  Static = {st}
  MaxObjects = 2
  MaxOps = 4
  MaxGC = 2
INVARIANTS PagesAgree ProtectedIsClean
PROPERTIES GraphKept RoundsMove
CHECK_DEADLOCK FALSE

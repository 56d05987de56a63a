SPECIFICATION Spec
CONSTANTS
  NPages = 9
  PageSize = 1
  Threshold = 0
  LargeSize = 4
  LargeLimit = 0
  NumNewAreas = 2
  NumGenerations = 2
  OldestGenToGc = 1
  Consed = 1
  LastGens = {0}
  Size <- LostSizes
  Stack = {s1}
  Static = {st}
  MaxObjects = 3
  MaxOps = 3
  MaxGC = 1
INVARIANTS NewspaceScavenged
CHECK_DEADLOCK FALSE

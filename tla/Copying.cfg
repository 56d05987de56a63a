SPECIFICATION Spec
CONSTANTS
  Kind = {"cons", "box", "pure", "env", "weak", "vec", "code"}
  NStack = 1
  NStatic = 1
  MaxObjects = 2
  MaxOps = 3
  MaxGC = 3
CHECK_DEADLOCK FALSE
PROPERTIES GraphKept
INVARIANTS CodeFollows HeapSound

CONSTANTS
  initial = initial
  a = a
  b = b
  flag = flag
  None = None
  InitialProcess = initial
  IdleProcess = initial
  Processes <- MCProcesses
  Flags <- MCNoFlags
  Ops <- LifeOps
  Restarters <- MCInitial
  MaxOps = 3
  MaxClock = 0
SPECIFICATION Spec
INVARIANTS AllAreAlive
PROPERTIES RestartsTheDead OnlyActiveResume

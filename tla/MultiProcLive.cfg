CONSTANTS
  initial = initial
  a = a
  b = b
  flag = flag
  None = None
  InitialProcess = initial
  IdleProcess = initial
  Processes <- MCProcesses
  Flags <- MCFlags
  Ops <- LiveOps
  Restarters <- MCInitial
  MaxOps = 1
  MaxClock = 0
SPECIFICATION FairSpec
PROPERTIES RunnableRun WaitersWake DestroyedDie

CONSTANTS
  initial = initial
  a = a
  b = b
  flag = flag
  None = None
  InitialProcess = initial
  IdleProcess = None
  Processes <- MCTwoProcesses
  Flags <- MCFlags
  Ops <- WaitOps
  Restarters <- MCInitial
  MaxOps = 1
  MaxClock = 1
SPECIFICATION Spec
INVARIANTS TypeOK SchedulerAsserts WaitIsKept

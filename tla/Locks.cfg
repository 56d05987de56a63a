CONSTANTS
  initial = initial
  a = a
  r = r
  e = e
  t1 = t1
  t2 = t2
  None = None
  InitialProcess = initial
  Processes <- MCProcesses
  Locks <- MCErrorCheck
  ErrorCheckLocks <- MCErrorCheck
  Timers <- MCOneTimer
  Nested = FALSE
  MaxOps = 2
  MaxDepth = 5
SPECIFICATION Spec
\* A process waits for ever for a lock whose clean-up form a throw has left.
CHECK_DEADLOCK FALSE
INVARIANTS TypeOK LockIsKept NestingIsKept TimeoutIsKept
PROPERTIES MutexSpec

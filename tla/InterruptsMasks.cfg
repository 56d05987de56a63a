SPECIFICATION Spec
CONSTANTS
  SIGALRM = SIGALRM
  SIGCHLD = SIGCHLD
  NoSignal = NoSignal
  Signals <- MCSignals
  BlockSet <- MCBlockAlrm
  Debugger = TRUE
  Installable <- MCSignals
  CarefulInstall = FALSE
  MAX_INTERRUPTS = 2
  MaxDepth = 3
  MaxInstall = 3
INVARIANTS
  Impervious
  AtomicIsAtomic

SPECIFICATION FairSpec
CONSTANTS
  SIGALRM = SIGALRM
  SIGCHLD = SIGCHLD
  NoSignal = NoSignal
  Signals <- MCSignals
  BlockSet <- MCNoBlock
  Debugger = FALSE
  Installable <- MCInstallChld
  CarefulInstall = TRUE
  MAX_INTERRUPTS = 2
  MaxDepth = 4
  MaxInstall = 2
INVARIANTS
  TypeOK
  SlotKept
PROPERTIES
  NoSignalOverwritten
  DeferredHandled
  SignalsDelivered

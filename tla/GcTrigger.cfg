SPECIFICATION FairSpec
CONSTANTS
  Clear = 15
  Heap = 7
  Consings = {1, 6}
  HasHook = TRUE
  FinalizersFail = TRUE
  FinalizersRegister = TRUE
  MaxOps = 7
  MaxDepth = 4
  MaxRegs = 3
INVARIANTS TypeOK TriggerKept FinalizersKept
PROPERTIES NotTooSoon AllocReturns
CHECK_DEADLOCK FALSE

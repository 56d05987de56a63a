SPECIFICATION Spec
CONSTANTS
  Object = {a, b}
  Imm = Imm
  Empty = Empty
  Lost = Lost
  Size = 2
  Length = 2
  Addresses <- Residues
  Accessed = TRUE
  MaxSize = 3
  MaxOps = 3
  MaxGC = 2
INVARIANTS TypeOK TableSound
PROPERTIES MapKept
CHECK_DEADLOCK FALSE

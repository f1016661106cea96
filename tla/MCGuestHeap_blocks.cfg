\* Host path and in-guest helpers on one control block, blocks freed twice, large
\* blocks cut in two, and data that looks like the header of a small block.
SPECIFICATION Spec
CONSTANTS
  Base = 4
  End = 20
  Classes = {2, 4}
  Requests = {1, 3, 5, 11}
  Data = 2
  Accel = TRUE
  FreesTwice = TRUE
  MaxOps = 5
CHECK_DEADLOCK FALSE
INVARIANTS BlocksDisjoint FreeListsSound
PROPERTIES PayloadIntact

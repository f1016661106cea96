\* A large block is reused in two parts.
SPECIFICATION Spec
CONSTANTS
  Base = 2
  End = 20
  Classes = {2}
  Requests = {3, 7}
  Data = 1
  Accel = FALSE
  FreesTwice = FALSE
  MaxOps = 4
CHECK_DEADLOCK FALSE
INVARIANTS HeadersPrivate

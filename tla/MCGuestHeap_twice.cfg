\* A block of the host path is freed by the helper, then again.
SPECIFICATION Spec
CONSTANTS
  Base = 2
  End = 12
  Classes = {2}
  Requests = {1}
  Data = 1
  Accel = TRUE
  FreesTwice = TRUE
  MaxOps = 4
CHECK_DEADLOCK FALSE
PROPERTIES SecondFreeSeen

\* The primary alone: SetLastError(0) between two failures with one code.
SPECIFICATION ErrorSpec
CONSTANTS
  Threaded = FALSE
  Errors = {0, 5}
  None = None
  MaxDepth = 0
INVARIANTS Coherent

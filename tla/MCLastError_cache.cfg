\* Three codes, a worker.
SPECIFICATION ErrorSpec
CONSTANTS
  Threaded = TRUE
  Errors = {0, 5, 6}
  None = None
  MaxDepth = 1
INVARIANTS CoherentUntouched

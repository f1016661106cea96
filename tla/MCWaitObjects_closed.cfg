\* A thread handle is closed before its thread ends.
SPECIFICATION Spec
CONSTANTS
  Primary = Primary
  Workers = {w1}
  Events = {e1}
  Manual = {}
  Sems = {}
  MaxCount = 1
  MaxOps = 4
  Spurious = TRUE
INVARIANTS FinishedAfterExit

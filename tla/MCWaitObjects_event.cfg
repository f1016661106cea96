\* A waiter is notified, and another thread takes the signal before it runs.
SPECIFICATION Spec
CONSTANTS
  Primary = Primary
  Workers = {w1}
  Events = {e1}
  Manual = {}
  Sems = {}
  MaxCount = 1
  MaxOps = 4
  Spurious = FALSE
INVARIANTS OneSetOneWait

\* The primary and a worker over an auto-reset and a manual-reset event, a
\* semaphore and the worker itself, under fairness.
SPECIFICATION FairSpec
CONSTANTS
  Primary = Primary
  Workers = {w1}
  Events = {e1, e2}
  Manual = {e2}
  Sems = {s1}
  MaxCount = 2
  MaxOps = 4
  Spurious = TRUE
PROPERTIES JoinCompletes DyingEndsWaits JoinReturns
INVARIANTS UnitsConserved InfiniteWaitOutcome

\* Four TIDs, one more than the limit, under fairness.
SPECIFICATION FairSpec
CONSTANTS
  MaxTids = 4
  MaxWorkers = 3
INVARIANTS StartedOnce
PROPERTIES QueuedStarts NestedJoinCompletes

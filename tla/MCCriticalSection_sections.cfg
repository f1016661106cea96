\* The primary and two workers over one section, under fairness; two calls
\* each allow recursion, contention and calls of a thread that is not inside.
SPECIFICATION FairSpec
CONSTANTS
  Primary = Primary
  Workers = {w1, w2}
  Sections = {c1}
  NoTid = NoTid
  NoSection = NoSection
  U32Max = 7
  MaxCalls = 2
INVARIANTS MutualExclusion OwnerAgrees
PROPERTIES OwnershipHandover EnterCompletes DyingStopsWorkers

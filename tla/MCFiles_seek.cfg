\* The default: seeks and sizes run in the guest, ReadFile on the host.
SPECIFICATION Spec
CONSTANTS
  Paths <- MCPaths
  Inputs <- MCInputs
  Patterns <- MCPatterns
  Volumes = {"C"}
  Drives = {"C", "E"}
  Mounted <- MCMounted
  MainPath <- MCMainPath
  Executable <- MCExecutable
  InitDisk <- MCInitDisk
  Data <- MCData
  Rewire = {"seek", "size"}
  Threshold = 2
  LargeRead = 2
  Slots = 2
  ArenaSize = 3
  Align = 1
  MaxFinds = 1
  MaxCalls = 7
  MaxSize = 3
  MaxHandles = 2
  MaxNamed = 2
PROPERTY ReadsWhereSought
CHECK_DEADLOCK FALSE

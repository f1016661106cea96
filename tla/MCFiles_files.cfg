\* ReadFile, SetFilePointer and GetFileSize run in the guest; a program uses
\* one name and makes six calls, or two names and makes four.
SPECIFICATION Spec
CONSTANTS
  Paths <- MCPaths
  Inputs <- MCInputs
  Patterns <- MCPatterns
  Volumes = {"C"}
  Drives = {"C", "E"}
  Mounted <- MCMounted
  MainPath <- MCMainPath
  Executable <- MCExecutable
  InitDisk <- MCInitDisk
  Data <- MCData
  Rewire = {"read", "seek", "size"}
  Threshold = 2
  LargeRead = 2
  Slots = 2
  ArenaSize = 3
  Align = 1
  MaxFinds = 1
  MaxCalls = 8
  MaxSize = 3
  MaxHandles = 2
  MaxNamed = 2
INVARIANTS OneFile MirrorExact DurableFlush NamespaceAgrees InputInOrder
CHECK_DEADLOCK FALSE

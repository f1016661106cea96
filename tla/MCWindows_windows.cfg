\* One worker; four calls that register, create, post or change the tables.
SPECIFICATION Spec
CONSTANTS
  Names = {"n"}
  Titles = {"t", "u"}
  Procs = {7}
  CoordHalf = 2
  Places = {5, 7}
  Sizes = {1}
  MaxCalls = 4
  Workers = {w1}
  Msgs = {1, 2}
  StackWords = 30
  ParkLimits = {0, 1}
INVARIANTS CallbackFrames CallerResumes MessageOrder GeometryAgrees
PROPERTIES WaiterServed
CHECK_DEADLOCK FALSE

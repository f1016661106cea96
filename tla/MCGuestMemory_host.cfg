CONSTANTS
    First = 2
    Last = 4
    Gran = 2
    HostFrame = 2
    Protects = {{}, {"r"}, {"r", "w"}}
    Layout <- MCLayout
    Perms = {{"w", "x"}}
    Mprotect = TRUE
    OccupiedMaps = FALSE
SPECIFICATION Spec
INVARIANT NoHostFault
CHECK_DEADLOCK FALSE

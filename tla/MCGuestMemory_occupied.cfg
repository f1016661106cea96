CONSTANTS
    First = 2
    Last = 4
    Gran = 2
    HostFrame = 2
    Protects = {{}, {"r"}, {"r", "w"}}
    Layout <- MCLayout
    Perms = {{"r", "w", "x"}}
    Mprotect = TRUE
    OccupiedMaps = TRUE
SPECIFICATION Spec
PROPERTY MapTakesFreePages
CHECK_DEADLOCK FALSE

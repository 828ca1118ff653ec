SPECIFICATION Spec
CONSTANTS
    Conns = {c1, c2}
    Root <- MCRoot
    Beside <- MCBeside
    Requested <- MCRequested
    FlagSets <- ForBoth
    Offsets = {0, 1}
    Lengths = {2}
    Sizes = {1}
    Linkable = {}
    READ_MAX = 1
    U32_MAX = 5
    MaxRequests = 3
    MaxInodes = 4
INVARIANTS WritesAddUp
CHECK_DEADLOCK FALSE

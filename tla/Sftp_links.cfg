SPECIFICATION Spec
CONSTANTS
    Conns = {c1, c2}
    Root <- MCRoot
    Beside <- MCBeside
    Requested <- BehindLink
    FlagSets <- ForBoth
    Offsets = {0, 1}
    Lengths = {2}
    Sizes = {2}
    Linkable <- LeadsOut
    READ_MAX = 1
    U32_MAX = 5
    MaxRequests = 2
    MaxInodes = 4
INVARIANTS AcceptedInside
CHECK_DEADLOCK FALSE

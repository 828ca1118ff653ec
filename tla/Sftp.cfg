SPECIFICATION Spec
CONSTANTS
    Conns = {c1, c2}
    Root <- MCRoot
    Beside <- MCBeside
    Requested <- MCRequested
    FlagSets <- ForWriting
    Offsets = {0, 1}
    Lengths = {2}
    Sizes = {2}
    Linkable <- MCLinkable
    READ_MAX = 1
    U32_MAX = 4
    MaxRequests = 4
    MaxInodes = 4
VIEW WithoutAnswers
SYMMETRY TwoConnections
INVARIANTS TypeOK Confined WritesKept
PROPERTIES HandlesKept ReadsSeeWrites AttrsReadable
CHECK_DEADLOCK FALSE

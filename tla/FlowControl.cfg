SPECIFICATION Spec
CONSTANTS
    DEFAULT_WINDOW_SIZE = 5
    U32_MAX = 6
    Used = {0}
INVARIANTS TypeOK Conserved NeverRefused BufferBounded
CHECK_DEADLOCK FALSE

SPECIFICATION InteractiveSpec
CONSTANTS
    Payloads <- MCPayloads
    Encrypted = TRUE
    MaxPackets = 3
INVARIANTS NeverDesynchronised
CHECK_DEADLOCK FALSE

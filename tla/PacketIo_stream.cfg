SPECIFICATION FairSpec
CONSTANTS
    Payloads <- MCPayloads
    Encrypted = TRUE
    MaxPackets = 3
INVARIANTS TypeOK NeverDesynchronised ClosedAfterAll
PROPERTIES AllDelivered ImplementsQueue
CHECK_DEADLOCK FALSE

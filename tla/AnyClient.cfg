SPECIFICATION Spec
CONSTANTS
    SeqMod = 5
    MaxNoise = 0
    MayReset = FALSE
    DEFAULT_WINDOW_SIZE = 2097152
    U32_MAX = 2147483646
    Passwords <- MCPasswords
    PublicKeys <- MCPublicKeys
    Output <- MCOutput
    SftpResponses = {21}
    AuthRequests <- MCAuthRequests
    Requests <- MCRequests
    Starts = {"service", "loop"}
    FirstId = 0
    Pieces <- WholePackets
    Strays = {7}
    MaxSent <- MCMaxSent
    MaxChannels = 2
INVARIANTS LoginFirst RepliesMatch KnownChannel SftpAnswered
CHECK_DEADLOCK FALSE

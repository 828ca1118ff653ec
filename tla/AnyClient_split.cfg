SPECIFICATION Spec
CONSTANTS
    SeqMod = 5
    MaxNoise = 0
    MayReset = FALSE
    DEFAULT_WINDOW_SIZE = 2097152
    U32_MAX = 2147483646
    Passwords <- MCPasswords
    PublicKeys <- MCPublicKeys
    Output <- MCOutput
    SftpResponses = {21}
    AuthRequests <- MCAuthRequests
    Requests <- MCRequests
    Starts = {"loop"}
    FirstId = 0
    Pieces <- SplitPackets
    Strays = {}
    MaxSent <- MCMaxSent
    MaxChannels = 2
INVARIANTS SftpAnswered
CHECK_DEADLOCK FALSE

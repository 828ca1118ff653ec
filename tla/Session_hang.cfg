SPECIFICATION FairSpec
CONSTANTS
    SeqMod = 4
    MaxNoise = 0
    MayReset = FALSE
    DEFAULT_WINDOW_SIZE = 2097152
    U32_MAX = 2147483646
    Passwords <- MCPasswords
    PublicKeys <- MCPublicKeys
    Output <- MCOutput
    SftpResponses = {21}
    Logins <- MCLogins
    Modes = {"interactive"}
    Commands = {"true", "ls", "cat"}
    MPSC_CAPACITY = 2
    MaxLines = 1
PROPERTIES InteractiveTerminates
CHECK_DEADLOCK FALSE

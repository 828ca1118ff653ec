SPECIFICATION FairSpec
CONSTANTS
    SeqMod = 4
    MaxNoise = 2
    MayReset = TRUE
    DEFAULT_WINDOW_SIZE = 2097152
    U32_MAX = 2147483646
    Passwords <- MCPasswords
    PublicKeys <- MCPublicKeys
    Output <- MCOutput
    SftpResponses = {21}
    Logins <- MCLogins
    Modes = {"exec", "interactive", "none"}
    Commands = {"true", "ls", "cat"}
    MPSC_CAPACITY = 2
    MaxLines = 3
INVARIANTS TypeOK InSync AgreeBeforeService LoginChecked CloseAfterOutput
PROPERTIES ImplementsLifecycle Terminates
CHECK_DEADLOCK FALSE

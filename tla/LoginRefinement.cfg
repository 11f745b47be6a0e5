\* Two clients, and calls that may fail.  Such a failure may leave the server
\* waiting in select() for descriptors it never looks at, hence the last line.
CONSTANTS
    Char <- MCChar
    Whitespace <- MCWhitespace
    Fd <- TwoFds
    Listening = 3
    HeaderSize = 2
    LoginLen = 1
    SndBuf = 1
    MaxClients = 2
    Attempts <- MCAttempts
    InitialUsers <- MCInitialUsers
    Late = {9}
    CallsMayFail = TRUE
SPECIFICATION Spec
CONSTANT NoAttempt = NoAttempt
INVARIANTS
    TypeOK
    OnlyOpenSockets
    HalfDuplex
    FramesIntact
    NeverAborts
    OnlyVerifiedLogIn
    MembersAreLoggedIn
PROPERTY ImplementsService
CHECK_DEADLOCK FALSE

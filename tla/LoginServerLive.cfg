CONSTANTS
    Char <- MCChar
    Whitespace <- MCWhitespace
    Fd <- LowFds
    Listening = 3
    HeaderSize = 1
    LoginLen = 1
    SndBuf = 1
    MaxClients = 2
    Attempts <- MCAttempts
    InitialUsers <- MCInitialUsers
    Late = {8}
    CallsMayFail = FALSE
SPECIFICATION FairSpec
INVARIANT EveryDescriptorScanned
PROPERTIES
    EveryoneIsAnswered
    BacklogDrains
    DescriptorsComeBack

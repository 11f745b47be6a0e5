SPECIFICATION Spec
CHECK_DEADLOCK FALSE
CONSTANTS
    Fd <- TwoFds
    CharLen = 6
    FirstLeft <- ZeroLeft
    Part <- AllButOneByte
    MaxMsgs = 2
    MaxQueue = 3
    MaxClients = 2
INVARIANT HeaderIsSixBytes

CONSTANTS
    Base = 2
    Letter <- MCLetter
    WideLetter <- MCWide
    OutMessages <- MCOut
    InMessages <- MCIn
    MaxMessages = 2
    MaxSent = 27
    MaxKeepAlives = 1
SPECIFICATION FairSpec
CHECK_DEADLOCK FALSE
INVARIANTS
    TypeOK
    EndsWithEverythingSent
PROPERTIES
    SendsWhatWasPut
    ReceivesWhatWasSent
    BufferDrains

CONSTANTS
    Accounts = {anna}
    None = None
    MaxClicks = 2
    MaxConnections = 2
SPECIFICATION FairSpec
INVARIANTS
    TypeOK
    OldThreadsAreDone
    OneLoginOutstanding
    AdministrationNeedsLogin
PROPERTIES
    LostIsOffered
    ClosingEnds
CHECK_DEADLOCK FALSE

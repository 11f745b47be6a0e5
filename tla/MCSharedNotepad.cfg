SPECIFICATION Spec
CHECK_DEADLOCK FALSE
CONSTANTS
    Fd <- TwoFds
    CharLen = 5
    FirstLeft <- NoneOrOne
    Part <- AllButOneByte
    MaxMsgs = 3
    MaxQueue = 3
    MaxClients = 3
INVARIANT TypeOK
INVARIANT SavedIsCurrent
INVARIANT TrackersAreContributors
INVARIANT StoredIsApplied
INVARIANT AloneIsSafe

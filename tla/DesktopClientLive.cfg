\* The first connection, until the user quits or the server leaves.
CONSTANTS
    MaxAdded = 1
    MaxRequests = 0
SPECIFICATION FairSpec
PROPERTIES
    UserLearns
    TypedIsSent
CHECK_DEADLOCK FALSE

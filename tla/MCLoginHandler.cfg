CONSTANTS
    Char <- MCChar
    Whitespace <- MCWhitespace
    Attempts <- MCAttempts
    InitialUsers <- MCInitialUsers
    NoAttempt = NoAttempt
SPECIFICATION Spec
INVARIANTS
    TypeOK
    NoShadowing
    RegisteredUserIsRecognised
PROPERTIES
    TruncationLosesNothing

\* One character not yet fetched; one list of files or new connection.
CONSTANTS
    MaxAdded = 1
    MaxRequests = 1
SPECIFICATION Spec
INVARIANTS
    TypeOK
    FlagsAreHeld
CHECK_DEADLOCK FALSE
VIEW MCView

\* The first connection: two threads are past the spin of writeMsg at once.
CONSTANTS
    MaxAdded = 1
    MaxRequests = 0
SPECIFICATION Spec
INVARIANT FramesAreWhole
CHECK_DEADLOCK FALSE

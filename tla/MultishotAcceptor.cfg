SPECIFICATION FairSpec
CONSTANTS
    MaxAccepts = 4
    MayStop = TRUE
    MaxCloseFails = 1
    MaxRingFull = 1
INVARIANTS SocketsInOrder NoSocketLeaks ObjectOutlivesAccept WaiterIsServed
PROPERTIES ImplementsStream DestructorReturns
\* A destroyed object takes no further step.
CHECK_DEADLOCK FALSE

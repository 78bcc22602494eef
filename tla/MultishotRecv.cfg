SPECIFICATION FairSpec
CONSTANTS
    BufCount = 2
    MaxMessages = 4
    MayStop = TRUE
    MayEndEarly = TRUE
    MaxRingFull = 1
INVARIANTS BufferOnce MessagesInOrder OutlivesUnlessStopped WaiterIsServed
PROPERTIES ImplementsStream DestructorReturns
\* A destroyed object takes no further step.
CHECK_DEADLOCK FALSE

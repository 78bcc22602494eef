SPECIFICATION FairSpec
CONSTANTS
    s1 = s1
    Stacks <- OneStack
    Kinds <- AllKinds
    SqEntries = 3
    MaxOps = 1
    MaxFibers = 2
    MaxFailures = 1
INVARIANTS TypeOK AwaitableAlive OnlyAskedCancelled QueuedCancelHasWakeup
PROPERTIES StopEndsTheWait
CHECK_DEADLOCK FALSE

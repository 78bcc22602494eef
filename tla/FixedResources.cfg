SPECIFICATION FairSpec
CONSTANTS
    Fibers = {1, 2}
    BufCounts = {1, 3}
    FdCounts = {2}
    MaxUses = 3
    MaxFailures = 1
INVARIANTS OnePlace KernelBufferIsHeld TableFollowsHandles
PROPERTIES BorrowerIsServed
\* The worker ends, or waits for fibers that wait for each other.
CHECK_DEADLOCK FALSE

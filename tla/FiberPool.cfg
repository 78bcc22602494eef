SPECIFICATION Spec
CONSTANTS
    t1 = t1
    t2 = t2
    a = a
    b = b
    c = c
    Threads <- TwoThreads
    Tasks <- ThreeTasks
    Roots <- RootsAB
    MaySyncWait = TRUE
    MaxIo = 0
    MaxReadErrors = 1
SYMMETRY PoolSymmetry
INVARIANTS TypeOK TokenAccounting InFlightCounts SafeExit OnePlace
PROPERTIES ImplementsTaskPool
CHECK_DEADLOCK FALSE

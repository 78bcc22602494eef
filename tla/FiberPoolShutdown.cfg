SPECIFICATION FairSpec
CONSTANTS
    t1 = t1
    t2 = t2
    a = a
    b = b
    c = c
    Threads <- TwoThreads
    Tasks <- TwoTasks
    Roots <- RootsAB
    MaySyncWait = FALSE
    MaxIo = 0
    MaxReadErrors = 0
PROPERTIES ShutdownCompletes
CHECK_DEADLOCK FALSE

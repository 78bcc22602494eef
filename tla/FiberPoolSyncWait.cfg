SPECIFICATION FairSpec
CONSTANTS
    t1 = t1
    t2 = t2
    a = a
    b = b
    c = c
    Threads <- OneThread
    Tasks <- TwoTasks
    Roots <- RootA
    MaySyncWait = TRUE
    MaxIo = 0
    MaxReadErrors = 0
PROPERTIES ShutdownCompletes
CHECK_DEADLOCK FALSE

SPECIFICATION Spec
CONSTANTS
    BufCount = 2
    MaxMessages = 2
    MayStop = TRUE
    MayEndEarly = FALSE
    MaxRingFull = 0
INVARIANTS ObjectOutlivesReceive
\* A destroyed object takes no further step.
CHECK_DEADLOCK FALSE

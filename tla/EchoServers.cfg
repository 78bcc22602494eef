SPECIFICATION FairSpec
CONSTANTS
    Clients = {c1, c2, c3}
    Workers = {w1, w2}
    Nobody = Nobody
    Capacities = {2}
    MaxFailures = 1
INVARIANTS ConnectionsClosedOnce EveryClientServed
PROPERTIES SyncWaitReturns
\* The programs end.
CHECK_DEADLOCK FALSE

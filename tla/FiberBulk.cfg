SPECIFICATION FairSpec
CONSTANT MaxShape = 4
INVARIANTS OpOutlivesFibers CompletesOnce ResultIsFaithful
PROPERTIES ImplementsContract SyncWaitReturns
\* The bulk is over when sync_wait has returned.
CHECK_DEADLOCK FALSE

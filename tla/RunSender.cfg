SPECIFICATION FairSpec
CONSTANTS
    Ops = {o1, o2}
    Nobody = Nobody
    MaxWaits = 2
INVARIANTS ForwarderTargetAlive StopOnItsWay
PROPERTIES ImplementsContract StopEndsTheFiber
\* The operations are over when they have been destroyed.
CHECK_DEADLOCK FALSE

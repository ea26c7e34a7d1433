\* Rotations and revocations, two calls in all, that may overlap.
CONSTANTS
    c1 = c1
    c2 = c2
    Calls <- TwoCalls
    Serial = FALSE
    MaxAttempts = 2
SPECIFICATION FairSpec
INVARIANT TypeOK
INVARIANT AcknowledgedIsGone
INVARIANT RemovedForOne
INVARIANT StoredDeadHasCause
INVARIANT LeakHasCause
PROPERTY ImplementsRotation
PROPERTY RefinesPool
PROPERTY EveryCallEnds
CHECK_DEADLOCK FALSE

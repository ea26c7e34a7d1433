\* Two leases and one revocation at a time, repeated as often as the gateway likes.
CONSTANTS
    c1 = c1
    c2 = c2
    r1 = r1
    r2 = r2
    e1 = e1
    e2 = e2
    Calls <- OneRevocation
    Leases <- TwoLeases
    Kinds <- BothKinds
    Emails <- TwoEmails
    Serial = FALSE
SPECIFICATION FairSpec
INVARIANT TypeOK
INVARIANT OpenWorks
INVARIANT OrphanHasCause
PROPERTY KeepsBook
PROPERTY OnlyFailedIsLeftOut
PROPERTY ExpiredLeaseCloses
CHECK_DEADLOCK FALSE

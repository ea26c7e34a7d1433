\* Pauses named or not, codes that expire before, in and after a pause.
CONSTANTS
    DefaultInterval = 2
    SlowDown = 2
    Intervals <- NamedPauses
    Lifetimes <- SomeLifetimes
    Patience = 3
    MaxTime = 30
SPECIFICATION FairSpec
INVARIANT TypeOK
INVARIANT EndsInTime
INVARIANT ExpiredOnTheWay
INVARIANT IssuedIsPrinted
PROPERTY PollsAreSpaced
PROPERTY Ends
CHECK_DEADLOCK FALSE

\* Two calls that may overlap, every target.
CONSTANTS
    c1 = c1
    c2 = c2
    c3 = c3
    Calls <- TwoCalls
    Profiles <- AllTargets
    Serial = FALSE
    Blanks = TRUE
SPECIFICATION Spec
SYMMETRY Symmetry
INVARIANT TypeOK
INVARIANT NewestIsLive
INVARIANT StoredDeadHasCause
INVARIANT LeakHasCause
PROPERTY DeliveredWorks
CHECK_DEADLOCK FALSE

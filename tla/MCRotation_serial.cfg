\* Three calls, of which the gateway awaits one at a time.
CONSTANTS
    c1 = c1
    c2 = c2
    c3 = c3
    Calls <- ThreeCalls
    Profiles <- KindsOfTarget
    Serial = TRUE
    Blanks = TRUE
SPECIFICATION Spec
SYMMETRY Symmetry
INVARIANT LeakHasCause
PROPERTY StoreMovesForward
CHECK_DEADLOCK FALSE

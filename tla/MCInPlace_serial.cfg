\* Three calls, of which the gateway awaits one at a time.
CONSTANTS
    c1 = c1
    c2 = c2
    c3 = c3
    Calls <- ThreeCalls
    Kinds <- AllKinds
    Serial = TRUE
SPECIFICATION Spec
SYMMETRY Symmetry
INVARIANT StaleHasCause
PROPERTY RefinesSlot
CHECK_DEADLOCK FALSE

\* Three calls that may overlap.
CONSTANTS
    c1 = c1
    c2 = c2
    c3 = c3
    Calls <- ThreeCalls
    Kinds <- AllKinds
    Serial = FALSE
SPECIFICATION Spec
SYMMETRY Symmetry
INVARIANT TypeOK
INVARIANT AlwaysInForce
INVARIANT StaleMeansOverlap
PROPERTY RefinesSlot
CHECK_DEADLOCK FALSE

\* Three calls that may overlap, and a provider that may or may not roll the refresh
\* token.
CONSTANTS
    c1 = c1
    c2 = c2
    c3 = c3
    Calls <- ThreeCalls
    Modes <- OnlyRefreshToken
    Rolls = FALSE
    Blanks = FALSE
    Serial = FALSE
SPECIFICATION Spec
SYMMETRY Symmetry
INVARIANT StrandedHasCause
CHECK_DEADLOCK FALSE

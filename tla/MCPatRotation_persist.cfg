\* One rotation is enough to see it.
CONSTANTS
    c1 = c1
    c2 = c2
    c3 = c3
    Calls <- TwoCalls
    Modes <- OnlyRefreshToken
    Rolls = TRUE
    Blanks = FALSE
    Serial = TRUE
SPECIFICATION Spec
SYMMETRY Symmetry
PROPERTY PersistedBeforeMint
CHECK_DEADLOCK FALSE

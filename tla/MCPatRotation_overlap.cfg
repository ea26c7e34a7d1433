\* Three calls that may overlap with refresh tokens, each of which is used up by an
\* exchange, and two with the other auth modes; answers without a PAT.
CONSTANTS
    c1 = c1
    c2 = c2
    c3 = c3
    Calls <- ThreeCalls
    Modes <- AllModes
    Rolls = TRUE
    Blanks = TRUE
    Serial = FALSE
SPECIFICATION Spec
SYMMETRY Symmetry
CONSTRAINT ThirdCallSharesTokens
INVARIANT TypeOK
INVARIANT StrandedHasCause
INVARIANT OneMintPerToken
PROPERTY ImplementsRotation
CHECK_DEADLOCK FALSE

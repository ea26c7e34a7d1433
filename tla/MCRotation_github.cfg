\* One target, one call that nothing goes wrong with is enough.
CONSTANTS
    c1 = c1
    c2 = c2
    c3 = c3
    Calls <- TwoCalls
    Profiles <- OnlyGithub
    Serial = TRUE
    Blanks = FALSE
SPECIFICATION Spec
PROPERTY NewStoredBeforeOldRevoked
CHECK_DEADLOCK FALSE

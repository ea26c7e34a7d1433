\* Two calls that may overlap, every target that creates before it deletes.
CONSTANTS
    c1 = c1
    c2 = c2
    c3 = c3
    Calls <- TwoCalls
    Profiles <- CreateFirstTargets
    Serial = FALSE
    Blanks = FALSE
SPECIFICATION FairSpec
PROPERTY RefinesPool
PROPERTY EveryCallEnds
CHECK_DEADLOCK FALSE

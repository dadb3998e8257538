SPECIFICATION FairSpec
CONSTANTS
    Tries = {t1}
    Outers = {o1}
    Immediate = {t1}
    MaxVersion = 1
    MaxSwaps = 1
    None = None
PROPERTIES
    AttemptEnds
CHECK_DEADLOCK FALSE

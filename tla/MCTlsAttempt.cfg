SPECIFICATION Spec
CONSTANTS
    Tries = {t1, t2}
    Outers = {o1, o2}
    Immediate = {t2}
    MaxVersion = 1
    MaxSwaps = 1
    None = None
INVARIANTS
    OuterIsOfLastSwap
    SecondTryUsesRetryConfig
    NeverUnwatched
PROPERTIES
    AbortIsOwnTimeout
SYMMETRY Symmetry
CHECK_DEADLOCK FALSE

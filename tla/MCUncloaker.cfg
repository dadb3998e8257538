SPECIFICATION Spec
CONSTANTS
    Names <- MCNames
    Original <- MCOriginal
    kMultiLabelSuffixes <- MCSuffixes
    Address = Address
    NoRecord = NoRecord
    Malformed = Malformed
    MaxDepth = 4
INVARIANTS
    ChainIsPath
    
    FirstCrossingReported
PROPERTIES
    RequeryAdvances
CHECK_DEADLOCK FALSE

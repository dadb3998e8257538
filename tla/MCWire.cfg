SPECIFICATION AlgorithmsSpec
CONSTANTS
    AddrSpace = 256
    Ceiling = 2
    Ttls = {0, 1, 3}
    MaxRecords = 3
    Labels = {"a", "b"}
    MaxLabels = 3
    MaxRules = 3
    kMaxName = 4
    kMaxPointerHops = 2
    Bytes = {0, 1, 3, 12, 14, 46, 65, 192}
    MaxBytes = 5
    kU16Max = 15
    MaxBlock = 20
    kHeadBuffer = 4
    kMaxBody = 2
    MaxLines = 5
INVARIANTS
    TtlIsLongestAllowed
    RewriteOnlyTtlFields
    MostSpecificWins
    QueriesAskTheName
    ResponsesEchoTheQuestion
    
    PaddedIsWellFormed
    RepliesAreWhole
CHECK_DEADLOCK FALSE

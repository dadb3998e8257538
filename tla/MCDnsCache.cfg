SPECIFICATION FairSpec
CONSTANTS
    AddrSpace = 256
    Ceiling = 86400
    Keys = {k1, k2, k3}
    Nodes = {n1, n2, n3}
    Callers = {io}
    Messages <- MCMessages
    max_entries = 2
    TicksPerSecond = 2
    SourceAddr = 16
    CopyAddr = 96
    MaxClock = 2
    MaxCalls = 3
    Free = Free
    Sweeper = Sweeper
    None = None
INVARIANTS
    LruMatchesMap
    LruIsUseOrder
PROPERTIES
    NoEarlyRemoval
    ImplementsTtlStore
    ExpiredIsRemoved
CHECK_DEADLOCK FALSE

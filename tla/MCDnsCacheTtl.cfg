SPECIFICATION Spec
CONSTANTS
    AddrSpace = 256
    Ceiling = 86400
    Keys = {k1, k2, k3}
    Nodes = {n1, n2, n3}
    Callers = {io}
    Messages <- MCMessages
    max_entries = 2
    TicksPerSecond = 2
    SourceAddr = 16
    CopyAddr = 96
    MaxClock = 3
    MaxCalls = 2
    Free = Free
    Sweeper = Sweeper
    None = None
SYMMETRY Symmetry
INVARIANTS
    HonestTtl
CHECK_DEADLOCK FALSE

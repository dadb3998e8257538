SPECIFICATION FairSpec
CONSTANTS
    Clients = {io, t}
    queue_size = 2
    max_size_bytes = 2
    OpenOutcomes = {TRUE, FALSE}
    ReopenOutcomes = {TRUE, FALSE}
    MaxRecords = 4
    MaxDropped = 1
    MaxClock = 1
    MaxRuns = 2
INVARIANTS
    Accounted
    InOrder
    DurableBetweenBursts
    
PROPERTIES
    QueueIsDrained
    DestructorReturns
CHECK_DEADLOCK FALSE

SPECIFICATION FairSpec
CONSTANTS
    Calls <- MCCalls
    Questions = {1, 2}
    Asked <- MCAsked
    Servers = 2
    retries_on_primary = 1
    Ids = {0, 1}
    Ports = {p1, p2}
    None = None
INVARIANTS
    AnswerIsOwn
    FallbackOrder

    
CHECK_DEADLOCK FALSE

SPECIFICATION FairSpec
CONSTANTS
    Queries = {q1, q2}
    Names <- MCNames
    Target <- MCTarget
    NoTarget = "nowhere"
    Crossing = {"a"}
    Lists <- MCLists
    MaxReloads = 2
INVARIANTS
    ArrivalListDecides
    CachedIsUncloaked
    AnsweredIsLogged

    
CHECK_DEADLOCK FALSE

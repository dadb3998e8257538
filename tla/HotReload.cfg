SPECIFICATION FairSpec
CONSTANTS
    MaxEdits = 2
    MaxSignals = 3
    Inlines = {"none", "good", "bad"}
INVARIANTS
    
    StampMatchesBytes
PROPERTIES
    SignalsAreHandled
CHECK_DEADLOCK FALSE

SPECIFICATION Spec
CONSTANTS
    MaxEdits = 1
    MaxSignals = 1
    Inlines = {"none", "good"}
PROPERTIES
    FailedBootstrapKeepsEch
CHECK_DEADLOCK FALSE

SPECIFICATION Spec
CONSTANTS
    BufLen = 20
    Requests <- Uploads
    Faults = {"short"}
INVARIANT
    OkMeansSaved
CHECK_DEADLOCK FALSE

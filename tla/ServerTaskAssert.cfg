SPECIFICATION Spec
CONSTANTS
    BufLen = 14
    Requests <- Uploads
    Faults = {}
INVARIANT
    FileDataLengthIsZero
CHECK_DEADLOCK FALSE

SPECIFICATION Spec
CONSTANTS
    BufLen = 14
    Requests <- Uploads
    Faults = {}
PROPERTY
    NoDataMeansEof
CHECK_DEADLOCK FALSE

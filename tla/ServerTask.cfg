SPECIFICATION Spec
CONSTANTS
    BufLen = 14
    Requests <- AllRequests
    Faults = {"mkdir", "create", "write"}
INVARIANTS
    TypeOK
    BufferIsWindow
    Progress
    FileIsPrefix
    OkMeansSaved
    CompleteUploadIsStored
PROPERTIES
    NoDataIsEofOrFullBuffer
    ImplementsUpload
    TaskEnds
CHECK_DEADLOCK FALSE

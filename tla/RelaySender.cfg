SPECIFICATION Spec
CONSTANTS
    p = p
    q = q
    s = s
    a = a
    b = b
    None = None
    Conns <- MCConns
    Senders <- MCSenders
    Ids <- MCIds
    Own <- MCOwn
    Shard <- MCShard
    Workers = 3
    OutCap = 1
    MaxRequests = 1
INVARIANTS
    ProbeResponseIsValid
CHECK_DEADLOCK FALSE

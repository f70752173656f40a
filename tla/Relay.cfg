SPECIFICATION FairSpec
CONSTANTS
    p = p
    q = q
    s = s
    a = a
    b = b
    None = None
    Conns <- MCConns
    Senders <- MCSenders
    Ids <- MCIds
    Own <- MCOwn
    Shard <- MCShard
    Workers = 2
    OutCap = 1
    MaxRequests = 1
INVARIANTS
    TypeOK
    RegisteredIsNotRead
    GuardPinsEntry
    NoAckLost
PROPERTIES
    ServedOrBlocked
CHECK_DEADLOCK FALSE

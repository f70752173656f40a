SPECIFICATION Spec
CONSTANTS
    p1 = p1
    p2 = p2
    w1 = w1
    w2 = w2
    None = None
    Probes <- MCProbes
    Writers <- MCWriters
    Plans <- Intact
    PEER_ID_LENGTH_BYTES = 2
    V4Octets = 2
    V6Octets = 3
    MillisBytes = 2
    KeptMillisBytes = 1
    BufferBytes = 10
INVARIANT
    TypeOK
PROPERTIES
    ImplementsDelivery
    ReadEnds
    FrameIsRead
    SenderReturns
CHECK_DEADLOCK FALSE

------------------------------- MODULE Frames -------------------------------
(***************************************************************************)
(* The frames of the relay protocol as bytes: to_be_bytes and parse of     *)
(* RelayFrames and PeerFrames (src/src/relay/frame.rs), PeerId and PeerInfo*)
(* (src/src/relay/peer.rs).  Frames have the shape of one record; an       *)
(* address is its octets, whose number tells IPv4 from IPv6.  The lengths  *)
(* of ids, addresses and round trip times are parameters.                  *)
(***************************************************************************)
EXTENDS Integers, Sequences

CONSTANTS
    PEER_ID_LENGTH_BYTES,   \* 64
    V4Octets, V6Octets,     \* 4 and 16: the octets of an address
    MillisBytes,            \* 16: a round trip time is written as a u128
    KeptMillisBytes         \* 8: and read as a u64

ASSUME LengthsAssumption ==
    /\ {PEER_ID_LENGTH_BYTES, V4Octets, V6Octets, MillisBytes, KeptMillisBytes}
            \subseteq Nat \ {0}
    /\ V4Octets < V6Octets
    /\ KeptMillisBytes <= MillisBytes

Byte == 0 .. 255

\* How many numbers k bytes can hold.
Power[k \in Nat] == IF k = 0 THEN 1 ELSE 256 * Power[k - 1]

(* |operation|code|payload|; data is a peer id or an address.              *)
Frame(op, code, data, rtt) == [op |-> op, code |-> code, data |-> data, rtt |-> rtt]

RelayOperations == [Register |-> 1, Probe |-> 2, DoConnect |-> 3, Ping |-> 4, ProbeAck |-> 5]

PeerOperations ==
    [RegisterResult |-> 21, ProbeResult |-> 22, DoConnectResult |-> 23,
     PingResult |-> 24, Commands |-> 25]

StatusCodes  == [SUCCESS |-> 200, FAILURE |-> 111]
HealthStatus == [HEALTHY |-> 1, UNHEALTHY |-> 2]
PeerCommands == [SYNC |-> 100, DOCONNECT |-> 101]

\* The codes that may follow an operation of the relay.
Codes(op) == CASE op = "PingResult" -> HealthStatus
               [] op = "Commands"   -> PeerCommands
               [] OTHER             -> StatusCodes

WithPeerId == {"Register", "Probe", "DoConnect"}

Address == [1 .. V4Octets -> Byte] \cup [1 .. V6Octets -> Byte]

\* The frames there are.
IsRelayFrame(f) ==
    /\ f = Frame(f.op, "", f.data, 0) /\ f.op \in DOMAIN RelayOperations
    /\ f.data \in IF f.op \in WithPeerId THEN [1 .. PEER_ID_LENGTH_BYTES -> Byte] ELSE {<<>>}

\* A ProbeResult with an address, and the time in which the peer answered.
HasInfo(f) == f.op = "ProbeResult" /\ f.code = "SUCCESS"

IsPeerFrame(f) ==
    /\ f = Frame(f.op, f.code, f.data, f.rtt)
    /\ f.op \in DOMAIN PeerOperations /\ f.code \in DOMAIN Codes(f.op)
    /\ f.data \in IF HasInfo(f) \/ f.code = "DOCONNECT" THEN Address ELSE {<<>>}
    /\ f.rtt \in IF HasInfo(f) THEN 0 .. Power[KeptMillisBytes] - 1 ELSE {0}

-----------------------------------------------------------------------------
(* to_be_bytes.                                                            *)

BigEndian(v, n) == [i \in 1 .. n |-> (v \div Power[n - i]) % 256]

Zeros(n) == [i \in 1 .. n |-> 0]

(* PeerInfo::to_be_bytes: |type|address padded with zeros|milliseconds|.   *)
PeerInfoBytes(ip, rtt) ==
    <<IF Len(ip) = V4Octets THEN 0 ELSE 1>>
        \o ip \o Zeros(V6Octets - Len(ip)) \o BigEndian(rtt, MillisBytes)

RelayFrameBytes(f) == <<RelayOperations[f.op]>> \o f.data

PeerFrameBytes(f) ==
    <<PeerOperations[f.op], Codes(f.op)[f.code]>>
        \o (IF HasInfo(f) THEN PeerInfoBytes(f.data, f.rtt) ELSE f.data)

-----------------------------------------------------------------------------
(* parse.  A result is a frame, "incomplete" (Error::Incomplete) or        *)
(* "invalid" (Error::Other).                                               *)

NoFrame == Frame("none", "", <<>>, 0)

Parsed(f)  == [status |-> "frame", frame |-> f]
Incomplete == [status |-> "incomplete", frame |-> NoFrame]
Invalid    == [status |-> "invalid", frame |-> NoFrame]

\* try_from(u8) of an enumeration: the names whose byte is b.
Named(enum, b) == {name \in DOMAIN enum : enum[name] = b}

\* The number b[from] .. b[to], most significant byte first.
Number(b, from, to) ==
    LET upTo[i \in from - 1 .. to] == IF i < from THEN 0 ELSE 256 * upTo[i - 1] + b[i]
    IN  upTo[to]

\* Mutant of ParsePeerId: one byte too few is enough.
ParseShortPeerId(op, b) ==
    IF Len(b) < PEER_ID_LENGTH_BYTES THEN Incomplete
    ELSE Parsed(Frame(op, "", SubSeq(b, 2, Len(b)), 0))

\* Mutant of ParsePeerId: one byte more has to be there.
ParseLongPeerId(op, b) ==
    IF Len(b) <= 1 + PEER_ID_LENGTH_BYTES THEN Incomplete
    ELSE Parsed(Frame(op, "", SubSeq(b, 2, 1 + PEER_ID_LENGTH_BYTES), 0))

(* PeerId::try_from.                                                       *)
ParsePeerId(op, b) ==
    IF Len(b) < 1 + PEER_ID_LENGTH_BYTES THEN Incomplete
    ELSE Parsed(Frame(op, "", SubSeq(b, 2, 1 + PEER_ID_LENGTH_BYTES), 0))

ParseRelayFrame(b) ==
    IF b = <<>> THEN Incomplete
    ELSE IF Named(RelayOperations, b[1]) = {} THEN Invalid
    ELSE LET op == CHOOSE o \in Named(RelayOperations, b[1]) : TRUE
         IN  IF op \in WithPeerId THEN ParsePeerId(op, b) ELSE Parsed(Frame(op, "", <<>>, 0))

(* PeerInfo::try_from: the address type comes first at b[3].  The id is    *)
(* not transmitted; of the milliseconds the low bytes are kept.            *)
ParsePeerInfo(b) ==
    LET end == 3 + V6Octets + MillisBytes
        rtt == Number(b, end - KeptMillisBytes + 1, end)
        Info(n) == Parsed(Frame("ProbeResult", "SUCCESS", SubSeq(b, 4, 3 + n), rtt))
    IN  IF Len(b) < end THEN Incomplete
        ELSE CASE b[3] = 0 -> Info(V4Octets)
               [] b[3] = 1 -> Info(V6Octets)
               [] OTHER    -> Invalid

(* The parser of DOCONNECT reads an IPv4 address, whatever was written.    *)
ParseDoConnect(b) ==
    IF Len(b) < 2 + V4Octets THEN Incomplete
    ELSE Parsed(Frame("Commands", "DOCONNECT", SubSeq(b, 3, 2 + V4Octets), 0))

ParsePeerFrame(b) ==
    IF b = <<>> THEN Incomplete
    ELSE IF Named(PeerOperations, b[1]) = {} THEN Invalid
    ELSE IF Len(b) < 2 THEN Incomplete
    ELSE LET op == CHOOSE o \in Named(PeerOperations, b[1]) : TRUE
         IN  IF Named(Codes(op), b[2]) = {} THEN Invalid
             ELSE LET code == CHOOSE c \in Named(Codes(op), b[2]) : TRUE
                  IN  CASE op = "ProbeResult" /\ code = "SUCCESS" -> ParsePeerInfo(b)
                        [] code = "DOCONNECT" -> ParseDoConnect(b)
                        [] OTHER -> Parsed(Frame(op, code, <<>>, 0))
=============================================================================

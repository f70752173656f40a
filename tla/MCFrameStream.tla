--------------------------- MODULE MCFrameStream ---------------------------
(* Plans for TLC: every frame of both directions, then what a connection   *)
(* carries after a registration.  Ids have 2 bytes, addresses 2 or 3.      *)
EXTENDS FrameStream

CONSTANTS p1, p2, w1, w2

MCProbes  == {p1, p2}
MCWriters == {w1, w2}

Id     == <<5, 0>>     \* an id may begin with the byte of an operation
V4     == <<10, 7>>
V6     == <<32, 1, 9>>
WithId(op) == Frame(op, "", Id, 0)
Plain(op)  == Frame(op, "", <<>>, 0)
Code(op, code) == Frame(op, code, <<>>, 0)

RelayFrames == {WithId(op) : op \in WithPeerId} \cup {Plain("Ping"), Plain("ProbeAck")}

PeerFrames ==
    {Code(op, code) : op \in {"RegisterResult", "DoConnectResult"}, code \in DOMAIN StatusCodes}
        \cup {Code("PingResult", code) : code \in DOMAIN HealthStatus}
        \cup {Code("ProbeResult", "FAILURE"), Code("Commands", "SYNC")}
        \cup {Frame("ProbeResult", "SUCCESS", ip, rtt) : ip \in {V4, V6}, rtt \in {0, 255}}
        \cup {Frame("Commands", "DOCONNECT", ip, 0) : ip \in {V4, V6}}

Plan(end, first, second, probes) ==
    [end |-> end, writes |-> [x \in MCWriters |-> IF x = w1 THEN first ELSE second],
     probes |-> probes]

\* The relay's side: one peer writes, one connection and its probes read.
Acks == <<Plain("ProbeAck"), Plain("ProbeAck")>>
ToRelay ==
    {Plan("relay", <<f>>, <<>>, {}) : f \in RelayFrames}
        \cup {Plan("relay", <<WithId("Register")>> \o Acks, <<>>, {p1, p2})}
        \cup {Plan("relay", <<WithId("Register"), f, Plain("ProbeAck")>>, <<>>, {p1}) :
                 f \in RelayFrames}

\* The peer's side: the connection's own task and another one write.
ToPeer ==
    {Plan("peer", <<f>>, <<g>>, {}) :
        f \in PeerFrames, g \in {Code("Commands", "SYNC"), Frame("Commands", "DOCONNECT", V4, 0)}}

Intact == ToRelay \cup ToPeer

\* A Sender that has registered probes somebody while two others probe it.
SenderProbed == {Plan("relay", <<WithId("Register"), WithId("Probe")>>, <<>>, {p1, p2})}

ASSUME SoundAssumption == \A p \in Intact : Sound(p)
ASSUME TornAssumption == \A p \in SenderProbed : ~Sound(p)
=============================================================================

------------------------- MODULE FrameStreamProofs -------------------------
(* Proofs about FrameStream, for every set of plans, probes and writers,   *)
(* every length of ids and addresses and every way in which the bytes are  *)
(* cut: its types, and that it implements Delivery step by step.           *)
EXTENDS FrameStream, FramesProofs, FiniteSetTheorems

-----------------------------------------------------------------------------
(* What the codec promises to a reader that gets a frame in pieces.        *)

LEMMA ParseStatus ==
    ASSUME NEW b
    PROVE  Parse(b).status \in {"frame", "incomplete", "invalid"}
<1>1. /\ Incomplete.status = "incomplete" /\ Invalid.status = "invalid"
      /\ \A f : Parsed(f).status = "frame"
  BY DEF Incomplete, Invalid, Parsed
<1>2. ParseRelayFrame(b).status \in {"frame", "incomplete", "invalid"}
  <2>1. \A op : ParsePeerId(op, b).status \in {"frame", "incomplete"}
    BY <1>1 DEF ParsePeerId
  <2> HIDE DEF Incomplete, Invalid, Parsed
  <2> QED
    BY <1>1, <2>1 DEF ParseRelayFrame
<1>3. ParsePeerFrame(b).status \in {"frame", "incomplete", "invalid"}
  <2>1. ParsePeerInfo(b).status \in {"frame", "incomplete", "invalid"}
    BY <1>1 DEF ParsePeerInfo
  <2>2. ParseDoConnect(b).status \in {"frame", "incomplete"}
    BY <1>1 DEF ParseDoConnect
  <2> QED
    BY <1>1, <2>1, <2>2 DEF ParsePeerFrame
<1> QED
  BY <1>2, <1>3 DEF Parse

(* A whole frame is read, with whatever comes behind it, and nothing less. *)
Framed(f) ==
    /\ Bytes(f) \in Seq(Byte)
    /\ Len(Bytes(Received(f))) \in 1 .. Len(Bytes(f))
    /\ SubSeq(Bytes(f), 1, Len(Bytes(Received(f)))) = Bytes(Received(f))
    /\ \A tail \in Seq(Byte) : Parse(Bytes(Received(f)) \o tail) = Parsed(Received(f))
    /\ \A n \in 0 .. Len(Bytes(Received(f))) - 1 : Parse(SubSeq(Bytes(f), 1, n)) = Incomplete

LEMMA WholeFrame ==
    ASSUME NEW s \in Seq(Byte)
    PROVE  SubSeq(s, 1, Len(s)) = s
BY SubSeqFull

LEMMA FirstOfConcat ==
    ASSUME NEW S, NEW h \in Seq(S), NEW d \in Seq(S), NEW n \in 0 .. Len(d)
    PROVE  SubSeq(h \o d, 1, Len(h) + n) = h \o SubSeq(d, 1, n)
<1>1. Len(h) \in Nat /\ Len(d) \in Nat
  BY LenProperties
<1>2. PICK s \in Seq(S), v \in Seq(S) : s = h \o d /\ v = SubSeq(d, 1, n) /\ Len(v) = n
  <2>1. h \o d \in Seq(S)
    BY ConcatProperties
  <2>2. SubSeq(d, 1, n) \in Seq(S) /\ Len(SubSeq(d, 1, n)) = n
    BY FirstBytes
  <2> QED
    BY <2>1, <2>2
<1>3. /\ Len(s) = Len(h) + Len(d)
      /\ \A i \in 1 .. Len(h) + Len(d) : s[i] = IF i <= Len(h) THEN h[i] ELSE d[i - Len(h)]
  BY <1>2, ConcatProperties
<1>4. PICK m \in 0 .. Len(s) : m = Len(h) + n
  BY <1>1, <1>3
<1>5. /\ SubSeq(s, 1, m) \in Seq(S) /\ Len(SubSeq(s, 1, m)) = m
      /\ \A i \in 1 .. m : SubSeq(s, 1, m)[i] = s[i]
  BY FirstBytes
<1>6. /\ h \o v \in Seq(S) /\ Len(h \o v) = m
      /\ \A i \in 1 .. m : (h \o v)[i] = IF i <= Len(h) THEN h[i] ELSE v[i - Len(h)]
  BY <1>2, <1>4, ConcatProperties
<1>7. \A i \in 1 .. n : v[i] = d[i]
  BY <1>2, FirstBytes
<1>8. \A i \in 1 .. m : SubSeq(s, 1, m)[i] = (h \o v)[i]
  BY <1>1, <1>3, <1>4, <1>5, <1>6, <1>7
<1>9. SubSeq(s, 1, m) = h \o v
  BY <1>5, <1>6, <1>8, SeqEqual
<1> QED
  BY <1>2, <1>4, <1>9

LEMMA RelayFramed ==
    ASSUME plan.end = "relay", NEW f, IsRelayFrame(f)
    PROVE  /\ Framed(f) /\ Received(f) = f
           /\ Len(Bytes(f)) = IF f.op \in WithPeerId THEN 1 + PEER_ID_LENGTH_BYTES ELSE 1
<1>1. PICK op : op = f.op
  OBVIOUS
<1>2. PICK d : d = f.data
  OBVIOUS
<1>3. /\ op \in DOMAIN RelayOperations /\ d \in RelayPayload(op)
      /\ f = Frame(op, "", d, 0)
  BY <1>1, <1>2 DEF IsRelayFrame, RelayPayload, Octets
<1>4. /\ Received(f) = f /\ Bytes(f) = RelayFrameBytes(f)
      /\ \A b : Parse(b) = ParseRelayFrame(b)
  BY DEF Received, Shortened, Bytes, Parse
<1>5. PICK h : h = <<RelayOperations[op]>>
  OBVIOUS
<1>6. h \in Seq(Byte) /\ Len(h) = 1
  BY <1>3, <1>5, RelayOperationOf, OneByte
<1>7. /\ d \in Seq(Byte) /\ Len(d) \in Nat
      /\ op \in WithPeerId => Len(d) = PEER_ID_LENGTH_BYTES
      /\ op \notin WithPeerId => Len(d) = 0
  BY <1>3, RelayPayloadLength, LenProperties
<1>8. RelayFrameBytes(f) = h \o d
  BY <1>5, <1>1, <1>2 DEF RelayFrameBytes
<1>9. h \o d \in Seq(Byte) /\ Len(h \o d) = 1 + Len(d)
  <2>1. h \in Seq(Byte)
    BY <1>6
  <2>2. d \in Seq(Byte)
    BY <1>7
  <2>3. h \o d \in Seq(Byte) /\ Len(h \o d) = Len(h) + Len(d)
    BY <2>1, <2>2, ConcatProperties
  <2> QED
    BY <1>6, <2>3
<1>10. Bytes(f) \in Seq(Byte) /\ Len(Bytes(f)) = 1 + Len(d)
  BY <1>4, <1>8, <1>9
<1>11. SubSeq(Bytes(f), 1, Len(Bytes(f))) = Bytes(f)
  BY <1>10, WholeFrame
<1>12. \A tail \in Seq(Byte) : Parse(Bytes(f) \o tail) = Parsed(f)
  BY <1>3, <1>4, RelayRoundTrip
<1>13. \A n \in 0 .. Len(Bytes(f)) - 1 : Parse(SubSeq(Bytes(f), 1, n)) = Incomplete
  <2>1. \A n \in 0 .. Len(d) : ParseRelayFrame(SubSeq(RelayFrameBytes(Frame(op, "", d, 0)), 1, n)) = Incomplete
    BY <1>3, RelayPrefix
  <2>2. 0 .. Len(Bytes(f)) - 1 = 0 .. Len(d)
    BY <1>7, <1>10
  <2> QED
    BY <1>3, <1>4, <2>1, <2>2
<1>14. Len(Bytes(f)) \in 1 .. Len(Bytes(f))
  BY <1>7, <1>10
<1> QED
  BY <1>4, <1>7, <1>10, <1>11, <1>12, <1>13, <1>14, <1>1, Lengths DEF Framed

LEMMA FirstOctets ==
    ASSUME NEW ip \in Address
    PROVE  /\ SubSeq(ip, 1, V4Octets) \in Address
           /\ Len(SubSeq(ip, 1, V4Octets)) = V4Octets
           /\ SubSeq(SubSeq(ip, 1, V4Octets), 1, V4Octets) = SubSeq(ip, 1, V4Octets)
<1>1. ip \in Seq(Byte) /\ Len(ip) \in {V4Octets, V6Octets}
  BY AddressLength
<1>2. V4Octets \in 0 .. Len(ip)
  BY <1>1, Lengths
<1>3. PICK v : v = SubSeq(ip, 1, V4Octets)
  OBVIOUS
<1>4. v \in Seq(Byte) /\ Len(v) = V4Octets
  BY <1>1, <1>2, <1>3, FirstBytes
<1>5. v \in [1 .. V4Octets -> Byte]
  <2>1. v \in [1 .. Len(v) -> Byte]
    BY <1>4
  <2> QED
    BY <1>4, <2>1
<1>6. SubSeq(v, 1, V4Octets) = v
  BY <1>4, WholeFrame
<1> QED
  BY <1>3, <1>4, <1>5, <1>6 DEF Address

LEMMA PeerBytes ==
    ASSUME NEW op \in DOMAIN PeerOperations, NEW code \in DOMAIN Codes(op),
           NEW d \in Seq(Byte), NEW h, h = <<PeerOperations[op], Codes(op)[code]>>
    PROVE  h \o d \in Seq(Byte) /\ Len(h \o d) = 2 + Len(d)
<1>1. PeerOperations[op] \in Byte /\ Codes(op)[code] \in Byte
  BY PeerOperationOf, CodeOf
<1>2. h \in Seq(Byte) /\ Len(h) = 2
  BY <1>1, TwoBytes
<1>3. h \in Seq(Byte)
  BY <1>2
<1>4. h \o d \in Seq(Byte) /\ Len(h \o d) = Len(h) + Len(d)
  BY <1>3, ConcatProperties
<1> QED
  BY <1>2, <1>4

LEMMA PeerFramed ==
    ASSUME plan.end = "peer", NEW f, IsPeerFrame(f)
    PROVE  Framed(f)
<1>1. /\ \A g : Bytes(g) = PeerFrameBytes(g)
      /\ \A b : Parse(b) = ParsePeerFrame(b)
  BY DEF Bytes, Parse
<1>2. PICK op, code, d, rtt : op = f.op /\ code = f.code /\ d = f.data /\ rtt = f.rtt
  OBVIOUS
<1>3. /\ f = Frame(op, code, d, rtt)
      /\ op \in DOMAIN PeerOperations /\ code \in DOMAIN Codes(op)
  BY <1>2 DEF IsPeerFrame
<1>4. PICK h : h = <<PeerOperations[op], Codes(op)[code]>>
  OBVIOUS
<1>5. CASE HasInfo(f)
  <2>1. /\ op = "ProbeResult" /\ code = "SUCCESS" /\ d \in Address
        /\ rtt \in 0 .. Power[KeptMillisBytes] - 1 /\ rtt \in Nat
    BY <1>2, <1>5, PowerPositive, Lengths DEF IsPeerFrame, HasInfo
  <2>2. Received(f) = f
    BY <1>2, <2>1 DEF Received, Shortened
  <2>3. PICK p \in Seq(Byte) : p = PeerInfoBytes(d, rtt) /\ Len(p) = 1 + V6Octets + MillisBytes
    BY <2>1, PeerInfoLayout
  <2>4. Bytes(f) = h \o p
    BY <1>1, <1>2, <1>4, <1>5, <2>3 DEF PeerFrameBytes
  <2>5. h \o p \in Seq(Byte) /\ Len(h \o p) = 2 + Len(p)
    BY <1>3, <1>4, PeerBytes
  <2>6. Bytes(f) \in Seq(Byte) /\ Len(Bytes(f)) \in Nat /\ Len(Bytes(f)) = 3 + V6Octets + MillisBytes
    BY <2>3, <2>4, <2>5, Lengths
  <2>7. SubSeq(Bytes(f), 1, Len(Bytes(f))) = Bytes(f) /\ Len(Bytes(f)) \in 1 .. Len(Bytes(f))
    BY <2>6, WholeFrame, Lengths
  <2>8. \A tail \in Seq(Byte) : Parse(Bytes(f) \o tail) = Parsed(f)
    BY <1>1, <1>3, <2>1, ProbeResultRoundTrip
  <2>9. \A n \in 0 .. Len(Bytes(f)) - 1 : Parse(SubSeq(Bytes(f), 1, n)) = Incomplete
    <3>1. d \in PeerPayload(op, code) /\ 1 + PayloadLength(op, code) = Len(Bytes(f)) - 1
      BY <2>1, <2>6, Lengths DEF PeerPayload, HasPayload, PayloadLength
    <3>2. \A n \in 0 .. 1 + PayloadLength(op, code) :
             ParsePeerFrame(SubSeq(PeerFrameBytes(Frame(op, code, d, rtt)), 1, n)) = Incomplete
      BY <1>3, <2>1, <3>1, PeerPrefix
    <3> QED
      BY <1>1, <1>3, <3>1, <3>2
  <2> QED
    BY <2>2, <2>6, <2>7, <2>8, <2>9 DEF Framed
<1>6. CASE code = "DOCONNECT"
  <2>1. op = "Commands"
    BY <1>3, <1>6 DEF Codes, HealthStatus, StatusCodes, PeerCommands
  <2>2. rtt = 0 /\ d \in Address /\ ~HasInfo(f)
    BY <1>2, <1>6 DEF IsPeerFrame, HasInfo
  <2>3. PICK v : v = SubSeq(d, 1, V4Octets)
    OBVIOUS
  <2>4. v \in Address /\ Len(v) = V4Octets /\ SubSeq(v, 1, V4Octets) = v
    BY <2>2, <2>3, FirstOctets
  <2>5. PICK g : g = Received(f)
    OBVIOUS
  <2>6. g = Frame(op, code, v, rtt)
    <3>1. Received(f) = [f EXCEPT !.data = SubSeq(@, 1, V4Octets)]
      BY <1>2, <1>6 DEF Received, Shortened
    <3> QED
      BY <1>3, <2>3, <2>5, <3>1 DEF Frame
  <2>7. /\ d \in Seq(Byte) /\ v \in Seq(Byte) /\ Len(d) \in Nat /\ V4Octets <= Len(d)
        /\ V4Octets \in Nat \ {0}
    BY <2>2, <2>4, AddressLength, Lengths
  <2>8. Bytes(f) = h \o d
    BY <1>1, <1>2, <1>4, <2>2 DEF PeerFrameBytes
  <2>9. Bytes(g) = h \o v
    BY <1>1, <1>4, <2>1, <2>6 DEF PeerFrameBytes, HasInfo, Frame
  <2>10. /\ h \o d \in Seq(Byte) /\ Len(h \o d) = 2 + Len(d)
         /\ h \o v \in Seq(Byte) /\ Len(h \o v) = 2 + Len(v)
    BY <1>3, <1>4, <2>7, PeerBytes
  <2>11. /\ Bytes(f) \in Seq(Byte) /\ Len(Bytes(f)) = 2 + Len(d)
         /\ Bytes(g) \in Seq(Byte) /\ Len(Bytes(g)) = 2 + V4Octets
    BY <2>4, <2>8, <2>9, <2>10
  <2>12. SubSeq(Bytes(f), 1, Len(Bytes(g))) = Bytes(g)
    <3>1. h \in Seq(Byte) /\ Len(h) = 2
      <4>1. PeerOperations[op] \in Byte /\ Codes(op)[code] \in Byte
        BY <1>3, PeerOperationOf, CodeOf
      <4> QED
        BY <1>4, <4>1, TwoBytes
    <3>2. h \in Seq(Byte) /\ V4Octets \in 0 .. Len(d)
      BY <2>7, <3>1
    <3>3. SubSeq(h \o d, 1, Len(h) + V4Octets) = h \o SubSeq(d, 1, V4Octets)
      BY <2>7, <3>2, FirstOfConcat
    <3> QED
      BY <2>3, <2>8, <2>9, <2>11, <3>1, <3>3
  <2>13. \A tail \in Seq(Byte) : Parse(Bytes(g) \o tail) = Parsed(g)
    <3> SUFFICES ASSUME NEW tail \in Seq(Byte) PROVE Parse(Bytes(g) \o tail) = Parsed(g)
      OBVIOUS
    <3>1. ParsePeerFrame(PeerFrameBytes(Frame("Commands", "DOCONNECT", v, 0)) \o tail)
             = Parsed(Frame("Commands", "DOCONNECT", SubSeq(v, 1, V4Octets), 0))
      BY <2>4, DoConnectRoundTrip
    <3> QED
      BY <1>1, <1>6, <2>1, <2>2, <2>4, <2>6, <3>1
  <2>14. \A n \in 0 .. Len(Bytes(g)) - 1 : Parse(SubSeq(Bytes(f), 1, n)) = Incomplete
    <3>1. d \in PeerPayload(op, code) /\ 1 + PayloadLength(op, code) = Len(Bytes(g)) - 1
      BY <1>6, <2>1, <2>2, <2>7, <2>11 DEF PeerPayload, HasPayload, PayloadLength
    <3>2. \A n \in 0 .. 1 + PayloadLength(op, code) :
             ParsePeerFrame(SubSeq(PeerFrameBytes(Frame(op, code, d, rtt)), 1, n)) = Incomplete
      BY <1>3, <2>2, <3>1, PeerPrefix
    <3> QED
      BY <1>1, <1>3, <3>1, <3>2
  <2>15. Len(Bytes(g)) \in 1 .. Len(Bytes(f))
    BY <2>7, <2>11
  <2> QED
    BY <2>5, <2>11, <2>12, <2>13, <2>14, <2>15 DEF Framed
<1>7. CASE ~HasInfo(f) /\ code # "DOCONNECT"
  <2>1. d = <<>> /\ rtt = 0 /\ ~HasPayload(op, code)
    BY <1>2, <1>7 DEF IsPeerFrame, HasInfo, HasPayload
  <2>2. Received(f) = f
    BY <1>2, <1>7 DEF Received, Shortened
  <2>3. Bytes(f) = h \o <<>>
    BY <1>1, <1>2, <1>4, <1>7, <2>1 DEF PeerFrameBytes
  <2>4. <<>> \in Seq(Byte) /\ Len(<<>>) = 0
    BY EmptySeq
  <2>5. h \o <<>> \in Seq(Byte) /\ Len(h \o <<>>) = 2 + Len(<<>>)
    BY <1>3, <1>4, <2>4, PeerBytes
  <2>6. Bytes(f) \in Seq(Byte) /\ Len(Bytes(f)) = 2
    BY <2>3, <2>4, <2>5
  <2>7. SubSeq(Bytes(f), 1, Len(Bytes(f))) = Bytes(f) /\ Len(Bytes(f)) \in 1 .. Len(Bytes(f))
    BY <2>6, WholeFrame
  <2>8. \A tail \in Seq(Byte) : Parse(Bytes(f) \o tail) = Parsed(f)
    BY <1>1, <1>3, <2>1, PeerCodeRoundTrip
  <2>9. \A n \in 0 .. Len(Bytes(f)) - 1 : Parse(SubSeq(Bytes(f), 1, n)) = Incomplete
    <3>1. d \in PeerPayload(op, code) /\ PayloadLength(op, code) = 0
      BY <2>1 DEF PeerPayload, HasPayload, PayloadLength
    <3>2. \A n \in 0 .. 1 + PayloadLength(op, code) :
             ParsePeerFrame(SubSeq(PeerFrameBytes(Frame(op, code, d, rtt)), 1, n)) = Incomplete
      BY <1>3, <2>1, <3>1, PeerPrefix
    <3> QED
      BY <1>1, <1>3, <2>6, <3>1, <3>2
  <2> QED
    BY <2>2, <2>6, <2>7, <2>8, <2>9 DEF Framed
<1> QED
  BY <1>5, <1>6, <1>7

(* Every frame of a plan.                                                  *)
LEMMA EveryFrameFramed ==
    ASSUME plan \in Plans, NEW f \in Written(plan)
    PROVE  /\ Framed(f)
           /\ plan.end = "relay" =>
                 /\ Received(f) = f
                 /\ Len(Bytes(f)) = IF f.op \in WithPeerId THEN 1 + PEER_ID_LENGTH_BYTES ELSE 1
<1>1. /\ plan.end \in {"relay", "peer"}
      /\ IF plan.end = "relay" THEN IsRelayFrame(f) ELSE IsPeerFrame(f)
  BY PlansAssumption
<1>2. CASE plan.end = "relay"
  BY <1>1, <1>2, RelayFramed
<1>3. CASE plan.end = "peer"
  BY <1>1, <1>3, PeerFramed
<1> QED
  BY <1>1, <1>2, <1>3

-----------------------------------------------------------------------------
(* Types.                                                                  *)

Types ==
    /\ TypeOK
    /\ todo \in [Writers -> Seq(Written(plan))]
    /\ buf \in [Readers -> Seq(Byte)] /\ got = [r \in Readers |-> got[r]]

LEMMA Sizes ==
    /\ PEER_ID_LENGTH_BYTES \in Nat \ {0} /\ BufferBytes \in Nat \ {0}
    /\ \A r \in Readers : r = Conn \/ r \in Probes
    /\ Conn \in Readers /\ Conn \notin Probes
BY LengthsAssumption, BufferAssumption, ReadersAssumption DEF Readers

\* What a call of parse_frame leaves behind.
LEMMA ParseCases ==
    ASSUME NEW r, NEW b, ParseFrame(r, b)
    PROVE  /\ buf' = [buf EXCEPT ![r] = b]
           /\ \/ /\ Parse(b).status = "frame"
                 /\ pc' = [pc EXCEPT ![r] = "idle"] /\ got' = [got EXCEPT ![r] = Parse(b)]
              \/ /\ Parse(b).status = "incomplete"
                 /\ pc' = [pc EXCEPT ![r] = "wants"] /\ got' = got
              \/ /\ Parse(b).status = "invalid"
                 /\ pc' = [pc EXCEPT ![r] = OnError] /\ got' = [got EXCEPT ![r] = Parse(b)]
<1>1. PICK p : p = Parse(b)
  OBVIOUS
<1>2. p.status \in {"frame", "incomplete", "invalid"}
  BY <1>1, ParseStatus
<1>3. /\ buf' = [buf EXCEPT ![r] = b]
      /\ CASE p.status = "frame"      -> Goto(r, "idle") /\ got' = [got EXCEPT ![r] = p]
           [] p.status = "incomplete" -> Goto(r, "wants") /\ UNCHANGED got
           [] p.status = "invalid"    -> Goto(r, OnError) /\ got' = [got EXCEPT ![r] = p]
  BY <1>1 DEF ParseFrame
<1> QED
  BY <1>1, <1>2, <1>3 DEF Goto

\* A part of a sequence of bytes.
LEMMA Part ==
    ASSUME NEW S, NEW s \in Seq(S), NEW m \in Nat \ {0}, NEW n \in Nat, n <= Len(s)
    PROVE  /\ SubSeq(s, m, n) \in Seq(S)
           /\ Len(SubSeq(s, m, n)) = IF m <= n THEN n - m + 1 ELSE 0
           /\ \A i \in 1 .. n - m + 1 : SubSeq(s, m, n)[i] = s[m + i - 1]
<1>1. \A i \in m .. n : s[i] \in S
  BY ElementOfSeq
<1> QED
  BY <1>1, SubSeqProperties

LEMMA TypesInit == Init => Types
<1> SUFFICES ASSUME Init PROVE Types
  OBVIOUS
<1>1. plan \in Plans /\ todo = plan.writes
  BY DEF Init
<1>2. plan.writes \in [Writers -> Seq(Written(plan))]
  BY <1>1, PlansAssumption
<1>3. \A w \in Writers : \E n \in 0 .. Len(plan.writes[w]) :
         todo[w] = SubSeq(plan.writes[w], n + 1, Len(plan.writes[w]))
  <2> SUFFICES ASSUME NEW w \in Writers
               PROVE  \E n \in 0 .. Len(plan.writes[w]) :
                         todo[w] = SubSeq(plan.writes[w], n + 1, Len(plan.writes[w]))
    OBVIOUS
  <2>1. PICK s \in Seq(Written(plan)) : s = plan.writes[w]
    BY <1>2
  <2>2. SubSeq(s, 0 + 1, Len(s)) = s /\ 0 \in 0 .. Len(s)
    BY SubSeqFull, LenProperties
  <2> QED
    BY <1>1, <2>1, <2>2
<1>4. <<>> \in Seq(Byte) /\ <<>> \in Seq(Written(plan)) /\ Len(<<>>) = 0
  BY EmptySeq
<1>5. /\ pc \in [Readers -> {"idle", "wants", "reading", "panicked", "returned"}]
      /\ \A r \in Readers : buf[r] = <<>> /\ got[r].status \in Statuses
      /\ buf \in [Readers -> Seq(Byte)] /\ got = [r \in Readers |-> got[r]]
  BY <1>4 DEF Init, Result, Statuses
<1>6. \A r \in Readers : Len(buf[r]) = 0
  BY <1>4, <1>5
<1>7. /\ \A p \in Probes : Len(buf[p]) <= 1 + PEER_ID_LENGTH_BYTES
      /\ Len(buf[Conn]) <= BufferBytes
  BY <1>6, Sizes DEF Readers
<1>8. pos \in 0 .. Len(wire)
  BY <1>4 DEF Init
<1>9. \A r \in Readers : buf[r] \in Seq(Byte)
  BY <1>5
<1> QED
  BY <1>1, <1>2, <1>3, <1>4, <1>5, <1>7, <1>8, <1>9 DEF Init, Types, TypeOK

\* The part of Types about a reader's variables.
ReaderTypes ==
    /\ pc \in [Readers -> {"idle", "wants", "reading", "panicked", "returned"}]
    /\ buf \in [Readers -> Seq(Byte)] /\ got = [r \in Readers |-> got[r]]
    /\ \A r \in Readers : got[r].status \in Statuses
    /\ \A p \in Probes : Len(buf[p]) <= 1 + PEER_ID_LENGTH_BYTES
    /\ Len(buf[Conn]) <= BufferBytes

WriterTypes ==
    /\ plan \in Plans
    /\ \A w \in Writers : \E n \in 0 .. Len(plan.writes[w]) :
          todo[w] = SubSeq(plan.writes[w], n + 1, Len(plan.writes[w]))
    /\ todo \in [Writers -> Seq(Written(plan))]
    /\ order \in Seq(Written(plan)) /\ starts \in Seq(Nat)
    /\ rest \in Seq(Byte) /\ wire \in Seq(Byte)
    /\ writeLock \in Writers \cup {None}

StreamTypes ==
    /\ socket \in {"open", "fin", "rst"} /\ pos \in 0 .. Len(wire)
    /\ readLock \in Readers \cup {None}

LEMMA TypesParts == Types <=> ReaderTypes /\ WriterTypes /\ StreamTypes
<1>1. buf \in [Readers -> Seq(Byte)] => \A r \in Readers : buf[r] \in Seq(Byte)
  OBVIOUS
<1> QED
  BY <1>1 DEF Types, TypeOK, ReaderTypes, WriterTypes, StreamTypes

LEMMA ParseTypes ==
    ASSUME ReaderTypes, NEW r \in Readers, NEW b \in Seq(Byte), ParseFrame(r, b),
           Len(b) <= IF r = Conn THEN BufferBytes ELSE 1 + PEER_ID_LENGTH_BYTES
    PROVE  ReaderTypes'
<1>1. /\ buf' = [buf EXCEPT ![r] = b]
      /\ \/ /\ Parse(b).status = "frame"
            /\ pc' = [pc EXCEPT ![r] = "idle"] /\ got' = [got EXCEPT ![r] = Parse(b)]
         \/ /\ Parse(b).status = "incomplete"
            /\ pc' = [pc EXCEPT ![r] = "wants"] /\ got' = got
         \/ /\ Parse(b).status = "invalid"
            /\ pc' = [pc EXCEPT ![r] = OnError] /\ got' = [got EXCEPT ![r] = Parse(b)]
  BY ParseCases
<1>2. pc' \in [Readers -> {"idle", "wants", "reading", "panicked", "returned"}]
  BY <1>1 DEF ReaderTypes, OnError
<1>3. /\ got' = [q \in Readers |-> got'[q]]
      /\ \A q \in Readers : got'[q].status \in Statuses
  BY <1>1 DEF ReaderTypes, Statuses
<1>4. /\ buf' \in [Readers -> Seq(Byte)]
      /\ \A q \in Readers : buf'[q] = IF q = r THEN b ELSE buf[q]
  BY <1>1 DEF ReaderTypes
<1>5. /\ \A p \in Probes : Len(buf'[p]) <= 1 + PEER_ID_LENGTH_BYTES
      /\ Len(buf'[Conn]) <= BufferBytes
  BY <1>4, Sizes DEF ReaderTypes, Readers
<1> QED
  BY <1>2, <1>3, <1>4, <1>5 DEF ReaderTypes

LEMMA WrittenHead ==
    ASSUME WriterTypes, NEW w \in Writers, todo[w] # <<>>
    PROVE  /\ Head(todo[w]) \in Written(plan) /\ Tail(todo[w]) \in Seq(Written(plan))
           /\ Bytes(Head(todo[w])) \in Seq(Byte)
<1>1. todo[w] \in Seq(Written(plan)) /\ plan \in Plans
  BY DEF WriterTypes
<1>2. Head(todo[w]) \in Written(plan) /\ Tail(todo[w]) \in Seq(Written(plan))
  BY <1>1, HeadTailProperties
<1> QED
  BY <1>1, <1>2, EveryFrameFramed DEF Framed

LEMMA BeginWriteTypes ==
    ASSUME WriterTypes, StreamTypes, NEW w \in Writers, BeginWrite(w)
    PROVE  WriterTypes' /\ StreamTypes'
<1>1. /\ todo[w] # <<>> /\ order' = Append(order, Head(todo[w]))
      /\ rest' = Bytes(Head(todo[w])) /\ todo' = [todo EXCEPT ![w] = Tail(@)]
      /\ writeLock' = w /\ UNCHANGED <<plan, wire, socket, readLock, pos>>
  BY DEF BeginWrite, readerVars
<1>2. /\ Head(todo[w]) \in Written(plan) /\ Tail(todo[w]) \in Seq(Written(plan))
      /\ Bytes(Head(todo[w])) \in Seq(Byte)
  BY <1>1, WrittenHead
<1>3. /\ todo' \in [Writers -> Seq(Written(plan))]
      /\ \A v \in Writers : todo'[v] = IF v = w THEN Tail(todo[w]) ELSE todo[v]
  BY <1>1, <1>2 DEF WriterTypes
<1>4. order' \in Seq(Written(plan)) /\ starts' \in Seq(Nat)
  <2>1. order' \in Seq(Written(plan))
    BY <1>1, <1>2, AppendProperties DEF WriterTypes
  <2>2. starts' = Append(starts, Len(wire)) /\ Len(wire) \in Nat
    BY LenProperties DEF BeginWrite, WriterTypes
  <2>3. starts' \in Seq(Nat)
    BY <2>2, AppendProperties DEF WriterTypes
  <2> QED
    BY <2>1, <2>3
<1>5. \E n \in 0 .. Len(plan.writes[w]) :
         Tail(todo[w]) = SubSeq(plan.writes[w], n + 1, Len(plan.writes[w]))
  <2>1. PICK s \in Seq(Written(plan)) : s = plan.writes[w]
    BY PlansAssumption DEF WriterTypes
  <2>2. PICK n \in 0 .. Len(s) : todo[w] = SubSeq(s, n + 1, Len(s))
    BY <2>1 DEF WriterTypes
  <2>3. Len(s) \in Nat
    BY LenProperties
  <2>4. PICK m \in Nat \ {0} : m = n + 1
    BY <2>3
  <2>5. m <= Len(s)
    BY <1>1, <2>2, <2>3, <2>4, SubSeqEmpty
  <2>6. Tail(SubSeq(s, m, Len(s))) = SubSeq(s, m + 1, Len(s))
    <3>1. PICK k : k = Len(s)
      OBVIOUS
    <3>2. m \in 1 .. Len(s) /\ k \in m .. Len(s)
      BY <2>3, <2>5, <3>1
    <3>3. Tail(SubSeq(s, m, k)) = SubSeq(s, m + 1, k)
      BY <3>2, HeadTailOfSubSeq
    <3> QED
      BY <3>1, <3>3
  <2>7. m \in 0 .. Len(plan.writes[w]) /\ Tail(todo[w]) = SubSeq(plan.writes[w], m + 1, Len(plan.writes[w]))
    BY <2>1, <2>2, <2>3, <2>4, <2>5, <2>6
  <2> QED
    BY <2>7
<1>6. \A v \in Writers : \E n \in 0 .. Len(plan.writes[v]) :
         todo'[v] = SubSeq(plan.writes[v], n + 1, Len(plan.writes[v]))
  BY <1>3, <1>5 DEF WriterTypes
<1> QED
  BY <1>1, <1>2, <1>3, <1>4, <1>6 DEF WriterTypes, StreamTypes

LEMMA WriteBytesTypes ==
    ASSUME WriterTypes, StreamTypes, WriteBytes
    PROVE  WriterTypes' /\ StreamTypes'
<1>1. PICK n \in 1 .. Len(rest) :
         wire' = wire \o SubSeq(rest, 1, n) /\ rest' = SubSeq(rest, n + 1, Len(rest))
  BY DEF WriteBytes
<1>2. /\ writeLock' \in {None, writeLock}
      /\ UNCHANGED <<plan, todo, order, starts, socket, readLock, pos>>
  BY DEF WriteBytes, readerVars
<1>3. wire \in Seq(Byte) /\ rest \in Seq(Byte) /\ Len(rest) \in Nat /\ Len(wire) \in Nat
  BY LenProperties DEF WriterTypes
<1>4. SubSeq(rest, 1, n) \in Seq(Byte) /\ Len(SubSeq(rest, 1, n)) = n
  BY <1>3, FirstBytes
<1>5. rest' \in Seq(Byte)
  BY <1>1, <1>3, Part
<1>6. wire' \in Seq(Byte) /\ Len(wire') = Len(wire) + n
  <2>1. PICK v \in Seq(Byte) : v = SubSeq(rest, 1, n) /\ Len(v) = n
    BY <1>4
  <2>2. wire \o v \in Seq(Byte) /\ Len(wire \o v) = Len(wire) + Len(v)
    BY <1>3, ConcatProperties
  <2> QED
    BY <1>1, <2>1, <2>2
<1>7. pos' \in 0 .. Len(wire')
  BY <1>2, <1>3, <1>6 DEF StreamTypes
<1> QED
  BY <1>2, <1>5, <1>6, <1>7 DEF WriterTypes, StreamTypes

(* What a read adds to the buffer r.                                       *)
LEMMA Grown ==
    ASSUME Types, NEW r \in Readers, NEW n \in 1 .. Room(r), pos + n <= Len(wire)
    PROVE  LET b == buf[r] \o SubSeq(wire, pos + 1, pos + n)
           IN  /\ b \in Seq(Byte) /\ Len(b) = Len(buf[r]) + n
               /\ Len(b) <= IF r = Conn THEN BufferBytes ELSE 1 + PEER_ID_LENGTH_BYTES
               /\ n \in Nat \ {0} /\ pos \in Nat
<1>1. /\ buf[r] \in Seq(Byte) /\ wire \in Seq(Byte)
      /\ Len(buf[r]) \in Nat /\ Len(wire) \in Nat /\ pos \in 0 .. Len(wire)
      /\ Len(buf[r]) <= IF r = Conn THEN BufferBytes ELSE 1 + PEER_ID_LENGTH_BYTES
  BY Sizes, LenProperties DEF Types, TypeOK
<1>2. Len(buf[r]) + n <= IF r = Conn THEN BufferBytes ELSE 1 + PEER_ID_LENGTH_BYTES
  <2>1. CASE r = Conn
    BY <1>1, <2>1, Sizes DEF Room
  <2>2. CASE r # Conn /\ buf[r] = <<>>
    <3>1. Len(buf[r]) = 0
      BY <2>2, EmptySeq
    <3> QED
      BY <2>2, <3>1, Sizes DEF Room
  <2>3. CASE r # Conn /\ buf[r] # <<>>
    BY <1>1, <2>3, Sizes DEF Room
  <2> QED
    BY <2>1, <2>2, <2>3
<1>3. n \in Nat \ {0}
  BY <1>1, Sizes DEF Room
<1>4. PICK v \in Seq(Byte) : v = SubSeq(wire, pos + 1, pos + n) /\ Len(v) = n
  <2>1. PICK m \in Nat \ {0}, k \in Nat : m = pos + 1 /\ k = pos + n
    BY <1>1, <1>3
  <2>2. /\ SubSeq(wire, m, k) \in Seq(Byte)
        /\ Len(SubSeq(wire, m, k)) = IF m <= k THEN k - m + 1 ELSE 0
    BY <1>1, <2>1, Part
  <2> QED
    <3>1. m <= k /\ k - m + 1 = n
      BY <1>1, <1>3, <2>1
    <3> QED
      BY <2>1, <2>2, <3>1
<1>5. buf[r] \o v \in Seq(Byte) /\ Len(buf[r] \o v) = Len(buf[r]) + Len(v)
  BY <1>1, ConcatProperties
<1> QED
  BY <1>1, <1>2, <1>3, <1>4, <1>5

LEMMA ResultTypes ==
    ASSUME ReaderTypes, NEW r \in Readers, NEW status \in {"none", "error"},
           NEW at \in {"idle", "panicked", "returned"},
           got' = [got EXCEPT ![r] = Result(status)], Goto(r, at), UNCHANGED buf
    PROVE  ReaderTypes'
<1>1. /\ got' = [q \in Readers |-> got'[q]]
      /\ \A q \in Readers : got'[q].status \in Statuses
  BY DEF ReaderTypes, Result, Statuses
<1>2. pc' \in [Readers -> {"idle", "wants", "reading", "panicked", "returned"}]
  BY DEF ReaderTypes, Goto
<1> QED
  BY <1>1, <1>2 DEF ReaderTypes

LEMMA TypesStep == Types /\ [Next]_vars => Types'
<1> SUFFICES ASSUME Types, [Next]_vars PROVE Types'
  OBVIOUS
<1>1. ReaderTypes /\ WriterTypes /\ StreamTypes
  BY TypesParts
<1>2. SUFFICES ReaderTypes' /\ WriterTypes' /\ StreamTypes'
  BY TypesParts, PTL
<1>3. ASSUME NEW w \in Writers, BeginWrite(w)
      PROVE  ReaderTypes' /\ WriterTypes' /\ StreamTypes'
  BY <1>1, <1>3, BeginWriteTypes DEF BeginWrite, readerVars, ReaderTypes
<1>4. CASE WriteBytes
  BY <1>1, <1>4, WriteBytesTypes DEF WriteBytes, readerVars, ReaderTypes
<1>5. CASE WriterEnds
  BY <1>1, <1>5 DEF WriterEnds, writeVars, readerVars, ReaderTypes, WriterTypes, StreamTypes
<1>6. ASSUME NEW r \in Readers, TakeLock(r)
      PROVE  ReaderTypes' /\ WriterTypes' /\ StreamTypes'
  BY <1>1, <1>6 DEF TakeLock, Goto, writeVars, ReaderTypes, WriterTypes, StreamTypes
<1>7. ASSUME NEW r \in Readers, Call(r)
      PROVE  ReaderTypes' /\ WriterTypes' /\ StreamTypes'
  <2>1. /\ ParseFrame(r, IF r = Conn THEN buf[r] ELSE <<>>)
        /\ UNCHANGED <<plan, writeVars, socket, readLock, pos>>
    BY <1>7 DEF Call
  <2>2. PICK b \in Seq(Byte) :
           /\ b = IF r = Conn THEN buf[r] ELSE <<>>
           /\ Len(b) <= IF r = Conn THEN BufferBytes ELSE 1 + PEER_ID_LENGTH_BYTES
    <3>1. CASE r = Conn
      BY <1>1, <3>1 DEF ReaderTypes
    <3>2. CASE r # Conn
      <4>1. <<>> \in Seq(Byte) /\ Len(<<>>) <= 1 + PEER_ID_LENGTH_BYTES
        BY EmptySeq, Sizes
      <4> QED
        BY <3>2, <4>1
    <3> QED
      BY <3>1, <3>2
  <2>3. ReaderTypes'
    BY <1>1, <2>1, <2>2, ParseTypes
  <2> QED
    BY <1>1, <2>1, <2>3 DEF writeVars, WriterTypes, StreamTypes
<1>8. ASSUME NEW r \in Readers, ReadBytes(r)
      PROVE  ReaderTypes' /\ WriterTypes' /\ StreamTypes'
  <2>1. PICK n \in 1 .. Room(r) :
           /\ pos + n <= Len(wire) /\ pos' = pos + n
           /\ ParseFrame(r, buf[r] \o SubSeq(wire, pos + 1, pos + n))
    BY <1>8 DEF ReadBytes
  <2>2. readLock' = None /\ UNCHANGED <<plan, writeVars, socket>>
    BY <1>8 DEF ReadBytes
  <2>3. PICK b \in Seq(Byte) :
           /\ b = buf[r] \o SubSeq(wire, pos + 1, pos + n)
           /\ Len(b) <= IF r = Conn THEN BufferBytes ELSE 1 + PEER_ID_LENGTH_BYTES
           /\ n \in Nat \ {0} /\ pos \in Nat
    BY <2>1, Grown
  <2>4. ReaderTypes'
    BY <1>1, <2>1, <2>3, ParseTypes
  <2>5. pos' \in 0 .. Len(wire')
    <3>1. Len(wire) \in Nat /\ wire' = wire
      BY <1>1, <2>2, LenProperties DEF WriterTypes, writeVars
    <3> QED
      BY <2>1, <2>3, <3>1
  <2> QED
    BY <1>1, <2>2, <2>4, <2>5 DEF writeVars, WriterTypes, StreamTypes
<1>9. ASSUME NEW r \in Readers, ReadEof(r)
      PROVE  ReaderTypes' /\ WriterTypes' /\ StreamTypes'
  <2>1. PICK status \in {"none", "error"}, at \in {"idle", "panicked", "returned"} :
           got' = [got EXCEPT ![r] = Result(status)] /\ Goto(r, at) /\ UNCHANGED buf
    BY <1>9 DEF ReadEof, EofResult, OnError
  <2>2. ReaderTypes'
    BY <1>1, <2>1, ResultTypes
  <2> QED
    BY <1>1, <1>9, <2>2 DEF ReadEof, writeVars, WriterTypes, StreamTypes
<1>10. ASSUME NEW r \in Readers, ReadReset(r)
       PROVE  ReaderTypes' /\ WriterTypes' /\ StreamTypes'
  <2>1. PICK at \in {"idle", "panicked", "returned"} :
           got' = [got EXCEPT ![r] = Result("error")] /\ Goto(r, at) /\ UNCHANGED buf
    BY <1>10 DEF ReadReset, OnError
  <2>2. ReaderTypes'
    BY <1>1, <2>1, ResultTypes
  <2> QED
    BY <1>1, <1>10, <2>2 DEF ReadReset, writeVars, WriterTypes, StreamTypes
<1>11. CASE UNCHANGED vars
  BY <1>1, <1>11 DEF vars, writeVars, readerVars, ReaderTypes, WriterTypes, StreamTypes
<1> QED
  BY <1>3, <1>4, <1>5, <1>6, <1>7, <1>8, <1>9, <1>10, <1>11 DEF Next, ReaderStep

(* A stream and its buffers have their types and sizes in every state: no  *)
(* reader gets more bytes than were written, and no buffer outgrows its    *)
(* capacity, a probe's one frame with an id (framehelper.rs:17-43,         *)
(* connection.rs, relay.rs:183).                                           *)
THEOREM TypeCorrect == Spec => []TypeOK
<1>1. Types => TypeOK
  BY DEF Types
<1> QED
  BY TypesInit, TypesStep, <1>1, PTL DEF Spec

-----------------------------------------------------------------------------
(* Where the frames lie in the stream.                                     *)

\* Where the k-th frame ends, and how far the parser needs it.
Bound(k) == starts[k] + Len(Bytes(order[k]))
Need(k)  == starts[k] + Len(Bytes(Received(order[k])))

\* One frame lies behind the other, and what is not written is of the last.
Layout ==
    /\ starts \in Seq(Nat) /\ Len(starts) = Len(order)
    /\ order = <<>> => wire = <<>> /\ rest = <<>>
    /\ order # <<>> => /\ starts[1] = 0 /\ starts[Len(order)] <= Len(wire)
                       /\ Bound(Len(order)) = Len(wire) + Len(rest)
    /\ \A k \in DOMAIN order : k + 1 \in DOMAIN order => starts[k + 1] = Bound(k)
    /\ \A j, k \in DOMAIN order : j < k => Bound(j) <= starts[k]
    /\ rest # <<>> => writeLock # None

Contents ==
    \A k \in DOMAIN order : \A i \in 1 .. Len(Bytes(order[k])) :
       (wire \o rest)[starts[k] + i] = Bytes(order[k])[i]

LEMMA Lens ==
    ASSUME Types
    PROVE  /\ Len(order) \in Nat /\ DOMAIN order = 1 .. Len(order)
           /\ order = <<>> <=> Len(order) = 0
           /\ Len(wire) \in Nat /\ Len(rest) \in Nat /\ pos \in 0 .. Len(wire)
           /\ rest = <<>> <=> Len(rest) = 0
           /\ wire = <<>> <=> Len(wire) = 0
           /\ wire \in Seq(Byte) /\ rest \in Seq(Byte) /\ order \in Seq(Written(plan))
           /\ plan \in Plans
<1>1. /\ wire \in Seq(Byte) /\ rest \in Seq(Byte) /\ order \in Seq(Written(plan))
      /\ pos \in 0 .. Len(wire) /\ plan \in Plans
  BY DEF Types, TypeOK
<1> QED
  BY <1>1, LenProperties, EmptySeq

LEMMA FrameFacts ==
    ASSUME Types, Layout, NEW k \in DOMAIN order
    PROVE  /\ order[k] \in Written(plan) /\ Framed(order[k])
           /\ {starts[k], Bound(k), Need(k)} \subseteq Nat
           /\ Len(Bytes(order[k])) \in Nat /\ Bound(k) = starts[k] + Len(Bytes(order[k]))
           /\ starts[k] < Need(k) /\ Need(k) <= Bound(k)
           /\ plan.end = "relay" =>
                 /\ Need(k) = Bound(k)
                 /\ order[k].op \in WithPeerId => Bound(k) = starts[k] + 1 + PEER_ID_LENGTH_BYTES
                 /\ order[k].op \notin WithPeerId => Bound(k) = starts[k] + 1
<1>1. k \in 1 .. Len(order) /\ k \in 1 .. Len(starts) /\ starts \in Seq(Nat)
  BY Lens DEF Layout
<1>2. order[k] \in Written(plan) /\ starts[k] \in Nat
  BY <1>1, Lens, ElementOfSeq
<1>3. PICK f \in Written(plan) : f = order[k]
  BY <1>2
<1>4. /\ Framed(f)
      /\ plan.end = "relay" =>
            /\ Received(f) = f
            /\ Len(Bytes(f)) = IF f.op \in WithPeerId THEN 1 + PEER_ID_LENGTH_BYTES ELSE 1
  BY Lens, EveryFrameFramed
<1>5. Len(Bytes(f)) \in Nat /\ Len(Bytes(Received(f))) \in 1 .. Len(Bytes(f))
  BY <1>4, LenProperties DEF Framed
<1>6. Bound(k) = starts[k] + Len(Bytes(f)) /\ Need(k) = starts[k] + Len(Bytes(Received(f)))
  BY <1>3 DEF Bound, Need
<1>7. /\ {starts[k], Bound(k), Need(k)} \subseteq Nat
      /\ starts[k] < Need(k) /\ Need(k) <= Bound(k)
  BY <1>2, <1>5, <1>6
<1>8. plan.end = "relay" =>
         /\ Need(k) = Bound(k)
         /\ f.op \in WithPeerId => Bound(k) = starts[k] + 1 + PEER_ID_LENGTH_BYTES
         /\ f.op \notin WithPeerId => Bound(k) = starts[k] + 1
  <2>1. CASE plan.end = "relay"
    <3>1. Received(f) = f
      BY <1>4, <2>1
    <3>2. /\ f.op \in WithPeerId => Len(Bytes(f)) = 1 + PEER_ID_LENGTH_BYTES
          /\ f.op \notin WithPeerId => Len(Bytes(f)) = 1
      BY <1>4, <2>1
    <3>3. Need(k) = Bound(k)
      BY <1>6, <3>1
    <3>4. PICK x \in Nat, z \in Nat : x = starts[k] /\ z = PEER_ID_LENGTH_BYTES
      BY <1>2, Sizes
    <3>5. x + (1 + z) = x + 1 + z
      OBVIOUS
    <3>6. f.op \in WithPeerId => Bound(k) = starts[k] + 1 + PEER_ID_LENGTH_BYTES
      BY <1>6, <3>2, <3>4, <3>5
    <3>7. f.op \notin WithPeerId => Bound(k) = starts[k] + 1
      BY <1>6, <3>2
    <3> QED
      BY <3>3, <3>6, <3>7
  <2> QED
    BY <2>1
<1> QED
  BY <1>3, <1>4, <1>5, <1>6, <1>7, <1>8

LEMMA SameFrames ==
    ASSUME UNCHANGED <<plan, order, starts>>
    PROVE  /\ \A k : Bound(k)' = Bound(k) /\ Need(k)' = Need(k)
           /\ \A f : Bytes(f)' = Bytes(f) /\ Received(f)' = Received(f)
           /\ \A b : Parse(b)' = Parse(b)
BY DEF Bound, Need, Bytes, Received, Shortened, Parse

\* What BeginWrite appends.
LEMMA OneMore ==
    ASSUME Types, Layout, NEW w \in Writers, BeginWrite(w),
           NEW n, n = Len(order) + 1, NEW f, f = Head(todo[w])
    PROVE  /\ f \in Written(plan) /\ Framed(f) /\ rest = <<>>
           /\ order' \in Seq(Written(plan)) /\ Len(order') = n
           /\ starts' \in Seq(Nat) /\ Len(starts') = n
           /\ \A k \in DOMAIN order : order'[k] = order[k] /\ starts'[k] = starts[k]
           /\ order'[n] = f /\ starts'[n] = Len(wire)
           /\ \A k \in DOMAIN order : Bound(k)' = Bound(k) /\ Need(k)' = Need(k)
           /\ Bound(n)' = Len(wire) + Len(Bytes(f))
           /\ Need(n)' = Len(wire) + Len(Bytes(Received(f)))
           /\ rest' = Bytes(f) /\ UNCHANGED <<plan, wire>>
<1>1. /\ todo[w] # <<>> /\ writeLock = None
      /\ order' = Append(order, Head(todo[w])) /\ starts' = Append(starts, Len(wire))
      /\ rest' = Bytes(Head(todo[w])) /\ UNCHANGED <<plan, wire>>
  BY DEF BeginWrite
<1>2. f \in Written(plan)
  BY <1>1, WrittenHead, TypesParts
<1>3. Framed(f)
  BY <1>2, EveryFrameFramed, Lens
<1>4. rest = <<>>
  BY <1>1 DEF Layout
<1>5. /\ order \in Seq(Written(plan)) /\ Len(order) \in Nat
      /\ starts \in Seq(Nat) /\ Len(starts) = Len(order) /\ Len(wire) \in Nat
      /\ DOMAIN order = 1 .. Len(order)
  BY Lens DEF Layout
<1>6. /\ order' \in Seq(Written(plan)) /\ Len(order') = n
      /\ \A k \in DOMAIN order : order'[k] = order[k]
      /\ order'[n] = f
  BY <1>1, <1>2, <1>5, AppendProperties
<1>7. /\ starts' \in Seq(Nat) /\ Len(starts') = n
      /\ \A k \in DOMAIN order : starts'[k] = starts[k]
      /\ starts'[n] = Len(wire)
  BY <1>1, <1>5, AppendProperties
<1>8. \A k \in DOMAIN order : Bound(k)' = Bound(k) /\ Need(k)' = Need(k)
  BY <1>1, <1>6, <1>7 DEF Bound, Need, Bytes, Received, Shortened
<1>9. /\ Bound(n)' = Len(wire) + Len(Bytes(f))
      /\ Need(n)' = Len(wire) + Len(Bytes(Received(f)))
  BY <1>1, <1>6, <1>7 DEF Bound, Need, Bytes, Received, Shortened
<1> QED
  BY <1>1, <1>2, <1>3, <1>4, <1>6, <1>7, <1>8, <1>9

LEMMA BeginWriteLayout ==
    ASSUME Types, Layout, Contents, NEW w \in Writers, BeginWrite(w)
    PROVE  Layout' /\ Contents'
<1>1. PICK L, n, f : L = Len(order) /\ n = L + 1 /\ f = Head(todo[w])
  OBVIOUS
<1>2. /\ Framed(f) /\ rest = <<>>
      /\ order' \in Seq(Written(plan)) /\ Len(order') = n
      /\ starts' \in Seq(Nat) /\ Len(starts') = n
      /\ \A k \in DOMAIN order : order'[k] = order[k] /\ starts'[k] = starts[k]
      /\ order'[n] = f /\ starts'[n] = Len(wire)
      /\ \A k \in DOMAIN order : Bound(k)' = Bound(k) /\ Need(k)' = Need(k)
      /\ Bound(n)' = Len(wire) + Len(Bytes(f))
      /\ rest' = Bytes(f) /\ UNCHANGED <<plan, wire>>
  BY <1>1, OneMore
<1>3. /\ L \in Nat /\ n = L + 1 /\ DOMAIN order = 1 .. L /\ DOMAIN order' = 1 .. n
      /\ order' # <<>>
  BY <1>1, <1>2, Lens, LenProperties, EmptySeq
<1>4. /\ Len(wire) \in Nat /\ Len(rest) = 0 /\ Bytes(f) \in Seq(Byte) /\ Len(Bytes(f)) \in Nat
      /\ wire \in Seq(Byte)
  BY <1>2, Lens, LenProperties DEF Framed
<1>5. \A k \in DOMAIN order : /\ starts[k] \in Nat /\ Bound(k) \in Nat
                              /\ starts[k] <= Bound(k) /\ Bound(k) <= Len(wire)
                              /\ Bound(k) = starts[k] + Len(Bytes(order[k]))
  <2> SUFFICES ASSUME NEW k \in DOMAIN order
               PROVE  /\ starts[k] \in Nat /\ Bound(k) \in Nat
                      /\ starts[k] <= Bound(k) /\ Bound(k) <= Len(wire)
                      /\ Bound(k) = starts[k] + Len(Bytes(order[k]))
    OBVIOUS
  <2>1. /\ starts[k] \in Nat /\ Bound(k) \in Nat /\ starts[k] <= Bound(k)
        /\ Bound(k) = starts[k] + Len(Bytes(order[k]))
    BY FrameFacts
  <2>2. Bound(L) = Len(wire) /\ starts[L] <= Len(wire)
    BY <1>1, <1>3, <1>4, Lens DEF Layout
  <2>3. k < L => Bound(k) <= starts[L]
    BY <1>3 DEF Layout
  <2>4. starts[L] \in Nat
    BY <1>3, FrameFacts
  <2> QED
    BY <1>3, <1>4, <2>1, <2>2, <2>3, <2>4
<1>6. starts'[1] = 0
  <2>1. CASE L = 0
    BY <1>1, <1>2, <2>1, Lens DEF Layout
  <2>2. CASE L # 0
    <3>1. order # <<>> /\ 1 \in DOMAIN order
      BY <1>1, <1>3, <2>2, Lens
    <3> QED
      BY <1>2, <3>1 DEF Layout
  <2> QED
    BY <2>1, <2>2
<1>7. \A k \in DOMAIN order' : k + 1 \in DOMAIN order' => starts'[k + 1] = Bound(k)'
  <2> SUFFICES ASSUME NEW k \in 1 .. L PROVE starts'[k + 1] = Bound(k)'
    BY <1>3
  <2>1. CASE k = L
    <3>1. order # <<>> /\ k \in DOMAIN order /\ k + 1 = n /\ Len(rest) = 0 /\ Len(wire) \in Nat
      BY <1>1, <1>3, <1>4, <2>1, Lens
    <3>2. Bound(k) = Len(wire)
      BY <1>1, <2>1, <3>1 DEF Layout
    <3> QED
      BY <1>2, <3>1, <3>2
  <2>2. CASE k # L
    <3>1. k \in DOMAIN order /\ k + 1 \in DOMAIN order
      BY <1>3, <2>2
    <3> QED
      BY <1>2, <3>1 DEF Layout
  <2> QED
    BY <2>1, <2>2
<1>8. \A j, k \in DOMAIN order' : j < k => Bound(j)' <= starts'[k]
  <2> SUFFICES ASSUME NEW j \in 1 .. n, NEW k \in 1 .. n, j < k
               PROVE  Bound(j)' <= starts'[k]
    BY <1>3
  <2>1. j \in 1 .. L /\ Bound(j)' = Bound(j)
    <3>1. j \in 1 .. L /\ j \in DOMAIN order
      BY <1>3
    <3> QED
      BY <1>2, <3>1
  <2>2. CASE k = n
    BY <1>2, <1>3, <1>5, <2>1, <2>2
  <2>3. CASE k # n
    <3>1. j \in DOMAIN order /\ k \in DOMAIN order
      BY <1>3, <2>1, <2>3
    <3> QED
      BY <1>2, <2>1, <3>1 DEF Layout
  <2> QED
    BY <2>2, <2>3
<1>9. rest' # <<>> => writeLock' # None
  BY ReadersAssumption DEF BeginWrite
<1>10. Bound(Len(order))' = Len(wire') + Len(rest') /\ starts'[Len(order')] <= Len(wire')
  BY <1>1, <1>2, <1>4
<1>11. Layout'
  BY <1>1, <1>2, <1>3, <1>6, <1>7, <1>8, <1>9, <1>10 DEF Layout
<1>12. ASSUME NEW k \in DOMAIN order', NEW i \in 1 .. Len(Bytes(order[k])')
       PROVE  (wire' \o rest')[starts'[k] + i] = (Bytes(order[k])')[i]
  <2>1. PICK t \in Seq(Byte) : t = Bytes(f)
    BY <1>4
  <2>2. \A m \in 1 .. Len(wire) + Len(t) :
           (wire \o t)[m] = IF m <= Len(wire) THEN wire[m] ELSE t[m - Len(wire)]
    BY <1>4, ConcatProperties
  <2>3. CASE k = n
    <3>1. Bytes(order[k])' = t /\ starts'[k] = Len(wire)
      BY <1>2, <2>1, <2>3 DEF Bytes
    <3> QED
      BY <1>2, <1>4, <1>12, <2>1, <2>2, <3>1
  <2>4. CASE k # n
    <3>1. k \in DOMAIN order /\ order'[k] = order[k] /\ starts'[k] = starts[k]
      BY <1>2, <1>3, <2>4
    <3>2. Bytes(order[k])' = Bytes(order[k])
      BY <1>2, <3>1 DEF Bytes
    <3>3. (wire \o rest)[starts[k] + i] = Bytes(order[k])[i]
      BY <1>12, <3>1, <3>2 DEF Contents
    <3>4. wire \o rest = wire
      BY <1>2, <1>4, ConcatEmptySeq
    <3>5. starts[k] + i \in 1 .. Len(wire)
      BY <1>4, <1>5, <1>12, <3>1, <3>2
    <3> QED
      BY <1>2, <1>4, <2>1, <2>2, <3>1, <3>2, <3>3, <3>4, <3>5
  <2> QED
    BY <2>3, <2>4
<1> QED
  BY <1>11, <1>12 DEF Contents

LEMMA WriteBytesLayout ==
    ASSUME Types, Layout, Contents, WriteBytes
    PROVE  /\ Layout' /\ Contents' /\ UNCHANGED <<plan, order, starts>>
           /\ Len(wire) < Len(wire') /\ order # <<>>
           /\ \A i \in 1 .. Len(wire) : wire'[i] = wire[i]
<1>1. PICK n \in 1 .. Len(rest) :
         wire' = wire \o SubSeq(rest, 1, n) /\ rest' = SubSeq(rest, n + 1, Len(rest))
  BY DEF WriteBytes
<1>2. /\ writeLock' = IF rest' = <<>> THEN None ELSE writeLock
      /\ UNCHANGED <<plan, order, starts>>
  BY DEF WriteBytes
<1>3. wire \in Seq(Byte) /\ rest \in Seq(Byte) /\ Len(rest) \in Nat /\ Len(wire) \in Nat
  BY Lens
<1>4. PICK v \in Seq(Byte), t \in Seq(Byte) :
         /\ v = SubSeq(rest, 1, n) /\ Len(v) = n
         /\ t = SubSeq(rest, n + 1, Len(rest)) /\ Len(t) = Len(rest) - n
  <2>1. SubSeq(rest, 1, n) \in Seq(Byte) /\ Len(SubSeq(rest, 1, n)) = n
    BY <1>3, FirstBytes
  <2>2. PICK m \in Nat \ {0}, k \in Nat : m = n + 1 /\ k = Len(rest)
    <3>1. n + 1 \in Nat \ {0} /\ Len(rest) \in Nat
      BY <1>3
    <3> QED
      BY <3>1
  <2>3. /\ SubSeq(rest, m, k) \in Seq(Byte)
        /\ Len(SubSeq(rest, m, k)) = IF m <= k THEN k - m + 1 ELSE 0
    BY <1>3, <2>2, Part
  <2>4. Len(SubSeq(rest, m, k)) = Len(rest) - n
    BY <1>3, <2>2, <2>3
  <2> QED
    BY <2>1, <2>2, <2>3, <2>4
<1>5. v \o t = rest
  <2>1. PICK m, k : m = 1 /\ k = Len(rest)
    OBVIOUS
  <2>2. m \in 1 .. Len(rest) + 1 /\ n \in m - 1 .. Len(rest) /\ k \in n .. Len(rest)
    BY <1>3, <2>1
  <2>3. SubSeq(rest, m, n) \o SubSeq(rest, n + 1, k) = SubSeq(rest, m, k)
    BY <1>3, <2>2, ConcatAdjacentSubSeq
  <2>4. SubSeq(rest, m, k) = rest
    BY <1>3, <2>1, SubSeqFull
  <2> QED
    BY <1>4, <2>1, <2>3, <2>4
<1>6. wire' \o rest' = wire \o rest
  <2>1. wire \in Seq(Byte)
    BY <1>3
  <2>2. (wire \o v) \o t = wire \o (v \o t)
    BY <2>1, ConcatAssociative
  <2> QED
    BY <1>1, <1>4, <1>5, <2>2
<1>7. Len(wire') = Len(wire) + n /\ Len(rest') = Len(rest) - n
  <2>1. Len(wire \o v) = Len(wire) + Len(v)
    BY <1>3, ConcatProperties
  <2> QED
    BY <1>1, <1>4, <2>1
<1>8. \A i \in 1 .. Len(wire) : wire'[i] = wire[i]
  <2>1. \A i \in 1 .. Len(wire) + Len(v) :
           (wire \o v)[i] = IF i <= Len(wire) THEN wire[i] ELSE v[i - Len(wire)]
    BY <1>3, ConcatProperties
  <2> QED
    BY <1>1, <1>3, <1>4, <2>1
<1>9. /\ \A k : Bound(k)' = Bound(k)
      /\ \A f : Bytes(f)' = Bytes(f)
  BY <1>2, SameFrames
<1>10. rest # <<>> /\ order # <<>>
  <2>1. Len(rest) # 0
    BY <1>3
  <2> QED
    BY <2>1, Lens DEF Layout
<1>11. starts[Len(order)] \in Nat /\ Bound(Len(order)) = Len(wire) + Len(rest)
  <2>1. Len(order) \in DOMAIN order
    BY <1>10, Lens
  <2> QED
    BY <1>10, <2>1, FrameFacts DEF Layout
<1>12. starts'[Len(order')] <= Len(wire') /\ Bound(Len(order))' = Len(wire') + Len(rest')
  <2>1. starts[Len(order)] <= Len(wire)
    BY <1>10 DEF Layout
  <2>2. Bound(Len(order))' = Bound(Len(order))
    BY <1>2 DEF Bound, Bytes
  <2> QED
    BY <1>2, <1>3, <1>7, <1>11, <2>1, <2>2
<1>13. rest' # <<>> => writeLock' # None
  BY <1>2, <1>10 DEF Layout
<1>14. Layout'
  BY <1>2, <1>9, <1>10, <1>12, <1>13 DEF Layout
<1>15. Contents'
  <2>1. ASSUME NEW k \in DOMAIN order', NEW i \in 1 .. Len(Bytes(order[k])')
        PROVE  (wire' \o rest')[starts'[k] + i] = (Bytes(order[k])')[i]
    <3>1. Bytes(order[k])' = Bytes(order[k]) /\ starts'[k] = starts[k] /\ k \in DOMAIN order
      BY <1>2, <2>1 DEF Bytes
    <3>2. (wire \o rest)[starts[k] + i] = Bytes(order[k])[i]
      BY <2>1, <3>1 DEF Contents
    <3> QED
      BY <1>6, <3>1, <3>2
  <2> QED
    BY <2>1 DEF Contents
<1> QED
  BY <1>2, <1>3, <1>7, <1>8, <1>10, <1>14, <1>15

-----------------------------------------------------------------------------
(* How many frames are complete.                                           *)

\* After n bytes the parser can have the first m frames and not the next.
Counts(n, m) ==
    /\ m \in 0 .. Len(order)
    /\ m > 0 => Need(m) <= n
    /\ m < Len(order) => n < Need(m + 1)

LEMMA NeedGrows ==
    ASSUME Types, Layout, NEW j \in DOMAIN order, NEW k \in DOMAIN order, j < k
    PROVE  Need(j) < Need(k) /\ Bound(j) < Need(k)
<1>1. Bound(j) <= starts[k]
  BY DEF Layout
<1>2. /\ {Bound(j), Need(j), Need(k), starts[k]} \subseteq Nat
      /\ Need(j) <= Bound(j) /\ starts[k] < Need(k)
  BY FrameFacts
<1> QED
  BY <1>1, <1>2

LEMMA CompleteIs ==
    ASSUME Types, Layout, NEW n \in Nat, NEW m, Counts(n, m)
    PROVE  Complete(n) = m
<1>1. m \in 0 .. Len(order) /\ DOMAIN order = 1 .. Len(order) /\ Len(order) \in Nat
  BY Lens DEF Counts
<1>2. \A k \in DOMAIN order : Need(k) <= n <=> k <= m
  <2> SUFFICES ASSUME NEW k \in DOMAIN order PROVE Need(k) <= n <=> k <= m
    OBVIOUS
  <2>1. Need(k) \in Nat
    BY FrameFacts
  <2>2. CASE k <= m
    <3>1. m \in DOMAIN order /\ Need(m) <= n
      BY <1>1, <2>2 DEF Counts
    <3>2. Need(m) \in Nat
      BY <3>1, FrameFacts
    <3>3. k = m \/ Need(k) < Need(m)
      BY <1>1, <2>2, <3>1, NeedGrows
    <3> QED
      BY <2>1, <2>2, <3>1, <3>2, <3>3
  <2>3. CASE ~(k <= m)
    <3>1. m + 1 \in DOMAIN order /\ n < Need(m + 1)
      BY <1>1, <2>3 DEF Counts
    <3>2. Need(m + 1) \in Nat
      BY <3>1, FrameFacts
    <3>3. k = m + 1 \/ Need(m + 1) < Need(k)
      BY <1>1, <2>3, <3>1, NeedGrows
    <3> QED
      BY <2>1, <2>3, <3>1, <3>2, <3>3
  <2> QED
    BY <2>2, <2>3
<1>3. {k \in DOMAIN order : starts[k] + Len(Bytes(Received(order[k]))) <= n} = 1 .. m
  BY <1>1, <1>2 DEF Need
<1>4. Cardinality(1 .. m) = m
  <2>1. PICK one \in Int : one = 1
    OBVIOUS
  <2>2. Cardinality(one .. m) = IF one > m THEN 0 ELSE m - one + 1
    BY <1>1, FS_Interval
  <2> QED
    BY <1>1, <2>1, <2>2
<1> QED
  BY <1>3, <1>4 DEF Complete

LEMMA CompleteExists ==
    ASSUME Types, Layout, NEW n \in Nat
    PROVE  \E m \in Nat : Counts(n, m) /\ Complete(n) = m
<1>1. DOMAIN order = 1 .. Len(order) /\ Len(order) \in Nat
  BY Lens
<1>2. \A k \in DOMAIN order : Need(k) \in Nat
  BY FrameFacts
<1> DEFINE Later == {k \in DOMAIN order : n < Need(k)}
<1>3. CASE Later = {}
  <2>1. Counts(n, Len(order))
    BY <1>1, <1>2, <1>3 DEF Counts
  <2> QED
    BY <1>1, <2>1, CompleteIs
<1>4. CASE Later # {}
  <2>1. Later \subseteq Nat
    BY <1>1
  <2>2. PICK x \in Later : \A y \in Later : x <= y
    BY <1>4, <2>1, Least
  <2>3. PICK m \in Nat : m = x - 1
    BY <1>1
  <2>4. m > 0 => Need(m) <= n
    <3> SUFFICES ASSUME m > 0 PROVE Need(m) <= n
      OBVIOUS
    <3>1. m \in DOMAIN order /\ m \notin Later
      BY <1>1, <2>2, <2>3
    <3> QED
      BY <1>2, <3>1
  <2>5. m \in 0 .. Len(order) /\ n < Need(m + 1)
    BY <1>1, <2>3
  <2>6. Counts(n, m)
    BY <2>4, <2>5 DEF Counts
  <2> QED
    BY <2>6, CompleteIs
<1> QED
  BY <1>3, <1>4

-----------------------------------------------------------------------------
(* What a reader makes of the bytes from the beginning of a frame.         *)

\* The part of the stream that holds the beginning of the k-th frame.
LEMMA Piece ==
    ASSUME Types, Layout, Contents, NEW k \in DOMAIN order,
           NEW n \in 0 .. Len(Bytes(order[k])), starts[k] + n <= Len(wire)
    PROVE  SubSeq(wire, starts[k] + 1, starts[k] + n) = SubSeq(Bytes(order[k]), 1, n)
<1>1. PICK s \in Nat, g \in Seq(Byte) : s = starts[k] /\ g = Bytes(order[k])
  BY FrameFacts DEF Framed
<1>2. /\ wire \in Seq(Byte) /\ rest \in Seq(Byte) /\ Len(wire) \in Nat
      /\ Len(g) \in Nat /\ n \in 0 .. Len(g)
  BY <1>1, Lens, LenProperties
<1>3. PICK m \in Nat \ {0}, q \in Nat : m = s + 1 /\ q = s + n
  <2>1. s + 1 \in Nat \ {0} /\ s + n \in Nat
    BY <1>2
  <2> QED
    BY <2>1
<1>4. q <= Len(wire)
  BY <1>1, <1>3
<1>5. PICK a \in Seq(Byte) : a = SubSeq(wire, m, q) /\ Len(a) = n /\ \A i \in 1 .. n : a[i] = wire[s + i]
  <2>1. /\ SubSeq(wire, m, q) \in Seq(Byte)
        /\ Len(SubSeq(wire, m, q)) = IF m <= q THEN q - m + 1 ELSE 0
        /\ \A i \in 1 .. q - m + 1 : SubSeq(wire, m, q)[i] = wire[m + i - 1]
    BY <1>2, <1>4, Part
  <2>2. Len(SubSeq(wire, m, q)) = n /\ q - m + 1 = n
    BY <1>2, <1>3, <2>1
  <2>3. \A i \in 1 .. n : SubSeq(wire, m, q)[i] = wire[s + i]
    <3> SUFFICES ASSUME NEW i \in 1 .. n PROVE SubSeq(wire, m, q)[i] = wire[s + i]
      OBVIOUS
    <3>1. m + i - 1 = s + i
      BY <1>3
    <3>2. SubSeq(wire, m, q)[i] = wire[m + i - 1]
      BY <2>1, <2>2
    <3> QED
      BY <3>1, <3>2
  <2> QED
    BY <2>1, <2>2, <2>3
<1>6. /\ SubSeq(g, 1, n) \in Seq(Byte) /\ Len(SubSeq(g, 1, n)) = n
      /\ \A i \in 1 .. n : SubSeq(g, 1, n)[i] = g[i]
  BY <1>2, FirstBytes
<1>7. \A i \in 1 .. n : wire[s + i] = g[i]
  <2> SUFFICES ASSUME NEW i \in 1 .. n PROVE wire[s + i] = g[i]
    OBVIOUS
  <2>1. (wire \o rest)[s + i] = g[i]
    <3>1. i \in 1 .. Len(Bytes(order[k]))
      BY <1>1, <1>2
    <3>2. (wire \o rest)[starts[k] + i] = Bytes(order[k])[i]
      BY <3>1 DEF Contents
    <3> QED
      BY <1>1, <3>2
  <2>2. s + i \in 1 .. Len(wire) /\ Len(rest) \in Nat
    BY <1>2, <1>3, <1>4, Lens
  <2>3. \A j \in 1 .. Len(wire) + Len(rest) :
           (wire \o rest)[j] = IF j <= Len(wire) THEN wire[j] ELSE rest[j - Len(wire)]
    BY <1>2, ConcatProperties
  <2>4. (wire \o rest)[s + i] = wire[s + i]
    BY <1>2, <2>2, <2>3
  <2> QED
    BY <2>1, <2>4
<1>8. a = SubSeq(g, 1, n)
  <2>1. Len(a) = Len(SubSeq(g, 1, n))
    BY <1>5, <1>6
  <2>2. \A i \in 1 .. Len(a) : a[i] = SubSeq(g, 1, n)[i]
    BY <1>5, <1>6, <1>7
  <2> QED
    BY <1>5, <1>6, <2>1, <2>2, SeqEqual
<1> QED
  BY <1>1, <1>3, <1>5, <1>8

LEMMA ParsePartial ==
    ASSUME Types, Layout, Contents, NEW k \in DOMAIN order,
           NEW q \in Nat, starts[k] <= q, q < Need(k), q <= Len(wire)
    PROVE  Parse(SubSeq(wire, starts[k] + 1, q)) = Incomplete
<1>1. Framed(order[k]) /\ starts[k] \in Nat /\ Need(k) = starts[k] + Len(Bytes(Received(order[k])))
  BY FrameFacts DEF Need
<1>2. PICK s \in Nat, b \in Nat, r \in Nat :
         s = starts[k] /\ b = Len(Bytes(order[k])) /\ r = Len(Bytes(Received(order[k])))
  <2>1. Len(Bytes(order[k])) \in Nat /\ Len(Bytes(Received(order[k]))) \in Nat
    BY <1>1, LenProperties DEF Framed
  <2> QED
    BY <1>1, <2>1
<1>3. r \in 1 .. b /\ b \in Nat
  BY <1>1, <1>2, LenProperties DEF Framed
<1>4. PICK n \in 0 .. r - 1 : q = s + n
  <2>1. q - s \in 0 .. r - 1 /\ q = s + (q - s)
    BY <1>1, <1>2, <1>3
  <2> QED
    BY <2>1
<1>5. n \in 0 .. b
  BY <1>3
<1>6. SubSeq(wire, s + 1, s + n) = SubSeq(Bytes(order[k]), 1, n)
  BY <1>2, <1>4, <1>5, Piece
<1>7. Parse(SubSeq(Bytes(order[k]), 1, n)) = Incomplete
  BY <1>1, <1>2 DEF Framed
<1> QED
  BY <1>2, <1>4, <1>6, <1>7

LEMMA ParseWhole ==
    ASSUME Types, Layout, Contents, NEW k \in DOMAIN order,
           NEW q \in Nat, Need(k) <= q, q <= Len(wire)
    PROVE  Parse(SubSeq(wire, starts[k] + 1, q)) = Parsed(Received(order[k]))
<1>1. Framed(order[k]) /\ starts[k] \in Nat /\ Need(k) = starts[k] + Len(Bytes(Received(order[k])))
  BY FrameFacts DEF Need
<1>2. PICK s \in Nat, b \in Nat, r \in Nat :
         s = starts[k] /\ b = Len(Bytes(order[k])) /\ r = Len(Bytes(Received(order[k])))
  <2>1. Len(Bytes(order[k])) \in Nat /\ Len(Bytes(Received(order[k]))) \in Nat
    BY <1>1, LenProperties DEF Framed
  <2> QED
    BY <1>1, <2>1
<1>3. r \in 1 .. b /\ b \in Nat /\ s + r <= Len(wire) /\ wire \in Seq(Byte) /\ Len(wire) \in Nat
  BY <1>1, <1>2, LenProperties, Lens DEF Framed
<1>4. SubSeq(wire, s + 1, s + r) = Bytes(Received(order[k]))
  <2>1. r \in 0 .. Len(Bytes(order[k])) /\ starts[k] + r <= Len(wire)
    BY <1>2, <1>3
  <2>2. SubSeq(wire, starts[k] + 1, starts[k] + r) = SubSeq(Bytes(order[k]), 1, r)
    BY <2>1, Piece
  <2> QED
    BY <1>1, <1>2, <2>2 DEF Framed
<1>5. PICK m, e : m = s + 1 /\ e = s + r
  OBVIOUS
<1>6. /\ m \in 1 .. Len(wire) + 1 /\ e \in m - 1 .. Len(wire) /\ q \in e .. Len(wire)
      /\ e + 1 \in Nat \ {0}
  <2>1. /\ r \in Nat /\ Need(k) = s + r /\ s + 1 \in 1 .. Len(wire) + 1
        /\ s + r \in s .. Len(wire) /\ s + r + 1 \in Nat \ {0}
    BY <1>1, <1>2, <1>3
  <2>2. m - 1 = s
    BY <1>5
  <2> QED
    BY <1>3, <1>5, <2>1, <2>2
<1>7. SubSeq(wire, m, e) \o SubSeq(wire, e + 1, q) = SubSeq(wire, m, q)
  BY <1>3, <1>6, ConcatAdjacentSubSeq
<1>8. SubSeq(wire, e + 1, q) \in Seq(Byte)
  BY <1>3, <1>6, Part
<1>9. Parse(Bytes(Received(order[k])) \o SubSeq(wire, e + 1, q)) = Parsed(Received(order[k]))
  BY <1>1, <1>8 DEF Framed
<1> QED
  BY <1>2, <1>4, <1>5, <1>7, <1>9

-----------------------------------------------------------------------------
(* A reader at a frame: it has the bytes from the beginning of the frame.  *)

AtFrame(r, k) ==
    /\ k \in DOMAIN order
    /\ starts[k] <= pos /\ pos < Need(k)
    /\ buf[r] = SubSeq(wire, starts[k] + 1, pos)

LEMMA BeforeFrame ==
    ASSUME Types, Layout, NEW k \in DOMAIN order, NEW q \in Nat, starts[k] <= q, q < Need(k)
    PROVE  Complete(q) = k - 1
<1>1. k \in 1 .. Len(order) /\ Len(order) \in Nat
  BY Lens
<1>2. PICK m \in Nat : m = k - 1
  BY <1>1
<1>3. m > 0 => Need(m) <= q
  <2> SUFFICES ASSUME m > 0 PROVE Need(m) <= q
    OBVIOUS
  <2>1. m \in DOMAIN order /\ m < k
    BY <1>1, <1>2, Lens
  <2>2. Bound(m) <= starts[k]
    BY <2>1 DEF Layout
  <2>3. {Bound(m), Need(m)} \subseteq Nat /\ Need(m) <= Bound(m) /\ starts[k] \in Nat
    BY <2>1, FrameFacts
  <2> QED
    BY <2>2, <2>3
<1>4. Counts(q, m)
  <2>1. m + 1 = k /\ m \in 0 .. Len(order)
    BY <1>1, <1>2
  <2> QED
    BY <1>3, <2>1 DEF Counts
<1> QED
  BY <1>2, <1>4, CompleteIs

LEMMA AfterFrame ==
    ASSUME Types, Layout, NEW k \in DOMAIN order, NEW q \in Nat, Need(k) <= q
    PROVE  /\ Complete(q) \in k .. Len(order)
           /\ q <= Bound(k) => Complete(q) = k
<1>1. k \in 1 .. Len(order) /\ Len(order) \in Nat
  BY Lens
<1>2. PICK m \in Nat : Counts(q, m) /\ Complete(q) = m
  BY CompleteExists
<1>3. m \in 0 .. Len(order)
  BY <1>2 DEF Counts
<1>4. m >= k
  <2> SUFFICES ASSUME m < k PROVE FALSE
    BY <1>1
  <2>1. m + 1 \in DOMAIN order /\ q < Need(m + 1) /\ m + 1 <= k
    BY <1>1, <1>2, Lens DEF Counts
  <2>2. {Need(m + 1), Need(k)} \subseteq Nat /\ (m + 1 = k \/ Need(m + 1) < Need(k))
    BY <1>1, <2>1, FrameFacts, NeedGrows
  <2> QED
    BY <2>1, <2>2
<1>5. ASSUME q <= Bound(k) PROVE m = k
  <2> SUFFICES ASSUME k < m PROVE FALSE
    BY <1>1, <1>4
  <2>1. m \in DOMAIN order /\ Need(m) <= q
    BY <1>1, <1>2, <1>3, Lens DEF Counts
  <2>2. Bound(k) < Need(m) /\ {Bound(k), Need(m)} \subseteq Nat
    BY <2>1, NeedGrows, FrameFacts
  <2> QED
    BY <1>5, <2>1, <2>2
<1> QED
  BY <1>1, <1>2, <1>3, <1>4, <1>5

(* What a read of n bytes makes of the frame it is at.                     *)
LEMMA ReadAtFrame ==
    ASSUME Types, Layout, Contents, NEW r \in Readers, NEW k, AtFrame(r, k),
           NEW n \in Nat \ {0}, pos + n <= Len(wire),
           NEW b, b = buf[r] \o SubSeq(wire, pos + 1, pos + n)
    PROVE  /\ b = SubSeq(wire, starts[k] + 1, pos + n)
           /\ pos + n < Need(k) => Parse(b) = Incomplete
           /\ Need(k) <= pos + n => Parse(b) = Parsed(Received(order[k]))
<1>1. /\ k \in DOMAIN order /\ starts[k] \in Nat /\ Need(k) \in Nat
      /\ starts[k] <= pos /\ pos < Need(k)
      /\ buf[r] = SubSeq(wire, starts[k] + 1, pos)
  BY FrameFacts DEF AtFrame
<1>2. wire \in Seq(Byte) /\ Len(wire) \in Nat /\ pos \in 0 .. Len(wire)
  BY Lens
<1>3. PICK m, q : m = starts[k] + 1 /\ q = pos + n
  OBVIOUS
<1>4. /\ m \in 1 .. Len(wire) + 1 /\ pos \in m - 1 .. Len(wire) /\ q \in pos .. Len(wire)
      /\ q \in Nat /\ starts[k] <= q
  BY <1>1, <1>2, <1>3
<1>5. SubSeq(wire, m, pos) \o SubSeq(wire, pos + 1, q) = SubSeq(wire, m, q)
  BY <1>2, <1>4, ConcatAdjacentSubSeq
<1>6. b = SubSeq(wire, starts[k] + 1, q)
  BY <1>1, <1>3, <1>5
<1>7. ASSUME q < Need(k) PROVE Parse(b) = Incomplete
  <2>1. q <= Len(wire)
    BY <1>4
  <2> QED
    BY <1>1, <1>4, <1>6, <1>7, <2>1, ParsePartial
<1>8. ASSUME Need(k) <= q PROVE Parse(b) = Parsed(Received(order[k]))
  <2>1. q <= Len(wire)
    BY <1>4
  <2> QED
    BY <1>1, <1>4, <1>6, <1>8, <2>1, ParseWhole
<1> QED
  BY <1>3, <1>6, <1>7, <1>8

\* The bytes written end inside a frame when they end behind its beginning.
LEMMA TornInside ==
    ASSUME Types, Layout, NEW k \in DOMAIN order, starts[k] < Len(wire), Len(wire) < Bound(k)
    PROVE  Torn
<1>1. PICK L : L = Len(order)
  OBVIOUS
<1>2. /\ L \in DOMAIN order /\ k \in 1 .. L /\ L \in Nat /\ order # <<>>
      /\ Len(wire) \in Nat /\ Len(rest) \in Nat
  BY <1>1, Lens
<1>3. /\ starts[L] <= Len(wire) /\ Bound(L) = Len(wire) + Len(rest)
      /\ k < L => Bound(k) <= starts[L]
  BY <1>1, <1>2 DEF Layout
<1>4. /\ {starts[L], Bound(k)} \subseteq Nat
      /\ Len(Bytes(order[L])) \in Nat /\ Bound(L) = starts[L] + Len(Bytes(order[L]))
  BY <1>2, FrameFacts
<1>5. k = L
  BY <1>2, <1>3, <1>4
<1>6. Len(rest) # 0 /\ Len(rest) < Len(Bytes(order[L]))
  BY <1>2, <1>3, <1>4, <1>5
<1> QED
  BY <1>1, <1>6, Lens DEF Torn

LEMMA TornSplits ==
    ASSUME Types, Layout, Torn
    PROVE  \A k \in DOMAIN order : Len(wire) # Bound(k) /\ Len(wire) # 0
<1>1. PICK L : L = Len(order)
  OBVIOUS
<1>2. /\ Len(rest) # 0 /\ Len(wire) \in Nat /\ Len(rest) \in Nat /\ order # <<>>
      /\ Len(rest) < Len(Bytes(order[L]))
  BY <1>1, Lens DEF Torn, Layout
<1>3. L \in DOMAIN order /\ L \in Nat /\ DOMAIN order = 1 .. L
  BY <1>1, <1>2, Lens
<1>4. Bound(L) = Len(wire) + Len(rest)
  BY <1>1, <1>2 DEF Layout
<1>5. /\ starts[L] \in Nat /\ Len(Bytes(order[L])) \in Nat
      /\ Bound(L) = starts[L] + Len(Bytes(order[L]))
  BY <1>3, FrameFacts
<1>6. starts[L] < Len(wire) /\ Len(wire) < Bound(L)
  BY <1>2, <1>4, <1>5
<1>7. \A k \in DOMAIN order : Bound(k) \in Nat /\ (k < L => Bound(k) <= starts[L])
  BY <1>3, FrameFacts DEF Layout
<1> QED
  BY <1>2, <1>3, <1>5, <1>6, <1>7

-----------------------------------------------------------------------------
(* Which bytes have been read.                                             *)

\* Until the connection returns its first frame nobody else reads.
NotYet ==
    /\ buf[Conn] = SubSeq(wire, 1, pos)
    /\ order # <<>> => pos < Need(1)
    /\ \A p \in Probes : pc[p] = "idle"
    /\ plan.end = "relay" => Len(order) <= 1

\* Then either no frame is partly read, or one, by the only probe there is.
Between ==
    /\ \E k \in DOMAIN order : pos = Bound(k)
    /\ \A p \in Probes : Waiting(p) => buf[p] = <<>>

HasBegun(p, k) ==
    /\ AtFrame(p, k) /\ starts[k] < pos
    /\ plan.probes = {p} /\ pc[p] # "idle"

Returned ==
    /\ order # <<>> /\ got[Conn] = Parsed(Received(order[1]))
    /\ Parse(buf[Conn]) = got[Conn] /\ pc[Conn] = "idle" /\ Need(1) <= pos
    /\ plan.end = "relay" => Between \/ \E p \in Probes, k \in DOMAIN order : HasBegun(p, k)

Reading == IF got[Conn].status = "frame" THEN Returned ELSE NotYet

\* Why a probe never gets a part of a frame: it reads alone, or what comes
\* behind the registration has one byte.
OneByteFrames(w) ==
    /\ \A v \in Writers \ {w} : todo[v] = <<>>
    /\ \A n \in DOMAIN todo[w] : n > 1 \/ order # <<>> => todo[w][n].op \notin WithPeerId
    /\ \A k \in DOMAIN order : k > 1 => order[k].op \notin WithPeerId

Sharing ==
    /\ plan.end = "peer" => plan.probes = {}
    /\ plan.end = "relay" => \/ \A p, q \in plan.probes : p = q
                             \/ \E w \in Writers : OneByteFrames(w)
    /\ \A p \in Probes : pc[p] # "idle" => p \in plan.probes

LEMMA LayoutKept ==
    ASSUME Types, Layout, Contents, UNCHANGED <<plan, order, starts, rest, wire, writeLock>>
    PROVE  Layout' /\ Contents'
<1>1. /\ \A k : Bound(k)' = Bound(k)
      /\ \A f : Bytes(f)' = Bytes(f)
  BY SameFrames
<1>2. Bound(Len(order))' = Bound(Len(order))
  BY DEF Bound, Bytes
<1>3. Layout'
  BY <1>1, <1>2 DEF Layout
<1>4. ASSUME NEW k \in DOMAIN order', NEW i \in 1 .. Len(Bytes(order[k])')
      PROVE  (wire' \o rest')[starts'[k] + i] = (Bytes(order[k])')[i]
  <2>1. Bytes(order[k])' = Bytes(order[k]) /\ starts'[k] = starts[k] /\ k \in DOMAIN order
    BY <1>4 DEF Bytes
  <2>2. (wire \o rest)[starts[k] + i] = Bytes(order[k])[i]
    BY <1>4, <2>1 DEF Contents
  <2> QED
    BY <2>1, <2>2
<1> QED
  BY <1>3, <1>4 DEF Contents

LEMMA LayoutStep ==
    ASSUME Types, Layout, Contents, [Next]_vars
    PROVE  Layout' /\ Contents'
<1>1. ASSUME NEW w \in Writers, BeginWrite(w)
      PROVE  Layout' /\ Contents'
  BY <1>1, BeginWriteLayout
<1>2. CASE WriteBytes
  BY <1>2, WriteBytesLayout
<1>3. CASE UNCHANGED <<plan, order, starts, rest, wire, writeLock>>
  BY <1>3, LayoutKept
<1>4. CASE WriterEnds
  BY <1>3, <1>4 DEF WriterEnds, writeVars
<1>5. CASE \E r \in Readers : TakeLock(r) \/ ReaderStep(r)
  BY <1>3, <1>5 DEF TakeLock, ReaderStep, Call, ReadBytes, ReadEof, ReadReset, writeVars
<1>6. CASE UNCHANGED vars
  BY <1>3, <1>6 DEF vars, writeVars
<1> QED
  BY <1>1, <1>2, <1>4, <1>5, <1>6 DEF Next

LEMMA LayoutInit == Init => Layout /\ Contents
<1> SUFFICES ASSUME Init PROVE Layout /\ Contents
  OBVIOUS
<1>1. /\ order = <<>> /\ starts = <<>> /\ rest = <<>> /\ wire = <<>>
      /\ DOMAIN order = {} /\ Len(starts) = Len(order) /\ starts \in Seq(Nat)
  <2>1. order = <<>> /\ starts = <<>> /\ rest = <<>> /\ wire = <<>>
    BY DEF Init
  <2>2. <<>> \in Seq(Nat) /\ Len(<<>>) = 0
    BY EmptySeq
  <2>3. DOMAIN order = 1 .. 0
    BY <2>1, <2>2, LenProperties
  <2> QED
    BY <2>1, <2>2, <2>3
<1> QED
  BY <1>1 DEF Layout, Contents

LEMMA SharingInit ==
    ASSUME Init, \A p \in Plans : Sound(p)
    PROVE  Sharing
<1>1. plan \in Plans /\ todo = plan.writes /\ order = <<>> /\ \A p \in Probes : pc[p] = "idle"
  BY DEF Init, Readers
<1>2. Sound(plan) /\ plan.end \in {"relay", "peer"}
  BY <1>1, PlansAssumption
<1>3. CASE plan.end = "peer"
  BY <1>1, <1>2, <1>3 DEF Sound, Sharing
<1>4. CASE plan.end = "relay"
  <2>1. CASE \A p, q \in plan.probes : p = q
    BY <1>1, <1>4, <2>1 DEF Sharing
  <2>2. CASE ~ \A p, q \in plan.probes : p = q
    <3>1. PICK w \in Writers :
             /\ \A v \in Writers \ {w} : plan.writes[v] = <<>>
             /\ \A n \in DOMAIN plan.writes[w] :
                   n > 1 => plan.writes[w][n].op \notin WithPeerId
      BY <1>2, <1>4, <2>2 DEF Sound
    <3>2. DOMAIN order = {}
      <4>1. <<>> \in Seq(Nat) /\ Len(<<>>) = 0
        BY EmptySeq
      <4>2. DOMAIN order = 1 .. 0
        BY <1>1, <4>1, LenProperties
      <4> QED
        BY <4>2
    <3>3. OneByteFrames(w)
      BY <1>1, <3>1, <3>2 DEF OneByteFrames
    <3> QED
      BY <1>1, <1>4, <3>3 DEF Sharing
  <2> QED
    BY <2>1, <2>2
<1> QED
  BY <1>2, <1>3, <1>4

LEMMA BeginWriteSharing ==
    ASSUME Types, Layout, Sharing, NEW w \in Writers, BeginWrite(w)
    PROVE  Sharing'
<1>1. PICK n, f : n = Len(order) + 1 /\ f = Head(todo[w])
  OBVIOUS
<1>2. /\ Len(order') = n /\ order'[n] = f
      /\ \A k \in DOMAIN order : order'[k] = order[k]
      /\ order' \in Seq(Written(plan))
  BY <1>1, OneMore
<1>3. /\ todo[w] # <<>> /\ todo' = [todo EXCEPT ![w] = Tail(@)] /\ UNCHANGED <<plan, pc>>
      /\ todo \in [Writers -> Seq(Written(plan))]
  BY DEF BeginWrite, readerVars, Types
<1>4. DOMAIN order = 1 .. Len(order) /\ Len(order) \in Nat /\ DOMAIN order' = 1 .. n /\ n \in Nat \ {0}
  BY <1>1, <1>2, Lens, LenProperties
<1>5. PICK t \in Seq(Written(plan)) : t = todo[w] /\ t # <<>>
  BY <1>3
<1>6. /\ Tail(t) \in Seq(Written(plan)) /\ Len(Tail(t)) = Len(t) - 1 /\ Len(t) \in Nat \ {0}
      /\ \A i \in 1 .. Len(Tail(t)) : Tail(t)[i] = t[i + 1]
      /\ f = t[1] /\ DOMAIN t = 1 .. Len(t) /\ DOMAIN Tail(t) = 1 .. Len(t) - 1
  BY <1>1, <1>5, HeadTailProperties, LenProperties, EmptySeq
<1>7. ASSUME NEW v \in Writers, OneByteFrames(v)
      PROVE  OneByteFrames(v)'
  <2>1. v = w
    BY <1>3, <1>7 DEF OneByteFrames
  <2>2. \A u \in Writers \ {w} : todo'[u] = <<>>
    BY <1>3, <1>7, <2>1 DEF OneByteFrames
  <2>3. todo'[w] = Tail(t)
    BY <1>3, <1>5
  <2>4. \A i \in DOMAIN Tail(t) : Tail(t)[i].op \notin WithPeerId
    <3> SUFFICES ASSUME NEW i \in 1 .. Len(t) - 1 PROVE Tail(t)[i].op \notin WithPeerId
      BY <1>6
    <3>1. i + 1 \in DOMAIN t /\ i + 1 > 1 /\ Tail(t)[i] = t[i + 1]
      BY <1>6
    <3> QED
      BY <1>5, <1>7, <2>1, <3>1 DEF OneByteFrames
  <2>5. ASSUME NEW k \in DOMAIN order', k > 1
        PROVE  order'[k].op \notin WithPeerId
    <3>1. CASE k \in DOMAIN order
      BY <1>2, <1>7, <2>5, <3>1 DEF OneByteFrames
    <3>2. CASE k \notin DOMAIN order
      <4>1. k = n /\ order # <<>> /\ 1 \in DOMAIN t
        BY <1>1, <1>4, <1>6, <2>5, <3>2, Lens
      <4> QED
        BY <1>2, <1>5, <1>6, <1>7, <2>1, <4>1 DEF OneByteFrames
    <3> QED
      BY <3>1, <3>2
  <2> QED
    BY <2>1, <2>2, <2>3, <2>4, <2>5 DEF OneByteFrames
<1> QED
  BY <1>3, <1>7 DEF Sharing

\* A stream that grows keeps its parts.
LEMMA SamePart ==
    ASSUME NEW s \in Seq(Byte), NEW t \in Seq(Byte), Len(s) <= Len(t),
           \A i \in 1 .. Len(s) : t[i] = s[i],
           NEW m \in Nat \ {0}, NEW q \in Nat, q <= Len(s)
    PROVE  SubSeq(t, m, q) = SubSeq(s, m, q)
<1>1. Len(s) \in Nat /\ Len(t) \in Nat /\ q <= Len(t)
  BY LenProperties
<1>2. PICK a \in Seq(Byte), b \in Seq(Byte) :
         /\ a = SubSeq(s, m, q) /\ Len(a) = IF m <= q THEN q - m + 1 ELSE 0
         /\ \A i \in 1 .. q - m + 1 : a[i] = s[m + i - 1]
         /\ b = SubSeq(t, m, q) /\ Len(b) = IF m <= q THEN q - m + 1 ELSE 0
         /\ \A i \in 1 .. q - m + 1 : b[i] = t[m + i - 1]
  <2>1. /\ SubSeq(s, m, q) \in Seq(Byte)
        /\ Len(SubSeq(s, m, q)) = IF m <= q THEN q - m + 1 ELSE 0
        /\ \A i \in 1 .. q - m + 1 : SubSeq(s, m, q)[i] = s[m + i - 1]
    BY <1>1, Part
  <2>2. /\ SubSeq(t, m, q) \in Seq(Byte)
        /\ Len(SubSeq(t, m, q)) = IF m <= q THEN q - m + 1 ELSE 0
        /\ \A i \in 1 .. q - m + 1 : SubSeq(t, m, q)[i] = t[m + i - 1]
    BY <1>1, Part
  <2> QED
    BY <2>1, <2>2
<1>3. ASSUME NEW i \in 1 .. Len(b)
      PROVE  b[i] = a[i]
  <2>1. m <= q /\ i \in 1 .. q - m + 1
    BY <1>2, <1>3
  <2>2. m + i - 1 \in 1 .. Len(s)
    BY <1>1, <2>1
  <2> QED
    BY <1>2, <2>1, <2>2
<1>4. b = a
  BY <1>2, <1>3, SeqEqual
<1> QED
  BY <1>2, <1>4

\* What a writer does leaves the readers where they are.
LEMMA ReadersStay ==
    ASSUME Types, Layout, Reading, UNCHANGED <<plan, readerVars>>,
           \A k \in DOMAIN order :
              /\ k \in DOMAIN order' /\ order'[k] = order[k] /\ starts'[k] = starts[k]
              /\ Bound(k)' = Bound(k) /\ Need(k)' = Need(k),
           order = <<>> /\ order' # <<>> => 0 < Need(1)',
           wire' \in Seq(Byte), Len(wire) <= Len(wire'),
           \A i \in 1 .. Len(wire) : wire'[i] = wire[i],
           plan.end = "relay" /\ got[Conn].status # "frame" => Len(order') <= 1
    PROVE  Reading'
<1>1. /\ wire \in Seq(Byte) /\ Len(wire) \in Nat /\ pos \in 0 .. Len(wire)
      /\ DOMAIN order = 1 .. Len(order) /\ Len(order) \in Nat
      /\ order # <<>> => 1 \in DOMAIN order
  BY Lens
<1>2. UNCHANGED <<pos, pc, buf, got, plan>>
  BY DEF readerVars
<1>3. \A m \in Nat \ {0} : SubSeq(wire', m, pos) = SubSeq(wire, m, pos)
  <2>1. pos \in Nat /\ pos <= Len(wire)
    BY <1>1
  <2> QED
    BY <1>1, <2>1, SamePart
<1>4. CASE got[Conn].status # "frame"
  <2>1. NotYet
    BY <1>4 DEF Reading
  <2>2. buf'[Conn] = SubSeq(wire', 1, pos')
    <3>1. 1 \in Nat \ {0} /\ buf[Conn] = SubSeq(wire, 1, pos)
      BY <2>1 DEF NotYet
    <3>2. SubSeq(wire', 1, pos) = SubSeq(wire, 1, pos)
      BY <1>3, <3>1
    <3> QED
      BY <1>2, <3>1, <3>2
  <2>3. order' # <<>> => pos' < Need(1)'
    <3>1. CASE order = <<>>
      <4>1. pos = 0
        BY <1>1, <3>1, Lens DEF Layout
      <4> QED
        BY <1>2, <3>1, <4>1
    <3>2. CASE order # <<>>
      BY <1>1, <1>2, <2>1, <3>2 DEF NotYet
    <3> QED
      BY <3>1, <3>2
  <2>4. NotYet'
    BY <1>2, <1>4, <2>1, <2>2, <2>3 DEF NotYet
  <2> QED
    BY <1>2, <1>4, <2>4 DEF Reading
<1>5. CASE got[Conn].status = "frame"
  <2>1. Returned /\ 1 \in DOMAIN order /\ order' # <<>>
    <3>1. Returned /\ 1 \in DOMAIN order
      BY <1>1, <1>5 DEF Reading, Returned
    <3>2. 1 \in DOMAIN order'
      BY <3>1
    <3>3. order' = <<>> => DOMAIN order' = {}
      OBVIOUS
    <3> QED
      BY <3>1, <3>2, <3>3
  <2>2. /\ Received(order[1])' = Received(order[1])
        /\ Parse(buf[Conn])' = Parse(buf[Conn])
    BY <1>2, <2>1 DEF Received, Shortened, Parse
  <2>3. ASSUME Between PROVE Between'
    <3>1. PICK k \in DOMAIN order : pos = Bound(k)
      BY <2>3 DEF Between
    <3>2. k \in DOMAIN order' /\ pos' = Bound(k)'
      BY <1>2, <3>1
    <3> QED
      BY <1>2, <2>3, <3>2 DEF Between, Waiting
  <2>4. ASSUME NEW p \in Probes, NEW k \in DOMAIN order, HasBegun(p, k)
        PROVE  HasBegun(p, k)' /\ k \in DOMAIN order'
    <3>1. starts[k] + 1 \in Nat \ {0}
      BY FrameFacts
    <3>2. SubSeq(wire', starts[k] + 1, pos) = SubSeq(wire, starts[k] + 1, pos)
      BY <1>3, <3>1
    <3> QED
      BY <1>2, <2>4, <3>2 DEF HasBegun, AtFrame
  <2>5. Returned'
    BY <1>2, <2>1, <2>2, <2>3, <2>4 DEF Returned
  <2> QED
    BY <1>2, <1>5, <2>5 DEF Reading
<1> QED
  BY <1>4, <1>5

LEMMA CompleteMonotonic ==
    ASSUME Types, Layout, NEW a \in Nat, NEW b \in Nat, a <= b
    PROVE  Complete(a) <= Complete(b) /\ Complete(a) \in 0 .. Len(order)
<1>1. PICK m \in Nat : Counts(a, m) /\ Complete(a) = m
  BY CompleteExists
<1>2. m \in 0 .. Len(order) /\ Len(order) \in Nat
  BY <1>1, Lens DEF Counts
<1>3. PICK c \in Nat : Complete(b) = c
  <2>1. PICK c \in Nat : Counts(b, c) /\ Complete(b) = c
    BY CompleteExists
  <2> QED
    BY <2>1
<1>4. CASE m = 0
  BY <1>1, <1>2, <1>3, <1>4
<1>5. CASE m # 0
  <2>1. m \in DOMAIN order /\ Need(m) <= a
    BY <1>1, <1>2, <1>5, Lens DEF Counts
  <2>2. Need(m) \in Nat
    BY <2>1, FrameFacts
  <2>3. Need(m) <= b
    BY <2>1, <2>2
  <2>4. Complete(b) \in m .. Len(order)
    BY <2>1, <2>3, AfterFrame
  <2> QED
    BY <1>1, <1>2, <2>4
<1> QED
  BY <1>4, <1>5

LEMMA WhoWaits ==
    ASSUME Types, Sharing, Reading, NEW r \in Readers, Waiting(r)
    PROVE  \/ r = Conn /\ got[Conn].status # "frame" /\ NotYet
           \/ /\ r \in plan.probes /\ r \in Probes /\ plan.end = "relay"
              /\ got[Conn].status = "frame" /\ Returned
<1>1. pc[r] # "idle"
  BY DEF Waiting
<1>2. CASE got[Conn].status # "frame"
  <2>1. NotYet
    BY <1>2 DEF Reading
  <2> QED
    BY <1>1, <1>2, <2>1, Sizes DEF NotYet
<1>3. CASE got[Conn].status = "frame"
  <2>1. Returned
    BY <1>3 DEF Reading
  <2>2. r \in Probes /\ r \in plan.probes
    BY <1>1, <2>1, Sizes DEF Returned, Sharing
  <2>3. plan.end \in {"relay", "peer"}
    BY Lens, PlansAssumption
  <2> QED
    BY <1>3, <2>1, <2>2, <2>3 DEF Sharing
<1> QED
  BY <1>2, <1>3

LEMMA FirstFrame ==
    ASSUME Types, Layout, NotYet, pos < Len(wire)
    PROVE  AtFrame(Conn, 1)
<1>1. Len(wire) # 0 /\ pos \in Nat
  BY Lens
<1>2. order # <<>>
  BY <1>1, Lens DEF Layout
<1>3. 1 \in DOMAIN order /\ starts[1] = 0
  BY <1>2, Lens DEF Layout
<1> QED
  BY <1>1, <1>2, <1>3 DEF AtFrame, NotYet

\* A probe that reads asks for no more than the frame it is at has.
ProbeAt(r, k) ==
    /\ AtFrame(r, k) /\ pos + Room(r) <= Bound(k)
    /\ plan.probes = {r} \/ pos + 1 = Bound(k)

LEMMA ProbeReads ==
    ASSUME Types, Layout, Sharing, Returned, plan.end = "relay",
           NEW r \in Probes, r \in plan.probes, Waiting(r), pos < Len(wire)
    PROVE  \E k \in DOMAIN order : ProbeAt(r, k)
<1>1. /\ pos \in Nat /\ Len(wire) \in Nat /\ Len(rest) \in Nat /\ Len(order) \in Nat
      /\ DOMAIN order = 1 .. Len(order) /\ order # <<>> /\ r # Conn
  BY Lens, Sizes DEF Returned
<1>2. CASE Between
  <2>1. PICK j \in DOMAIN order : pos = Bound(j)
    BY <1>2 DEF Between
  <2>2. buf[r] = <<>>
    BY <1>2 DEF Between
  <2>3. PICK k : k = j + 1
    OBVIOUS
  <2>4. k \in DOMAIN order
    <3>1. Bound(Len(order)) = Len(wire) + Len(rest)
      BY <1>1 DEF Layout
    <3>2. j # Len(order)
      BY <1>1, <2>1, <3>1
    <3> QED
      BY <1>1, <2>3, <3>2
  <2>5. starts[k] = pos
    BY <2>1, <2>3, <2>4 DEF Layout
  <2>6. /\ starts[k] < Need(k) /\ Need(k) \in Nat /\ Bound(k) \in Nat /\ Need(k) = Bound(k)
        /\ order[k].op \notin WithPeerId => Bound(k) = starts[k] + 1
    BY <2>4, FrameFacts
  <2>7. buf[r] = SubSeq(wire, starts[k] + 1, pos)
    <3>1. pos + 1 \in Int /\ pos \in Int /\ pos < pos + 1
      BY <1>1
    <3>2. SubSeq(wire, pos + 1, pos) = <<>>
      BY <3>1, SubSeqEmpty
    <3> QED
      BY <2>2, <2>5, <3>2
  <2>8. Room(r) = 1
    BY <1>1, <2>2 DEF Room
  <2>9. plan.probes = {r} \/ pos + 1 = Bound(k)
    <3>1. CASE \A p, q \in plan.probes : p = q
      BY <3>1
    <3>2. CASE \E w \in Writers : OneByteFrames(w)
      <4>1. k > 1
        BY <1>1, <2>3
      <4>2. order[k].op \notin WithPeerId
        BY <2>4, <3>2, <4>1 DEF OneByteFrames
      <4> QED
        BY <2>5, <2>6, <4>2
    <3> QED
      BY <3>1, <3>2 DEF Sharing
  <2>10. AtFrame(r, k)
    BY <1>1, <2>4, <2>5, <2>6, <2>7 DEF AtFrame
  <2>11. pos + Room(r) <= Bound(k)
    BY <1>1, <2>5, <2>6, <2>8
  <2> QED
    BY <2>4, <2>9, <2>10, <2>11 DEF ProbeAt
<1>3. CASE \E p \in Probes, k \in DOMAIN order : HasBegun(p, k)
  <2>1. PICK p \in Probes, k \in DOMAIN order : HasBegun(p, k)
    BY <1>3
  <2>2. p = r
    BY <2>1 DEF HasBegun
  <2>3. AtFrame(r, k) /\ starts[k] < pos /\ plan.probes = {r} /\ pos < Need(k)
    BY <2>1, <2>2 DEF HasBegun, AtFrame
  <2>4. PICK s \in Nat, m \in Nat : s = starts[k] /\ m = PEER_ID_LENGTH_BYTES
    BY FrameFacts, Sizes
  <2>5. Bound(k) = s + 1 + m
    <3>1. /\ Bound(k) = Need(k) /\ Bound(k) \in Nat
          /\ order[k].op \in WithPeerId => Bound(k) = s + 1 + m
          /\ order[k].op \notin WithPeerId => Bound(k) = s + 1
      BY <2>4, FrameFacts
    <3>2. Bound(k) # s + 1
      BY <1>1, <2>3, <2>4, <3>1
    <3> QED
      BY <3>1, <3>2
  <2>6. buf[r] \in Seq(Byte) /\ Len(buf[r]) = pos - s
    <3>1. buf[r] = SubSeq(wire, s + 1, pos)
      BY <2>3, <2>4 DEF AtFrame
    <3>2. PICK a \in Nat \ {0} : a = s + 1
      BY <2>4
    <3>3. wire \in Seq(Byte) /\ pos <= Len(wire)
      BY Lens, <1>1
    <3>4. /\ SubSeq(wire, a, pos) \in Seq(Byte)
          /\ Len(SubSeq(wire, a, pos)) = IF a <= pos THEN pos - a + 1 ELSE 0
      BY <1>1, <3>3, Part
    <3>5. a <= pos /\ pos - a + 1 = pos - s
      BY <1>1, <2>3, <2>4, <3>2
    <3> QED
      BY <3>1, <3>2, <3>4, <3>5
  <2>7. buf[r] # <<>>
    <3>1. Len(buf[r]) # 0
      BY <1>1, <2>3, <2>4, <2>6
    <3> QED
      BY <3>1, EmptySeq
  <2>8. pos + Room(r) = Bound(k)
    <3>1. Room(r) = 1 + m - (pos - s)
      BY <1>1, <2>4, <2>6, <2>7 DEF Room
    <3> QED
      BY <1>1, <2>4, <2>5, <3>1
  <2>9. pos + Room(r) <= Bound(k)
    BY <2>4, <2>5, <2>8
  <2> QED
    BY <2>3, <2>9 DEF ProbeAt
<1> QED
  BY <1>2, <1>3 DEF Returned

LEMMA ParseLeaves ==
    ASSUME NEW r, NEW b, ParseFrame(r, b)
    PROVE  /\ buf' = [buf EXCEPT ![r] = b]
           /\ Parse(b) = Incomplete => /\ pc' = [pc EXCEPT ![r] = "wants"] /\ got' = got
           /\ \A f : Parse(b) = Parsed(f) => /\ pc' = [pc EXCEPT ![r] = "idle"]
                                             /\ got' = [got EXCEPT ![r] = Parsed(f)]
<1>1. Incomplete.status = "incomplete" /\ \A f : Parsed(f).status = "frame"
  BY DEF Incomplete, Parsed
<1> QED
  BY <1>1, ParseCases

(* A read of a reader that is at a frame: it waits for more, or it returns *)
(* that frame.                                                             *)
ReadsPart(r, k) ==
    /\ pos' < Need(k) /\ pc' = [pc EXCEPT ![r] = "wants"] /\ got' = got
    /\ Complete(pos') = k - 1

ReadsWhole(r, k) ==
    /\ Need(k) <= pos' /\ pc' = [pc EXCEPT ![r] = "idle"]
    /\ got' = [got EXCEPT ![r] = Parsed(Received(order[k]))]
    /\ Parse(buf'[r]) = Parsed(Received(order[k]))
    /\ k <= Complete(Len(wire))
    /\ Complete(pos') \in k .. (IF r = Conn THEN Complete(Len(wire)) ELSE k)

LEMMA ReadStep ==
    ASSUME Types, Layout, Contents, NEW r \in Readers, ReadBytes(r),
           NEW k, AtFrame(r, k), r # Conn => pos + Room(r) <= Bound(k)
    PROVE  /\ pos < pos' /\ pos' <= Len(wire) /\ pos' <= pos + Room(r) /\ pos' \in Nat
           /\ buf' = [buf EXCEPT ![r] = SubSeq(wire, starts[k] + 1, pos')]
           /\ Complete(pos) = k - 1
           /\ ReadsPart(r, k) \/ ReadsWhole(r, k)
           /\ UNCHANGED <<plan, writeVars, socket>>
<1>1. PICK n \in 1 .. Room(r) :
         /\ pos + n <= Len(wire) /\ pos' = pos + n
         /\ ParseFrame(r, buf[r] \o SubSeq(wire, pos + 1, pos + n))
  BY DEF ReadBytes
<1>2. n \in Nat \ {0} /\ pos \in Nat /\ Len(wire) \in Nat
  BY <1>1, Grown, Lens
<1>3. PICK b : b = buf[r] \o SubSeq(wire, pos + 1, pos + n)
  OBVIOUS
<1>4. PICK q \in Nat : q = pos + n /\ pos' = q /\ pos < q /\ q <= Len(wire)
  <2>1. pos + n \in Nat /\ pos < pos + n
    BY <1>2
  <2> QED
    BY <1>1, <2>1
<1>5. /\ b = SubSeq(wire, starts[k] + 1, q)
      /\ q < Need(k) => Parse(b) = Incomplete
      /\ Need(k) <= q => Parse(b) = Parsed(Received(order[k]))
  BY <1>1, <1>2, <1>3, <1>4, ReadAtFrame
<1>6. k \in DOMAIN order /\ starts[k] <= pos /\ pos < Need(k)
  BY DEF AtFrame
<1>7. /\ {starts[k], Need(k), Bound(k)} \subseteq Nat /\ starts[k] <= q
  <2>1. {starts[k], Need(k), Bound(k)} \subseteq Nat
    BY <1>6, FrameFacts
  <2> QED
    BY <1>2, <1>4, <1>6, <2>1
<1>8. q <= pos + Room(r)
  <2>1. Room(r) \in Int
    <3>1. Len(buf[r]) \in Nat
      BY LenProperties DEF Types, TypeOK
    <3> QED
      BY <3>1, Sizes DEF Room
  <2> QED
    BY <1>1, <1>2, <1>4, <2>1
<1>9. Complete(pos) = k - 1
  BY <1>2, <1>6, BeforeFrame
<1>10. /\ buf' = [buf EXCEPT ![r] = b]
       /\ Parse(b) = Incomplete => /\ pc' = [pc EXCEPT ![r] = "wants"] /\ got' = got
       /\ \A f : Parse(b) = Parsed(f) => /\ pc' = [pc EXCEPT ![r] = "idle"]
                                         /\ got' = [got EXCEPT ![r] = Parsed(f)]
  <2>1. ParseFrame(r, b)
    BY <1>1, <1>3
  <2> QED
    BY <2>1, ParseLeaves
<1>11. CASE q < Need(k)
  <2>1. Complete(q) = k - 1
    BY <1>6, <1>7, <1>11, BeforeFrame
  <2>2. ReadsPart(r, k)
    BY <1>4, <1>5, <1>10, <1>11, <2>1 DEF ReadsPart
  <2> QED
    BY <1>4, <1>5, <1>8, <1>9, <1>10, <2>2 DEF ReadBytes
<1>12. CASE ~(q < Need(k))
  <2>1. Need(k) <= q
    BY <1>7, <1>12
  <2>2. Complete(q) \in k .. Len(order) /\ (q <= Bound(k) => Complete(q) = k)
    BY <1>6, <2>1, AfterFrame
  <2>3. Complete(q) <= Complete(Len(wire)) /\ Complete(Len(wire)) \in 0 .. Len(order)
    <3>1. Complete(q) <= Complete(Len(wire))
      BY <1>2, <1>4, CompleteMonotonic
    <3>2. Len(wire) <= Len(wire)
      BY <1>2
    <3> QED
      BY <1>2, <3>1, <3>2, CompleteMonotonic
  <2>4. k \in Nat /\ Len(order) \in Nat
    BY <1>6, Lens
  <2>5. k <= Complete(Len(wire)) /\ Complete(q) \in k .. (IF r = Conn THEN Complete(Len(wire)) ELSE k)
    <3>1. CASE r = Conn
      BY <2>2, <2>3, <2>4, <3>1
    <3>2. CASE r # Conn
      <4>1. q <= Bound(k)
        <5>1. Room(r) \in Int
          <6>1. Len(buf[r]) \in Nat
            BY LenProperties DEF Types, TypeOK
          <6> QED
            BY <6>1, Sizes DEF Room
        <5> QED
          BY <1>2, <1>4, <1>7, <1>8, <3>2, <5>1
      <4> QED
        BY <2>2, <2>3, <2>4, <3>2, <4>1
    <3> QED
      BY <3>1, <3>2
  <2>6. buf'[r] = b
    BY <1>10 DEF Types
  <2>7. ReadsWhole(r, k)
    BY <1>4, <1>5, <1>10, <2>1, <2>5, <2>6 DEF ReadsWhole
  <2> QED
    BY <1>4, <1>5, <1>8, <1>9, <1>10, <2>7 DEF ReadBytes
<1> QED
  BY <1>11, <1>12

LEMMA BegunBytes ==
    ASSUME Types, Layout, NEW p, NEW k \in DOMAIN order, HasBegun(p, k)
    PROVE  buf[p] # <<>>
<1>1. PICK s \in Nat : s = starts[k]
  BY FrameFacts
<1>2. buf[p] = SubSeq(wire, s + 1, pos) /\ s < pos
  BY <1>1 DEF HasBegun, AtFrame
<1>3. wire \in Seq(Byte) /\ pos \in Nat /\ pos <= Len(wire) /\ Len(wire) \in Nat
  BY Lens
<1>4. PICK a \in Nat \ {0} : a = s + 1
  BY <1>1
<1>5. /\ SubSeq(wire, a, pos) \in Seq(Byte)
      /\ Len(SubSeq(wire, a, pos)) = IF a <= pos THEN pos - a + 1 ELSE 0
  BY <1>3, <1>4, Part
<1>6. Len(buf[p]) # 0
  BY <1>1, <1>2, <1>3, <1>4, <1>5
<1> QED
  BY <1>6, EmptySeq

\* What an action of reader r that moves neither the stream nor a buffer
\* leaves as it was.
LEMMA Unmoved ==
    ASSUME Types, Layout, Sharing, Returned, NEW r \in Probes, r \in plan.probes,
           Waiting(r), UNCHANGED <<plan, writeVars, pos, buf>>,
           NEW at, pc' = [pc EXCEPT ![r] = at], buf[r] # <<>> => at # "idle",
           got'[Conn] = got[Conn]
    PROVE  Returned' /\ Sharing'
<1>1. /\ UNCHANGED <<plan, order, starts, rest, wire, todo>>
      /\ \A p \in Readers : pc'[p] = IF p = r THEN at ELSE pc[p]
      /\ r \in Readers /\ r # Conn /\ Conn \in Readers
  BY Sizes DEF writeVars, Types, TypeOK, Readers
<1>2. /\ \A k : Bound(k)' = Bound(k) /\ Need(k)' = Need(k)
      /\ \A f : Received(f)' = Received(f)
      /\ \A b : Parse(b)' = Parse(b)
  BY <1>1, SameFrames
<1>3. ASSUME Between PROVE Between'
  <2>1. \A p \in Probes : Waiting(p)' => Waiting(p)
    BY <1>1 DEF Waiting, Readers
  <2> QED
    BY <1>1, <1>2, <1>3, <2>1 DEF Between
<1>4. ASSUME NEW p \in Probes, NEW k \in DOMAIN order, HasBegun(p, k)
      PROVE  HasBegun(p, k)'
  <2>1. p = r /\ buf[p] # <<>>
    BY <1>4, BegunBytes DEF HasBegun
  <2>2. pc'[p] # "idle"
    BY <1>1, <2>1
  <2> QED
    BY <1>1, <1>2, <1>4, <2>2 DEF HasBegun, AtFrame
<1>5. /\ order' # <<>> /\ got'[Conn] = Parsed(Received(order[1])')
      /\ Parse(buf[Conn])' = got'[Conn] /\ pc'[Conn] = "idle" /\ Need(1)' <= pos'
  <2>1. Parse(buf[Conn])' = Parse(buf[Conn]) /\ Received(order[1])' = Received(order[1])
    BY <1>1 DEF Parse, Received, Shortened
  <2> QED
    BY <1>1, <1>2, <2>1 DEF Returned
<1>6. Returned'
  BY <1>1, <1>3, <1>4, <1>5 DEF Returned
<1>7. Sharing'
  <2>1. \A w \in Writers : OneByteFrames(w) => OneByteFrames(w)'
    BY <1>1 DEF OneByteFrames
  <2>2. \A p \in Probes : pc'[p] # "idle" => p \in plan.probes
    BY <1>1 DEF Sharing, Readers
  <2> QED
    BY <1>1, <2>1, <2>2 DEF Sharing
<1> QED
  BY <1>6, <1>7

\* The same while the connection waits for its first frame.
LEMMA ConnUnmoved ==
    ASSUME Types, Layout, Sharing, NotYet, UNCHANGED <<plan, writeVars, pos, buf>>,
           NEW at, pc' = [pc EXCEPT ![Conn] = at]
    PROVE  NotYet' /\ Sharing'
<1>1. /\ UNCHANGED <<plan, order, starts, rest, wire, todo>>
      /\ \A p \in Probes : pc'[p] = pc[p]
  BY Sizes DEF writeVars, Types, TypeOK, Readers
<1>2. \A k : Need(k)' = Need(k)
  BY <1>1, SameFrames
<1>3. NotYet'
  BY <1>1, <1>2 DEF NotYet
<1>4. \A w \in Writers : OneByteFrames(w) => OneByteFrames(w)'
  BY <1>1 DEF OneByteFrames
<1> QED
  BY <1>1, <1>3, <1>4 DEF Sharing

LEMMA TakeLockReading ==
    ASSUME Types, Layout, Sharing, Reading, NEW r \in Readers, TakeLock(r)
    PROVE  Reading' /\ Sharing' /\ got' = got
<1>1. /\ Waiting(r) /\ pc' = [pc EXCEPT ![r] = "reading"]
      /\ UNCHANGED <<plan, writeVars, socket, pos, buf, got>>
  BY DEF TakeLock, Goto, Waiting
<1>2. CASE r = Conn /\ got[Conn].status # "frame" /\ NotYet
  <2>1. NotYet' /\ Sharing'
    BY <1>1, <1>2, ConnUnmoved
  <2> QED
    BY <1>1, <1>2, <2>1 DEF Reading
<1>3. CASE /\ r \in plan.probes /\ r \in Probes /\ plan.end = "relay"
           /\ got[Conn].status = "frame" /\ Returned
  <2>1. Returned' /\ Sharing'
    BY <1>1, <1>3, Unmoved
  <2> QED
    BY <1>1, <1>3, <2>1 DEF Reading
<1> QED
  BY <1>1, <1>2, <1>3, WhoWaits

LEMMA EndReading ==
    ASSUME Types, Layout, Sharing, Reading, NEW r \in Readers, Waiting(r),
           NEW status \in {"none", "error"}, NEW at,
           buf[r] # <<>> => at # "idle",
           got' = [got EXCEPT ![r] = Result(status)], Goto(r, at),
           UNCHANGED <<plan, writeVars, pos, buf>>
    PROVE  Reading' /\ Sharing'
<1>1. pc' = [pc EXCEPT ![r] = at]
  BY DEF Goto
<1>2. \A q \in Readers : got'[q] = IF q = r THEN Result(status) ELSE got[q]
  BY DEF Types
<1>3. CASE r = Conn /\ got[Conn].status # "frame" /\ NotYet
  <2>1. NotYet' /\ Sharing'
    BY <1>1, <1>3, ConnUnmoved
  <2> QED
    BY <1>2, <1>3, <2>1 DEF Reading, Result
<1>4. CASE /\ r \in plan.probes /\ r \in Probes /\ plan.end = "relay"
           /\ got[Conn].status = "frame" /\ Returned
  <2>1. got'[Conn] = got[Conn]
    BY <1>2, <1>4, Sizes
  <2>2. Returned' /\ Sharing'
    BY <1>1, <1>4, <2>1, Unmoved
  <2> QED
    BY <1>4, <2>1, <2>2 DEF Reading
<1> QED
  BY <1>3, <1>4, WhoWaits

LEMMA NothingParsed == Parse(<<>>) = Incomplete
BY DEF Parse, ParseRelayFrame, ParsePeerFrame

LEMMA CallReading ==
    ASSUME Types, Layout, Contents, Sharing, Reading, NEW r \in Readers, Call(r)
    PROVE  Reading' /\ Sharing' /\ got' = got
<1>1. /\ pc[r] = "idle" /\ (r = Conn \/ (r \in plan.probes /\ Registered))
      /\ ParseFrame(r, IF r = Conn THEN buf[r] ELSE <<>>)
      /\ UNCHANGED <<plan, writeVars, socket, readLock, pos>>
  BY DEF Call
<1>2. CASE r = Conn /\ got[Conn].status # "frame"
  <2>1. NotYet
    BY <1>2 DEF Reading
  <2>2. Parse(buf[Conn]) = Incomplete
    <3>1. CASE order = <<>>
      <4>1. wire = <<>> /\ pos = 0
        BY <3>1, Lens DEF Layout
      <4>2. SubSeq(wire, 1, 0) = <<>>
        BY SubSeqEmpty
      <4> QED
        BY <2>1, <4>1, <4>2, NothingParsed DEF NotYet
    <3>2. CASE order # <<>>
      <4>1. 1 \in DOMAIN order /\ starts[1] = 0 /\ pos \in Nat /\ pos <= Len(wire) /\ pos < Need(1)
        BY <2>1, <3>2, Lens DEF Layout, NotYet
      <4>2. Parse(SubSeq(wire, starts[1] + 1, pos)) = Incomplete
        <5>1. starts[1] <= pos
          BY <4>1
        <5> QED
          BY <4>1, <5>1, ParsePartial
      <4> QED
        BY <2>1, <4>1, <4>2 DEF NotYet
    <3> QED
      BY <3>1, <3>2
  <2>3. /\ buf' = [buf EXCEPT ![Conn] = buf[Conn]]
        /\ pc' = [pc EXCEPT ![Conn] = "wants"] /\ got' = got
    BY <1>1, <1>2, <2>2, ParseLeaves
  <2>4. buf' = buf
    BY <2>3 DEF Types
  <2>5. NotYet' /\ Sharing'
    BY <1>1, <2>1, <2>3, <2>4, ConnUnmoved
  <2> QED
    BY <1>2, <2>3, <2>5 DEF Reading
<1>3. CASE r = Conn /\ got[Conn].status = "frame"
  <2>1. Returned
    BY <1>3 DEF Reading
  <2>2. Parse(buf[Conn]) = got[Conn] /\ got[Conn] = Parsed(Received(order[1])) /\ pc[Conn] = "idle"
    BY <2>1 DEF Returned
  <2>3. /\ buf' = [buf EXCEPT ![Conn] = buf[Conn]]
        /\ pc' = [pc EXCEPT ![Conn] = "idle"] /\ got' = [got EXCEPT ![Conn] = got[Conn]]
    BY <1>1, <1>3, <2>2, ParseLeaves
  <2>4. buf' = buf /\ pc' = pc /\ got' = got
    BY <2>2, <2>3 DEF Types, TypeOK
  <2>5. UNCHANGED <<plan, order, starts, rest, wire, todo, pos>>
    BY <1>1 DEF writeVars
  <2>6. /\ \A k : Bound(k)' = Bound(k) /\ Need(k)' = Need(k)
        /\ \A f : Received(f)' = Received(f)
        /\ Parse(buf[Conn])' = Parse(buf[Conn])
    BY <2>4, <2>5, SameFrames DEF Parse
  <2>7. Received(order[1])' = Received(order[1])
    BY <2>5 DEF Received, Shortened
  <2>8. Between => Between'
    BY <2>4, <2>5, <2>6 DEF Between, Waiting
  <2>9. \A p \in Probes, k \in DOMAIN order : HasBegun(p, k) => HasBegun(p, k)'
    BY <2>4, <2>5, <2>6 DEF HasBegun, AtFrame
  <2>10. Returned'
    BY <2>1, <2>4, <2>5, <2>6, <2>7, <2>8, <2>9 DEF Returned
  <2>11. \A w \in Writers : OneByteFrames(w) => OneByteFrames(w)'
    BY <2>5 DEF OneByteFrames
  <2>12. Sharing'
    BY <2>4, <2>5, <2>11 DEF Sharing
  <2> QED
    BY <1>3, <2>4, <2>10, <2>12 DEF Reading
<1>4. CASE r # Conn
  <2>1. r \in plan.probes /\ r \in Probes /\ got[Conn].status = "frame"
    BY <1>1, <1>4, Sizes DEF Registered
  <2>2. Returned
    BY <2>1 DEF Reading
  <2>3. plan.end = "relay"
    <3>1. plan.end \in {"relay", "peer"}
      BY Lens, PlansAssumption
    <3> QED
      BY <2>1, <3>1 DEF Sharing
  <2>4. Between
    BY <1>1, <2>1, <2>2, <2>3 DEF Returned, HasBegun
  <2>5. /\ buf' = [buf EXCEPT ![r] = <<>>]
        /\ pc' = [pc EXCEPT ![r] = "wants"] /\ got' = got
    BY <1>1, <1>4, NothingParsed, ParseLeaves
  <2>6. UNCHANGED <<plan, order, starts, rest, wire, todo, pos>>
    BY <1>1 DEF writeVars
  <2>7. /\ \A q \in Readers : pc'[q] = IF q = r THEN "wants" ELSE pc[q]
        /\ \A q \in Readers : buf'[q] = IF q = r THEN <<>> ELSE buf[q]
    BY <2>5 DEF Types, TypeOK
  <2>8. /\ \A k : Bound(k)' = Bound(k) /\ Need(k)' = Need(k)
        /\ Received(order[1])' = Received(order[1])
    BY <2>6, SameFrames DEF Received, Shortened
  <2>9. Parse(buf[Conn])' = Parse(buf[Conn])
    <3>1. buf'[Conn] = buf[Conn]
      BY <1>4, <2>7, Sizes
    <3> QED
      BY <2>6, <3>1 DEF Parse
  <2>10. Between'
    <3>1. \A p \in Probes : Waiting(p)' => buf'[p] = <<>>
      BY <2>4, <2>7 DEF Between, Waiting, Readers
    <3> QED
      BY <2>4, <2>6, <2>8, <3>1 DEF Between
  <2>11. pc'[Conn] = "idle"
    BY <1>4, <2>2, <2>7, Sizes DEF Returned
  <2>12. Returned'
    BY <2>2, <2>5, <2>6, <2>8, <2>9, <2>10, <2>11 DEF Returned
  <2>13. \A w \in Writers : OneByteFrames(w) => OneByteFrames(w)'
    BY <2>6 DEF OneByteFrames
  <2>14. \A p \in Probes : pc'[p] # "idle" => p \in plan.probes
    BY <2>1, <2>7 DEF Sharing, Readers
  <2>15. Sharing'
    BY <2>6, <2>13, <2>14 DEF Sharing
  <2> QED
    BY <2>1, <2>5, <2>12, <2>15 DEF Reading
<1> QED
  BY <1>2, <1>3, <1>4

\* A read returns nothing yet, or the next frame.
Reads(r) == \E k \in DOMAIN order : /\ Complete(pos) = k - 1
                                    /\ ReadsPart(r, k) \/ ReadsWhole(r, k)

LEMMA ReadBytesReading ==
    ASSUME Types, Layout, Contents, Sharing, Reading, NEW r \in Readers, ReadBytes(r)
    PROVE  Reading' /\ Sharing' /\ Reads(r)
<1>1. Waiting(r) /\ UNCHANGED <<plan, writeVars, socket>>
  BY DEF ReadBytes, Waiting
<1>2. UNCHANGED <<plan, order, starts, rest, wire, todo>>
  BY <1>1 DEF writeVars
<1>3. /\ \A k : Bound(k)' = Bound(k) /\ Need(k)' = Need(k)
      /\ Received(order[1])' = Received(order[1])
      /\ \A b : Parse(b)' = Parse(b)
  BY <1>2, SameFrames DEF Received, Shortened
<1>4. pos < Len(wire)
  <2>1. PICK n \in 1 .. Room(r) : pos + n <= Len(wire)
    BY DEF ReadBytes
  <2>2. n \in Nat \ {0} /\ pos \in Nat /\ Len(wire) \in Nat
    BY <2>1, Grown, Lens
  <2> QED
    BY <2>1, <2>2
<1>5. \A w \in Writers : OneByteFrames(w) => OneByteFrames(w)'
  BY <1>2 DEF OneByteFrames
<1>6. CASE r = Conn /\ got[Conn].status # "frame" /\ NotYet
  <2>1. AtFrame(r, 1)
    BY <1>4, <1>6, FirstFrame
  <2>2. /\ pos < pos' /\ pos' <= Len(wire) /\ pos' \in Nat
        /\ buf' = [buf EXCEPT ![r] = SubSeq(wire, starts[1] + 1, pos')]
        /\ Complete(pos) = 1 - 1
        /\ ReadsPart(r, 1) \/ ReadsWhole(r, 1)
    BY <1>6, <2>1, ReadStep
  <2>3. 1 \in DOMAIN order /\ order # <<>> /\ starts[1] = 0
    BY <2>1, Lens DEF AtFrame, Layout
  <2>4. buf'[Conn] = SubSeq(wire, 1, pos')
    <3>1. starts[1] + 1 = 1
      BY <2>3
    <3> QED
      BY <1>6, <2>2, <3>1 DEF Types
  <2>5. Reads(r)
    BY <2>2, <2>3 DEF Reads
  <2>6. /\ \A p \in Probes : pc'[p] = pc[p]
        /\ got'[Conn].status = "frame" => pc'[Conn] = "idle"
    BY <1>6, <2>2, Sizes DEF ReadsPart, ReadsWhole, Types, TypeOK, Readers
  <2>7. Sharing'
    BY <1>2, <1>5, <2>6 DEF Sharing
  <2>8. CASE ReadsPart(r, 1)
    <3>1. pos' < Need(1) /\ got' = got
      BY <2>8 DEF ReadsPart
    <3>2. NotYet'
      BY <1>2, <1>3, <1>6, <2>4, <2>6, <3>1 DEF NotYet
    <3> QED
      BY <1>6, <2>5, <2>7, <3>1, <3>2 DEF Reading
  <2>9. CASE ReadsWhole(r, 1)
    <3>1. /\ Need(1) <= pos' /\ got'[Conn] = Parsed(Received(order[1]))
          /\ Parse(buf'[Conn]) = Parsed(Received(order[1]))
      BY <1>6, <2>9 DEF ReadsWhole, Types
    <3>2. got'[Conn].status = "frame"
      BY <3>1 DEF Parsed
    <3>3. Parse(buf[Conn])' = Parse(buf'[Conn])
      BY <1>2 DEF Parse
    <3>4. ASSUME plan.end = "relay" PROVE Between'
      <4>1. /\ Bound(1) \in Nat /\ Bound(1) = Need(1) /\ Len(order) = 1
            /\ Len(wire) \in Nat /\ Len(rest) \in Nat
        BY <1>6, <2>3, <3>4, FrameFacts, Lens DEF NotYet
      <4>2. Bound(1) = Len(wire) + Len(rest)
        BY <2>3, <4>1 DEF Layout
      <4>3. pos' = Bound(1)
        BY <2>2, <3>1, <4>1, <4>2
      <4>4. \A p \in Probes : ~Waiting(p)'
        BY <1>6, <2>6 DEF NotYet, Waiting
      <4> QED
        BY <1>2, <1>3, <2>3, <4>3, <4>4 DEF Between
    <3>5. Returned'
      BY <1>2, <1>3, <2>3, <2>6, <3>1, <3>2, <3>3, <3>4 DEF Returned
    <3> QED
      BY <2>5, <2>7, <3>2, <3>5 DEF Reading
  <2> QED
    BY <2>2, <2>8, <2>9
<1>7. CASE /\ r \in plan.probes /\ r \in Probes /\ plan.end = "relay"
           /\ got[Conn].status = "frame" /\ Returned
  <2>1. PICK k \in DOMAIN order : ProbeAt(r, k)
    BY <1>1, <1>4, <1>7, ProbeReads
  <2>2. /\ AtFrame(r, k) /\ pos + Room(r) <= Bound(k)
        /\ plan.probes = {r} \/ pos + 1 = Bound(k)
    BY <2>1 DEF ProbeAt
  <2>3. /\ pos < pos' /\ pos' <= pos + Room(r) /\ pos' \in Nat
        /\ buf' = [buf EXCEPT ![r] = SubSeq(wire, starts[k] + 1, pos')]
        /\ Complete(pos) = k - 1
        /\ ReadsPart(r, k) \/ ReadsWhole(r, k)
    BY <2>2, ReadStep
  <2>4. Reads(r)
    BY <2>3 DEF Reads
  <2>5. /\ r # Conn /\ r \in Readers /\ Conn \in Readers
        /\ \A q \in Readers : q # r => pc'[q] = pc[q] /\ buf'[q] = buf[q] /\ got'[q] = got[q]
        /\ buf'[r] = SubSeq(wire, starts[k] + 1, pos')
    BY <1>7, <2>3, Sizes DEF ReadsPart, ReadsWhole, Types, TypeOK
  <2>6. Sharing'
    BY <1>2, <1>5, <1>7, <2>5, Sizes DEF Sharing, Readers
  <2>7. /\ order # <<>> /\ got'[Conn] = Parsed(Received(order[1]))
        /\ Parse(buf[Conn])' = got'[Conn] /\ pc'[Conn] = "idle" /\ got'[Conn].status = "frame"
    <3>1. Parse(buf[Conn])' = Parse(buf[Conn])
      BY <1>2, <2>5 DEF Parse
    <3> QED
      BY <1>7, <2>5, <3>1 DEF Returned
  <2>8. Need(1) <= pos'
    <3>1. 1 \in DOMAIN order /\ Need(1) <= pos
      BY <1>7, Lens DEF Returned
    <3>2. Need(1) \in Nat /\ pos \in Nat
      BY <3>1, FrameFacts, Lens
    <3> QED
      BY <2>3, <3>1, <3>2
  <2>9. /\ {starts[k], Need(k), Bound(k)} \subseteq Nat /\ Need(k) = Bound(k)
        /\ starts[k] <= pos /\ pos \in Nat
    BY <1>7, <2>2, FrameFacts, Lens DEF AtFrame
  <2>10. CASE ReadsPart(r, k)
    <3>1. pos' < Need(k) /\ pc'[r] = "wants"
      BY <2>5, <2>10 DEF ReadsPart, Types, TypeOK
    <3>2. starts[k] < pos' /\ starts[k] <= pos' /\ pos + 1 # Bound(k)
      BY <2>3, <2>9, <3>1
    <3>3. HasBegun(r, k)'
      BY <1>2, <1>3, <2>2, <2>5, <3>1, <3>2 DEF HasBegun, AtFrame
    <3>4. Returned'
      BY <1>2, <1>3, <1>7, <2>7, <2>8, <3>3 DEF Returned
    <3> QED
      BY <2>4, <2>6, <2>7, <3>4 DEF Reading
  <2>11. CASE ReadsWhole(r, k)
    <3>1. Need(k) <= pos' /\ pc'[r] = "idle"
      BY <2>5, <2>11 DEF ReadsWhole, Types, TypeOK
    <3>2. pos' = Bound(k)
      <4>1. Room(r) \in Int
        <5>1. Len(buf[r]) \in Nat
          BY LenProperties DEF Types, TypeOK
        <5> QED
          BY <5>1, Sizes DEF Room
      <4> QED
        BY <2>2, <2>3, <2>9, <3>1, <4>1
    <3>3. ASSUME NEW p \in Probes, Waiting(p)'
          PROVE  buf'[p] = <<>>
      <4>1. p # r /\ p \in Readers
        BY <3>1, <3>3 DEF Waiting, Readers
      <4>2. Waiting(p) /\ buf'[p] = buf[p]
        BY <2>5, <3>3, <4>1 DEF Waiting
      <4>3. Between
        BY <1>7, <4>1, <4>2 DEF Returned, HasBegun, Sharing, Waiting
      <4> QED
        BY <4>2, <4>3 DEF Between
    <3>4. Between'
      BY <1>2, <1>3, <3>2, <3>3 DEF Between
    <3>5. Returned'
      BY <1>2, <1>3, <2>7, <2>8, <3>4 DEF Returned
    <3> QED
      BY <2>4, <2>6, <2>7, <3>5 DEF Reading
  <2> QED
    BY <2>3, <2>10, <2>11
<1> QED
  BY <1>1, <1>6, <1>7, WhoWaits

-----------------------------------------------------------------------------
(* The refinement, step by step.                                           *)

LEMMA ArrivedLength ==
    ASSUME Types, Layout
    PROVE  /\ Complete(Len(wire)) \in 0 .. Len(order) /\ Len(order) \in Nat
           /\ Arrived \in Seq({Received(order[k]) : k \in DOMAIN order})
           /\ Len(Arrived) = Complete(Len(wire))
           /\ \A k \in 1 .. Complete(Len(wire)) : Arrived[k] = Received(order[k])
<1>1. Len(wire) \in Nat /\ Len(order) \in Nat /\ DOMAIN order = 1 .. Len(order)
  BY Lens
<1>2. Len(wire) <= Len(wire)
  BY <1>1
<1>3. PICK m : m = Complete(Len(wire)) /\ m \in 0 .. Len(order)
  BY <1>1, <1>2, CompleteMonotonic
<1>4. Arrived \in [1 .. m -> {Received(order[k]) : k \in DOMAIN order}]
  BY <1>1, <1>3 DEF Arrived
<1>5. m \in Nat
  BY <1>1, <1>3
<1>6. /\ Arrived \in Seq({Received(order[k]) : k \in DOMAIN order})
      /\ Len(Arrived) = m
  BY <1>4, <1>5, IsSequence
<1> QED
  BY <1>1, <1>3, <1>6 DEF Arrived

\* Beginning a frame completes none.
LEMMA BeginWriteMaps ==
    ASSUME Types, Layout, Contents, Reading, NEW w \in Writers, BeginWrite(w)
    PROVE  Reading' /\ UNCHANGED <<Arrived, Taken, Ending, got>>
<1>1. PICK n, f : n = Len(order) + 1 /\ f = Head(todo[w])
  OBVIOUS
<1>2. /\ Framed(f)
      /\ order' \in Seq(Written(plan)) /\ Len(order') = n
      /\ \A k \in DOMAIN order : order'[k] = order[k] /\ starts'[k] = starts[k]
      /\ order'[n] = f /\ starts'[n] = Len(wire)
      /\ \A k \in DOMAIN order : Bound(k)' = Bound(k) /\ Need(k)' = Need(k)
      /\ Need(n)' = Len(wire) + Len(Bytes(Received(f)))
      /\ UNCHANGED <<plan, wire>>
  BY <1>1, OneMore
<1>3. /\ socket = "open" /\ Answered /\ UNCHANGED <<socket, readerVars, pos, got>>
  BY DEF BeginWrite, readerVars
<1>4. /\ Len(order) \in Nat /\ n \in Nat \ {0}
      /\ DOMAIN order = 1 .. Len(order) /\ DOMAIN order' = 1 .. n
      /\ Len(wire) \in Nat /\ pos \in 0 .. Len(wire) /\ wire \in Seq(Byte)
  BY <1>1, <1>2, Lens, LenProperties
<1>5. Len(wire) < Need(n)' /\ Need(n)' \in Nat
  <2>1. Len(Bytes(Received(f))) \in Nat \ {0}
    <3>1. Len(Bytes(f)) \in Nat
      BY <1>2, LenProperties DEF Framed
    <3> QED
      BY <1>2, <3>1 DEF Framed
  <2> QED
    BY <1>2, <1>4, <2>1
<1>6. Reading'
  <2>1. order = <<>> /\ order' # <<>> => 0 < Need(1)'
    <3>1. order = <<>> => n = 1
      BY <1>1, Lens
    <3> QED
      BY <1>4, <1>5, <3>1
  <2>2. \A k \in DOMAIN order : k \in DOMAIN order'
    BY <1>1, <1>4
  <2>3. plan.end = "relay" /\ got[Conn].status # "frame" => Len(order') <= 1
    BY <1>1, <1>2, <1>3, Lens DEF Answered
  <2>4. wire' \in Seq(Byte) /\ Len(wire) <= Len(wire') /\ \A i \in 1 .. Len(wire) : wire'[i] = wire[i]
    BY <1>2, <1>4
  <2> QED
    BY <1>2, <1>3, <2>1, <2>2, <2>3, <2>4, ReadersStay
<1>7. ASSUME NEW q \in 0 .. Len(wire)
      PROVE  Complete(q)' = Complete(q)
  <2>1. {k \in DOMAIN order' : Need(k)' <= q} = {k \in DOMAIN order : Need(k) <= q}
    <3>1. \A k \in DOMAIN order' : k \in DOMAIN order \/ k = n
      BY <1>1, <1>4
    <3>2. ~(Need(n)' <= q)
      BY <1>4, <1>5
    <3>3. \A k \in DOMAIN order : k \in DOMAIN order'
      BY <1>1, <1>4
    <3> QED
      BY <1>2, <3>1, <3>2, <3>3
  <2> QED
    BY <2>1 DEF Complete, Need
<1>8. Taken' = Taken
  BY <1>3, <1>4, <1>7 DEF Taken
<1>9. Arrived' = Arrived
  <2>1. PICK m : m = Complete(Len(wire)) /\ m \in 0 .. Len(order)
    BY ArrivedLength
  <2>2. Complete(Len(wire))' = m
    <3>1. PICK q \in 0 .. Len(wire) : q = Len(wire)
      BY <1>4
    <3>2. Complete(q)' = Complete(q)
      BY <1>7
    <3> QED
      BY <1>2, <2>1, <3>1, <3>2
  <2>3. \A k \in 1 .. m : Received(order[k])' = Received(order[k])
    <3> SUFFICES ASSUME NEW k \in 1 .. m PROVE Received(order[k])' = Received(order[k])
      OBVIOUS
    <3>1. k \in DOMAIN order
      BY <1>4, <2>1
    <3>2. order'[k] = order[k] /\ plan' = plan
      BY <1>2, <3>1
    <3> QED
      BY <3>2 DEF Received, Shortened
  <2> QED
    BY <2>1, <2>2, <2>3 DEF Arrived
<1>10. Ending' = Ending
  BY <1>3 DEF Ending
<1> QED
  BY <1>3, <1>6, <1>8, <1>9, <1>10

LEMMA CompleteKept ==
    ASSUME UNCHANGED <<plan, order, starts>>
    PROVE  \A n : Complete(n)' = Complete(n)
<1>1. \A f : Bytes(f)' = Bytes(f) /\ Received(f)' = Received(f)
  BY SameFrames
<1>2. \A k : Bytes(Received(order[k]))' = Bytes(Received(order[k]))
  BY DEF Bytes, Received, Shortened
<1> QED
  BY <1>2 DEF Complete

\* Writing bytes of the last frame completes that frame or none.
LEMMA WriteBytesMaps ==
    ASSUME Types, Layout, Contents, Reading, WriteBytes
    PROVE  /\ Reading' /\ UNCHANGED <<Taken, Ending, got>> /\ Ending = "open"
           /\ \/ Arrived' = Arrived
              \/ /\ Len(Arrived') = Len(Arrived) + 1
                 /\ SubSeq(Arrived', 1, Len(Arrived)) = Arrived
<1>1. /\ UNCHANGED <<plan, order, starts>> /\ order # <<>> /\ Len(wire) < Len(wire')
      /\ \A i \in 1 .. Len(wire) : wire'[i] = wire[i]
      /\ Layout'
  BY WriteBytesLayout
<1>2. socket = "open" /\ UNCHANGED <<socket, readerVars, pos, got, todo>>
  BY DEF WriteBytes, readerVars
<1>3. wire' \in Seq(Byte)
  <2>1. WriterTypes' /\ StreamTypes'
    <3>1. WriterTypes /\ StreamTypes
      BY TypesParts
    <3> QED
      BY <3>1, WriteBytesTypes
  <2> QED
    BY <2>1 DEF WriterTypes
<1>4. /\ \A k : Bound(k)' = Bound(k) /\ Need(k)' = Need(k)
      /\ \A f : Received(f)' = Received(f)
      /\ \A n : Complete(n)' = Complete(n)
  BY <1>1, SameFrames, CompleteKept
<1>5. PICK a \in Nat, b \in Nat : a = Len(wire) /\ b = Len(wire') /\ a < b
  BY <1>1, <1>3, LenProperties, Lens
<1>6. Reading'
  <2>1. plan.end = "relay" /\ got[Conn].status # "frame" => Len(order') <= 1
    BY <1>1 DEF Reading, NotYet
  <2>2. Len(wire) <= Len(wire')
    BY <1>5
  <2> QED
    BY <1>1, <1>2, <1>3, <1>4, <2>1, <2>2, ReadersStay
<1>7. PICK L \in Nat \ {0} : L = Len(order) /\ L \in DOMAIN order
  <2>1. Len(order) \in Nat \ {0} /\ DOMAIN order = 1 .. Len(order)
    BY <1>1, Lens
  <2>2. Len(order) \in 1 .. Len(order)
    BY <2>1
  <2> QED
    BY <2>1, <2>2
<1>8. starts[L] <= a /\ {starts[L], Need(L)} \subseteq Nat
  BY <1>1, <1>5, <1>7, FrameFacts DEF Layout
<1>9. \A q \in Nat : starts[L] <= q => /\ q < Need(L) => Complete(q) = L - 1
                                       /\ Need(L) <= q => Complete(q) = L
  <2> SUFFICES ASSUME NEW q \in Nat, starts[L] <= q
               PROVE  /\ q < Need(L) => Complete(q) = L - 1
                      /\ Need(L) <= q => Complete(q) = L
    OBVIOUS
  <2>1. q < Need(L) => Complete(q) = L - 1
    BY <1>7, BeforeFrame
  <2>2. Need(L) <= q => Complete(q) \in L .. L
    BY <1>7, AfterFrame
  <2> QED
    BY <1>7, <2>1, <2>2
<1>10. Complete(Len(wire))' = Complete(b)
  BY <1>4, <1>5
<1>11. Complete(b) = Complete(a) \/ (Complete(a) = L - 1 /\ Complete(b) = L)
  BY <1>5, <1>8, <1>9
<1>12. Arrived' = [k \in 1 .. Complete(b) |-> Received(order[k])]
  <2>1. \A k : Received(order[k])' = Received(order[k])
    BY <1>1 DEF Received, Shortened
  <2> QED
    BY <1>10, <2>1 DEF Arrived
<1>13. CASE Complete(b) = Complete(a)
  <2>1. Arrived' = Arrived
    BY <1>5, <1>12, <1>13 DEF Arrived
  <2> QED
    BY <1>2, <1>4, <1>6, <2>1 DEF Taken, Ending
<1>14. CASE Complete(a) = L - 1 /\ Complete(b) = L
  <2>1. PICK S : S = {Received(order[k]) : k \in DOMAIN order}
    OBVIOUS
  <2>2. /\ Arrived \in Seq(S) /\ Len(Arrived) = L - 1
        /\ \A k \in 1 .. L - 1 : Arrived[k] = Received(order[k])
    BY <1>5, <1>14, <2>1, ArrivedLength
  <2>3. Arrived' \in [1 .. L -> S]
    BY <1>7, <1>12, <1>14, <2>1, Lens
  <2>4. Arrived' \in Seq(S) /\ Len(Arrived') = L
    BY <1>7, <2>3, IsSequence
  <2>5. PICK m \in 0 .. L : m = L - 1
    BY <1>7
  <2>6. /\ SubSeq(Arrived', 1, m) \in Seq(S) /\ Len(SubSeq(Arrived', 1, m)) = m
        /\ \A k \in 1 .. m : SubSeq(Arrived', 1, m)[k] = Arrived'[k]
    BY <2>4, <2>5, FirstBytes
  <2>7. \A k \in 1 .. m : Arrived'[k] = Received(order[k])
    BY <1>7, <1>12, <1>14, <2>5
  <2>8. SubSeq(Arrived', 1, m) = Arrived
    BY <2>2, <2>5, <2>6, <2>7, SeqEqual
  <2>9. Len(Arrived') = Len(Arrived) + 1
    BY <1>7, <2>2, <2>4
  <2> QED
    BY <1>2, <1>4, <1>6, <2>2, <2>5, <2>8, <2>9 DEF Taken, Ending
<1> QED
  BY <1>11, <1>13, <1>14

LEMMA StreamKept ==
    ASSUME UNCHANGED <<plan, order, starts, rest, wire>>
    PROVE  /\ Arrived' = Arrived /\ Torn' = Torn
           /\ \A n : Complete(n)' = Complete(n)
<1>1. \A n : Complete(n)' = Complete(n)
  BY CompleteKept
<1>2. Complete(Len(wire))' = Complete(Len(wire))
  BY <1>1
<1>3. \A k : Received(order[k])' = Received(order[k])
  BY DEF Received, Shortened
<1>4. Torn' = Torn
  BY DEF Torn, Bytes
<1> QED
  BY <1>1, <1>2, <1>3, <1>4 DEF Arrived

\* What ends inside a frame leaves its reader with a part of it.
LEMMA PartIsTorn ==
    ASSUME Types, Layout, Sharing, Reading, NEW r \in Readers, Waiting(r), pos = Len(wire)
    PROVE  buf[r] # <<>> <=> Torn
<1>1. /\ wire \in Seq(Byte) /\ Len(wire) \in Nat /\ (wire = <<>> <=> Len(wire) = 0)
      /\ order # <<>> => 1 \in DOMAIN order
  BY Lens
<1>2. CASE r = Conn /\ NotYet
  <2>1. buf[r] = wire
    BY <1>1, <1>2, SubSeqFull DEF NotYet
  <2>2. CASE order = <<>>
    BY <2>1, <2>2 DEF Layout, Torn
  <2>3. CASE order # <<>> /\ wire = <<>>
    BY <1>1, <2>1, <2>3, TornSplits
  <2>4. CASE order # <<>> /\ wire # <<>>
    <3>1. starts[1] = 0 /\ Len(wire) < Need(1) /\ {Need(1), Bound(1)} \subseteq Nat /\ Need(1) <= Bound(1)
      BY <1>1, <1>2, <2>4, FrameFacts DEF Layout, NotYet
    <3>2. starts[1] < Len(wire) /\ Len(wire) < Bound(1)
      BY <1>1, <2>4, <3>1
    <3>3. Torn
      BY <1>1, <2>4, <3>2, TornInside
    <3> QED
      BY <2>1, <2>4, <3>3
  <2> QED
    BY <2>2, <2>3, <2>4
<1>3. CASE r \in plan.probes /\ r \in Probes /\ plan.end = "relay" /\ Returned
  <2>1. CASE Between
    <3>1. buf[r] = <<>>
      BY <1>3, <2>1 DEF Between
    <3>2. ~Torn
      BY <2>1, TornSplits DEF Between
    <3> QED
      BY <3>1, <3>2
  <2>2. CASE \E p \in Probes, k \in DOMAIN order : HasBegun(p, k)
    <3>1. PICK k \in DOMAIN order : HasBegun(r, k)
      BY <1>3, <2>2 DEF HasBegun
    <3>2. buf[r] # <<>>
      BY <3>1, BegunBytes
    <3>3. starts[k] < pos /\ pos < Need(k)
      BY <3>1 DEF HasBegun, AtFrame
    <3>4. {Need(k), Bound(k)} \subseteq Nat /\ Need(k) <= Bound(k)
      BY FrameFacts
    <3>5. Torn
      BY <1>1, <3>3, <3>4, TornInside
    <3> QED
      BY <3>2, <3>5
  <2> QED
    BY <1>3, <2>1, <2>2 DEF Returned
<1> QED
  BY <1>2, <1>3, WhoWaits

LEMMA ReadBytesMaps ==
    ASSUME Types, Layout, Contents, Sharing, Reading, NEW r \in Readers, ReadBytes(r)
    PROVE  Abstract!Deliver(r) \/ UNCHANGED Abstract!vars
<1>1. UNCHANGED <<plan, order, starts, rest, wire, socket>>
  BY DEF ReadBytes, writeVars
<1>2. /\ Arrived' = Arrived /\ Torn' = Torn
      /\ \A n : Complete(n)' = Complete(n)
  BY <1>1, StreamKept
<1>3. Ending' = Ending
  BY <1>1, <1>2 DEF Ending
<1>4. PICK k \in DOMAIN order : /\ Complete(pos) = k - 1
                                /\ ReadsPart(r, k) \/ ReadsWhole(r, k)
  BY ReadBytesReading DEF Reads
<1>5. Taken = k - 1 /\ k \in Nat \ {0} /\ DOMAIN order = 1 .. Len(order)
  BY <1>4, Lens DEF Taken
<1>6. Taken' = Complete(pos')
  <2>1. PICK q : q = pos'
    OBVIOUS
  <2>2. Complete(q)' = Complete(q)
    BY <1>2
  <2> QED
    BY <2>1, <2>2 DEF Taken
<1>7. CASE ReadsPart(r, k)
  BY <1>2, <1>3, <1>5, <1>6, <1>7 DEF ReadsPart, Abstract!vars
<1>8. CASE ReadsWhole(r, k)
  <2>1. /\ got' = [got EXCEPT ![r] = Parsed(Received(order[k]))]
        /\ k <= Complete(Len(wire))
        /\ Complete(pos') \in k .. (IF r = Conn THEN Complete(Len(wire)) ELSE k)
    BY <1>8 DEF ReadsWhole
  <2>2. /\ Len(Arrived) = Complete(Len(wire)) /\ Complete(Len(wire)) \in Nat
        /\ \A j \in 1 .. Complete(Len(wire)) : Arrived[j] = Received(order[j])
    BY ArrivedLength
  <2>3. Taken + 1 = k /\ Taken < Len(Arrived) /\ Arrived[Taken + 1] = Received(order[k])
    BY <1>5, <2>1, <2>2
  <2>4. Taken' \in Taken + 1 .. (IF r \in {Conn} THEN Len(Arrived) ELSE Taken + 1)
    BY <1>6, <2>1, <2>2, <2>3
  <2>5. got' = [got EXCEPT ![r] = Abstract!Result("frame", Arrived[Taken + 1])]
    BY <2>1, <2>3 DEF Parsed, Abstract!Result
  <2> QED
    BY <1>2, <1>3, <2>3, <2>4, <2>5 DEF Abstract!Deliver
<1> QED
  BY <1>4, <1>7, <1>8

LEMMA ReadEofMaps ==
    ASSUME Types, Layout, Contents, Sharing, Reading, NEW r \in Readers, ReadEof(r)
    PROVE  Reading' /\ Sharing' /\ (Abstract!End(r) \/ Abstract!Break(r))
<1>1. /\ Waiting(r) /\ pos = Len(wire) /\ socket = "fin"
      /\ got' = [got EXCEPT ![r] = Result(EofResult(r))]
      /\ UNCHANGED <<plan, writeVars, socket, pos, buf>>
  BY DEF ReadEof, AtEof, Waiting
<1>2. PICK at : at = CASE EofResult(r) = "error"         -> OnError
                       [] plan.end = "relay" /\ r = Conn -> "returned"
                       [] OTHER                          -> "idle"
  OBVIOUS
<1>3. Goto(r, at)
  BY <1>2 DEF ReadEof
<1>4. EofResult(r) \in {"none", "error"} /\ (EofResult(r) = "error" <=> buf[r] # <<>>)
  BY DEF EofResult
<1>5. buf[r] # <<>> => at # "idle"
  BY <1>2, <1>4 DEF OnError
<1>6. Reading' /\ Sharing'
  BY <1>1, <1>3, <1>4, <1>5, EndReading
<1>7. UNCHANGED <<plan, order, starts, rest, wire>>
  BY <1>1 DEF writeVars
<1>8. /\ Arrived' = Arrived /\ Torn' = Torn
      /\ \A n : Complete(n)' = Complete(n)
  BY <1>7, StreamKept
<1>9. Taken' = Taken /\ Ending' = Ending
  BY <1>1, <1>8 DEF Taken, Ending
<1>10. Taken = Len(Arrived)
  BY <1>1, ArrivedLength DEF Taken
<1>11. CASE Torn
  <2>1. EofResult(r) = "error" /\ Ending = "broken"
    BY <1>1, <1>4, <1>11, PartIsTorn DEF Ending
  <2>2. got' = [got EXCEPT ![r] = Abstract!Result("error", NoFrame)]
    BY <1>1, <2>1 DEF Result, Abstract!Result
  <2>3. Abstract!Break(r)
    BY <1>8, <1>9, <1>10, <2>1, <2>2 DEF Abstract!Break
  <2> QED
    BY <1>6, <2>3
<1>12. CASE ~Torn
  <2>1. EofResult(r) = "none" /\ Ending = "closed"
    BY <1>1, <1>4, <1>12, PartIsTorn DEF Ending
  <2>2. got' = [got EXCEPT ![r] = Abstract!Result("none", NoFrame)]
    BY <1>1, <2>1 DEF Result, Abstract!Result
  <2>3. Abstract!End(r)
    BY <1>8, <1>9, <1>10, <2>1, <2>2 DEF Abstract!End
  <2> QED
    BY <1>6, <2>3
<1> QED
  BY <1>11, <1>12

LEMMA ReadResetMaps ==
    ASSUME Types, Layout, Contents, Sharing, Reading, NEW r \in Readers, ReadReset(r)
    PROVE  Reading' /\ Sharing' /\ Abstract!Break(r)
<1>1. /\ Waiting(r) /\ pos = Len(wire) /\ socket = "rst" /\ socket' = "fin"
      /\ got' = [got EXCEPT ![r] = Result("error")] /\ Goto(r, OnError)
      /\ UNCHANGED <<plan, writeVars, pos, buf>>
  BY DEF ReadReset, Waiting
<1>2. PICK at : at = OnError
  OBVIOUS
<1>3. Goto(r, at) /\ at # "idle"
  BY <1>1, <1>2 DEF OnError
<1>4. Reading' /\ Sharing'
  BY <1>1, <1>3, EndReading
<1>5. UNCHANGED <<plan, order, starts, rest, wire>>
  BY <1>1 DEF writeVars
<1>6. /\ Arrived' = Arrived /\ Torn' = Torn
      /\ \A n : Complete(n)' = Complete(n)
  BY <1>5, StreamKept
<1>7. Taken' = Taken
  BY <1>1, <1>6 DEF Taken
<1>8. Taken = Len(Arrived)
  BY <1>1, ArrivedLength DEF Taken
<1>9. Ending = "broken" /\ Ending' \in {"closed", "broken"}
  BY <1>1, <1>6 DEF Ending
<1>10. got' = [got EXCEPT ![r] = Abstract!Result("error", NoFrame)]
  BY <1>1 DEF Result, Abstract!Result
<1> QED
  BY <1>4, <1>6, <1>7, <1>8, <1>9, <1>10 DEF Abstract!Break

LEMMA DeliveryInit ==
    ASSUME Init
    PROVE  Reading /\ Abstract!Init
<1>1. /\ order = <<>> /\ wire = <<>> /\ pos = 0 /\ socket = "open"
      /\ pc = [r \in Readers |-> "idle"] /\ buf = [r \in Readers |-> <<>>]
      /\ got = [r \in Readers |-> Result("waiting")]
  BY DEF Init
<1>2. Len(order) = 0 /\ Len(wire) = 0 /\ DOMAIN order = {}
  <2>1. <<>> \in Seq(Nat) /\ Len(<<>>) = 0
    BY EmptySeq
  <2>2. DOMAIN order = 1 .. 0
    BY <1>1, <2>1, LenProperties
  <2> QED
    BY <1>1, <2>1, <2>2
<1>3. Reading
  <2>1. SubSeq(wire, 1, 0) = <<>>
    BY SubSeqEmpty
  <2>2. NotYet
    BY <1>1, <1>2, <2>1, Sizes DEF NotYet, Readers
  <2> QED
    BY <1>1, <2>2, Sizes DEF Reading, Result
<1>4. \A n : Complete(n) = 0
  <2>1. \A n : {k \in DOMAIN order : starts[k] + Len(Bytes(Received(order[k]))) <= n} = {}
    BY <1>2
  <2> QED
    BY <2>1, FS_EmptySet DEF Complete
<1>5. Arrived = <<>> /\ Taken = 0
  <2>1. Arrived \in [1 .. 0 -> {}]
    BY <1>4 DEF Arrived
  <2>2. Arrived \in Seq({}) /\ Len(Arrived) = 0
    BY <2>1, IsSequence
  <2> QED
    BY <1>4, <2>2, EmptySeq DEF Taken
<1>6. Ending = "open"
  BY <1>1 DEF Ending
<1> QED
  BY <1>1, <1>3, <1>5, <1>6 DEF Abstract!Init, Abstract!Result, Result

LEMMA DeliveryStep ==
    ASSUME Types, Layout, Contents, Sharing, Reading, [Next]_vars
    PROVE  Sharing' /\ Reading' /\ [Abstract!Next]_(Abstract!vars)
<1>1. ASSUME UNCHANGED <<Arrived, Taken, Ending, got>>
      PROVE  [Abstract!Next]_(Abstract!vars)
  BY <1>1 DEF Abstract!vars
<1>2. ASSUME UNCHANGED <<plan, writeVars, socket, pos, got>>
      PROVE  UNCHANGED <<Arrived, Taken, Ending, got>>
  <2>1. UNCHANGED <<plan, order, starts, rest, wire>>
    BY <1>2 DEF writeVars
  <2>2. /\ Arrived' = Arrived /\ Torn' = Torn
        /\ \A n : Complete(n)' = Complete(n)
    BY <2>1, StreamKept
  <2> QED
    BY <1>2, <2>2 DEF Taken, Ending
<1>3. ASSUME UNCHANGED <<plan, todo, order, pc>>
      PROVE  Sharing'
  <2>1. \A w \in Writers : OneByteFrames(w) => OneByteFrames(w)'
    BY <1>3 DEF OneByteFrames
  <2> QED
    BY <1>3, <2>1 DEF Sharing
<1>4. ASSUME UNCHANGED <<plan, writeVars, readerVars>>
      PROVE  Sharing' /\ Reading'
  <2>1. UNCHANGED <<plan, todo, order, starts, wire, readerVars, pc>>
    BY <1>4 DEF writeVars, readerVars
  <2>2. \A k : Bound(k)' = Bound(k) /\ Need(k)' = Need(k)
    BY <2>1, SameFrames
  <2>3. wire \in Seq(Byte) /\ Len(wire) \in Nat
    BY Lens
  <2>4. wire' \in Seq(Byte) /\ Len(wire) <= Len(wire') /\ \A i \in 1 .. Len(wire) : wire'[i] = wire[i]
    BY <2>1, <2>3
  <2>5. plan.end = "relay" /\ got[Conn].status # "frame" => Len(order') <= 1
    BY <2>1 DEF Reading, NotYet
  <2>6. order' = order
    BY <2>1
  <2>7. Reading'
    BY <2>1, <2>2, <2>4, <2>5, <2>6, ReadersStay
  <2> QED
    BY <1>3, <2>1, <2>7
<1>5. ASSUME NEW w \in Writers, BeginWrite(w)
      PROVE  Sharing' /\ Reading' /\ [Abstract!Next]_(Abstract!vars)
  BY <1>1, <1>5, BeginWriteSharing, BeginWriteMaps
<1>6. CASE WriteBytes
  <2>1. Sharing'
    <3>1. UNCHANGED <<plan, todo, order, pc>>
      BY <1>6 DEF WriteBytes, readerVars
    <3> QED
      BY <1>3, <3>1
  <2>2. /\ Reading' /\ UNCHANGED <<Taken, Ending, got>> /\ Ending = "open"
        /\ \/ Arrived' = Arrived
           \/ /\ Len(Arrived') = Len(Arrived) + 1
              /\ SubSeq(Arrived', 1, Len(Arrived)) = Arrived
    BY <1>6, WriteBytesMaps
  <2>3. CASE Arrived' = Arrived
    BY <1>1, <2>1, <2>2, <2>3
  <2>4. CASE /\ Len(Arrived') = Len(Arrived) + 1
             /\ SubSeq(Arrived', 1, Len(Arrived)) = Arrived
    <3>1. Abstract!Write
      BY <2>2, <2>4 DEF Abstract!Write
    <3> QED
      BY <2>1, <2>2, <3>1 DEF Abstract!Next
  <2> QED
    BY <2>2, <2>3, <2>4
<1>7. CASE WriterEnds
  <2>1. /\ socket = "open" /\ socket' \in {"fin", "rst"}
        /\ UNCHANGED <<plan, writeVars, readerVars, pos, got>>
    BY <1>7 DEF WriterEnds, readerVars
  <2>2. UNCHANGED <<plan, order, starts, rest, wire>>
    BY <2>1 DEF writeVars
  <2>3. /\ Arrived' = Arrived /\ Torn' = Torn
        /\ \A n : Complete(n)' = Complete(n)
    BY <2>2, StreamKept
  <2>4. Taken' = Taken
    BY <2>1, <2>3 DEF Taken
  <2>5. Ending = "open" /\ Ending' \in {"closed", "broken"}
    BY <2>1 DEF Ending
  <2>6. Abstract!Close
    BY <2>1, <2>3, <2>4, <2>5 DEF Abstract!Close
  <2> QED
    BY <1>4, <2>1, <2>6 DEF Abstract!Next
<1>8. ASSUME NEW r \in Readers, TakeLock(r)
      PROVE  Sharing' /\ Reading' /\ [Abstract!Next]_(Abstract!vars)
  <2>1. Reading' /\ Sharing' /\ got' = got
    BY <1>8, TakeLockReading
  <2>2. UNCHANGED <<plan, writeVars, socket, pos, got>>
    BY <1>8 DEF TakeLock
  <2> QED
    BY <1>1, <1>2, <2>1, <2>2
<1>9. ASSUME NEW r \in Readers, Call(r)
      PROVE  Sharing' /\ Reading' /\ [Abstract!Next]_(Abstract!vars)
  <2>1. Reading' /\ Sharing' /\ got' = got
    BY <1>9, CallReading
  <2>2. UNCHANGED <<plan, writeVars, socket, pos, got>>
    BY <1>9, <2>1 DEF Call
  <2> QED
    BY <1>1, <1>2, <2>1, <2>2
<1>10. ASSUME NEW r \in Readers, ReadBytes(r)
       PROVE  Sharing' /\ Reading' /\ [Abstract!Next]_(Abstract!vars)
  BY <1>10, ReadBytesReading, ReadBytesMaps DEF Abstract!Next
<1>11. ASSUME NEW r \in Readers, ReadEof(r)
       PROVE  Sharing' /\ Reading' /\ [Abstract!Next]_(Abstract!vars)
  BY <1>11, ReadEofMaps DEF Abstract!Next
<1>12. ASSUME NEW r \in Readers, ReadReset(r)
       PROVE  Sharing' /\ Reading' /\ [Abstract!Next]_(Abstract!vars)
  BY <1>12, ReadResetMaps DEF Abstract!Next
<1>13. CASE UNCHANGED vars
  <2>1. UNCHANGED <<plan, writeVars, socket, readerVars, pos, got>>
    BY <1>13 DEF vars, readerVars
  <2> QED
    BY <1>1, <1>2, <1>4, <2>1
<1> QED
  BY <1>5, <1>6, <1>7, <1>8, <1>9, <1>10, <1>11, <1>12, <1>13 DEF Next, ReaderStep

(* Frames are read whole, once and in order, however long they are and     *)
(* however their bytes are cut, None means that the peer stopped between   *)
(* two frames, and a frame that breaks off is an error                     *)
(* (framehelper.rs:17-43) -- in every plan in which no task takes bytes of *)
(* a frame that another one has begun to read; the plans of Sound are the  *)
(* ones the tasks of relay.rs and sender.rs carry out without two probes   *)
(* of a peer that sends more than answers.                                 *)
THEOREM DeliveryCorrect == (\A p \in Plans : Sound(p)) => (Spec => ImplementsDelivery)
<1> SUFFICES ASSUME \A p \in Plans : Sound(p) PROVE Spec => ImplementsDelivery
  OBVIOUS
<1> DEFINE Inductive == Types /\ Layout /\ Contents /\ Sharing /\ Reading
<1>1. Init => Inductive
  BY TypesInit, LayoutInit, SharingInit, DeliveryInit
<1>2. Inductive /\ [Next]_vars => Inductive'
  BY TypesStep, LayoutStep, DeliveryStep
<1>3. Init => Abstract!Init
  BY DeliveryInit
<1>4. Inductive /\ [Next]_vars => [Abstract!Next]_(Abstract!vars)
  BY DeliveryStep
<1> QED
  BY <1>1, <1>2, <1>3, <1>4, PTL DEF Spec, ImplementsDelivery, Abstract!Spec
=============================================================================

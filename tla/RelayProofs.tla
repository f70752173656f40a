---------------------------- MODULE RelayProofs ----------------------------
(* Proofs about Relay, for every set of connections, ids and shards, every *)
(* number of worker threads and every size of the send buffers.            *)
EXTENDS Relay, SequenceTheorems, TLAPS

(* A frame that names a peer names a known one.                            *)
LEMMA FrameId ==
    ASSUME NEW f \in RelayFrames, f.op \in {"Register", "Probe", "DoConnect"}
    PROVE  f.id \in Ids
BY DEF RelayFrames, Register, Probe, DoConnect, Ping, ProbeAck

(* What reading and writing do to a socket's contents.                     *)
LEMMA TakeMessages ==
    ASSUME NEW M, NEW s \in Seq(M), NEW n \in 1 .. Len(s)
    PROVE  /\ SubSeq(s, n + 1, Len(s)) \in Seq(M)
           /\ Head(s) \in M
<1>1. Len(s) \in Nat /\ DOMAIN s = 1 .. Len(s) /\ s # <<>>
  BY LenProperties, EmptySeq
<1>2. \A i \in n + 1 .. Len(s) : s[i] \in M
  BY <1>1, ElementOfSeq
<1>3. SubSeq(s, n + 1, Len(s)) \in Seq(M)
  BY <1>1, <1>2, SubSeqProperties
<1> QED
  BY <1>1, <1>3, HeadTailProperties

LEMMA TakeMessage ==
    ASSUME NEW M, NEW s \in Seq(M), s # <<>>
    PROVE  /\ Head(s) \in M
           /\ Tail(s) \in Seq(M)
           /\ Len(Tail(s)) = Len(s) - 1
BY HeadTailProperties

LEMMA AddMessage ==
    ASSUME NEW M, NEW s \in Seq(M), NEW m \in M
    PROVE  Append(s, m) \in Seq(M) /\ Len(Append(s, m)) = Len(s) + 1
BY AppendProperties

LEMMA NoMessage ==
    ASSUME NEW M
    PROVE  <<>> \in Seq(M) /\ Len(<<>>) = 0
BY EmptySeq

-----------------------------------------------------------------------------
(* The inductive invariant.                                                *)

InsertHasFrame ==
    \A c \in Conns : pc[c] = "insert" => frame[c] # None /\ frame[c].op = "Register"
ReplyIsReady ==
    \A c \in Conns : pc[c] \in {"reply", "replying"} => reply[c] \in PeerFrames
OnlyEmptyIsRead ==
    \A c \in Conns : pc[c] = "reading" => frame[c] = None
ServingHoldsGuard ==
    \A c \in Conns : Serving(c) => guard[c] # None /\ dst[c] # None
GuardIsEntry ==
    \A c \in Conns : guard[c] # None => cache[guard[c]] = dst[c]
CachedHasFrame ==
    \A i \in Ids : cache[i] # None => frame[cache[i]] # None

StreamInv ==
    /\ TypeOK
    /\ InsertHasFrame /\ ReplyIsReady /\ OnlyEmptyIsRead
    /\ ServingHoldsGuard /\ GuardIsEntry /\ CachedHasFrame

LEMMA StreamInit == Init => StreamInv
<1> SUFFICES ASSUME Init PROVE StreamInv
  OBVIOUS
<1>1. TypeOK
  BY NoMessage, SendersAssumption, BoundsAssumption DEF Init, TypeOK, Pcs
<1>2. InsertHasFrame /\ ReplyIsReady /\ OnlyEmptyIsRead
  BY DEF Init, InsertHasFrame, ReplyIsReady, OnlyEmptyIsRead
<1>3. ServingHoldsGuard
  BY DEF Init, ServingHoldsGuard, Serving, ProbePcs, ForwardPcs
<1>4. GuardIsEntry /\ CachedHasFrame
  BY DEF Init, GuardIsEntry, CachedHasFrame
<1> QED
  BY <1>1, <1>2, <1>3, <1>4 DEF StreamInv

(* Writing to a socket keeps its contents in their type.                   *)
LEMMA WriteType ==
    ASSUME TypeOK, NEW d \in Conns, NEW f \in PeerFrames,
           Write(d, f) \/ WriteFails(d)
    PROVE  /\ outbox' \in [Conns -> Seq(PeerFrames)]
           /\ \A c \in Conns : Len(outbox'[c]) <= OutCap
<1>1. CASE UNCHANGED outbox
  BY <1>1 DEF TypeOK
<1>2. CASE Len(outbox[d]) < OutCap
           /\ outbox' = [outbox EXCEPT ![d] = Append(@, f)]
  <2>1. outbox[d] \in Seq(PeerFrames)
    BY DEF TypeOK
  <2>2. Append(outbox[d], f) \in Seq(PeerFrames)
        /\ Len(Append(outbox[d], f)) = Len(outbox[d]) + 1
    BY <2>1, AddMessage
  <2>3. Len(outbox[d]) \in Nat
    BY <2>1, LenProperties
  <2>4. Len(outbox[d]) + 1 <= OutCap
    BY <1>2, <2>3, BoundsAssumption
  <2> QED
    BY <1>2, <2>2, <2>4 DEF TypeOK
<1> QED
  BY <1>1, <1>2 DEF Write, WriteFails

(* So does sending to the relay.                                           *)
LEMMA SendType ==
    ASSUME TypeOK, NEW c \in Conns, NEW f \in RelayFrames, Send(c, f)
    PROVE  inbox' \in [Conns -> Seq(RelayFrames)]
<1>1. inbox[c] \in Seq(RelayFrames)
  BY DEF TypeOK
<1>2. Append(inbox[c], f) \in Seq(RelayFrames)
  BY <1>1, AddMessage
<1> QED
  BY <1>2 DEF Send, TypeOK

-----------------------------------------------------------------------------
(* Every action keeps the types.                                           *)

\* What a task's step may rely on.
LEMMA Framed ==
    ASSUME StreamInv, NEW c \in Conns
    PROVE  /\ frame[c] # None => frame[c] \in RelayFrames
           /\ frame[c] # None /\ frame[c].op \in {"Register", "Probe", "DoConnect"}
                => frame[c].id \in Ids
           /\ pc[c] = "insert" => frame[c].id \in Ids
           /\ Serving(c) => dst[c] \in Conns /\ guard[c] \in Ids
           /\ pc[c] \in {"reply", "replying"} => reply[c] \in PeerFrames
<1>1. frame[c] # None => frame[c] \in RelayFrames
  BY DEF StreamInv, TypeOK
<1>2. frame[c] # None /\ frame[c].op \in {"Register", "Probe", "DoConnect"}
        => frame[c].id \in Ids
  BY <1>1, FrameId
<1>3. pc[c] = "insert" => frame[c].id \in Ids
  BY <1>2 DEF StreamInv, InsertHasFrame
<1>4. Serving(c) => dst[c] \in Conns /\ guard[c] \in Ids
  BY DEF StreamInv, TypeOK, ServingHoldsGuard
<1>5. pc[c] \in {"reply", "replying"} => reply[c] \in PeerFrames
  BY DEF StreamInv, TypeOK, ReplyIsReady
<1> QED
  BY <1>1, <1>2, <1>3, <1>4, <1>5

LEMMA ResultType ==
    ASSUME NEW op \in {"RegisterResult", "ProbeResult", "DoConnectResult", "PingResult"},
           NEW ok \in BOOLEAN
    PROVE  Result(op, ok) \in PeerFrames
BY DEF PeerFrames

\* Dropping the reference and answering.
LEMMA ReleaseType ==
    ASSUME TypeOK, NEW c \in Conns, NEW f \in PeerFrames, Release(c, f)
    PROVE  /\ dst' \in [Conns -> Conns \cup {None}]
           /\ guard' \in [Conns -> Ids \cup {None}]
           /\ reply' \in [Conns -> PeerFrames \cup {None}]
           /\ pc' \in [Conns -> Pcs]
BY DEF Release, Answer, Goto, TypeOK, Pcs

LEMMA TaskType ==
    ASSUME StreamInv, NEW c \in Conns, TaskStep(c)
    PROVE  TypeOK'
<1> USE DEF Polled, Goto, Pcs, ProbePcs, ForwardPcs
<1>0. TypeOK
  BY DEF StreamInv
<1>1. CASE LockToRead(c)
  BY <1>0, <1>1 DEF LockToRead, Lock, TypeOK, peerVars
<1>2. CASE LockToSync(c) \/ LockToAck(c) \/ LockToTell(c)
  <2>1. dst[c] \in Conns
    BY <1>2, Framed DEF LockToSync, LockToAck, LockToTell, LockDst, Serving
  <2>2. PICK from \in Pcs, to \in Pcs : LockDst(c, from, to)
    BY <1>2 DEF LockToSync, LockToAck, LockToTell
  <2> QED
    BY <1>0, <2>1, <2>2 DEF LockDst, Lock, TypeOK, peerVars
<1>3. CASE LockToReply(c)
  BY <1>0, <1>3 DEF LockToReply, Lock, TypeOK, peerVars
<1>4. CASE ReadFrame(c)
  <2>1. PICK n \in 1 .. Len(inbox[c]) :
           inbox' = [inbox EXCEPT ![c] = SubSeq(@, n + 1, Len(@))]
    BY <1>4 DEF ReadFrame
  <2>2. inbox[c] \in Seq(RelayFrames)
    BY <1>0 DEF TypeOK
  <2>3. SubSeq(inbox[c], n + 1, Len(inbox[c])) \in Seq(RelayFrames)
        /\ Head(inbox[c]) \in RelayFrames
    BY <2>2, TakeMessages
  <2>4. inbox' \in [Conns -> Seq(RelayFrames)]
    BY <1>0, <2>1, <2>3 DEF TypeOK
  <2> QED
    BY <1>0, <1>4, <2>3, <2>4 DEF ReadFrame, Unlock, TypeOK, peerVars
<1>5. CASE ReadEof(c)
  BY <1>0, <1>5 DEF ReadEof, Unlock, TypeOK, peerVars
<1>6. CASE HandleRegister(c)
  BY <1>0, <1>6 DEF HandleRegister, TypeOK, peerVars
<1>7. CASE Insert(c)
  <2>1. frame[c].id \in Ids
    BY <1>7, Framed DEF Insert
  <2>2. Result("RegisterResult", TRUE) \in PeerFrames
    BY ResultType
  <2> QED
    BY <1>0, <1>7, <2>1, <2>2 DEF Insert, Answer, TypeOK, peerVars
<1>8. CASE HandleProbe(c)
  <2>1. frame[c].id \in Ids
    BY <1>8, Framed DEF HandleProbe
  <2>2. Result("ProbeResult", FALSE) \in PeerFrames
        /\ Result("DoConnectResult", FALSE) \in PeerFrames
    BY ResultType
  <2>3. CASE cache[frame[c].id] = None
    <3>1. PICK f \in PeerFrames : Answer(c, f)
      BY <1>8, <2>2, <2>3 DEF HandleProbe
    <3>2. UNCHANGED <<dst, guard>>
      BY <1>8, <2>3 DEF HandleProbe
    <3> QED
      BY <1>0, <1>8, <3>1, <3>2 DEF HandleProbe, Answer, TypeOK, peerVars
  <2>4. CASE cache[frame[c].id] # None
    BY <1>0, <1>8, <2>1, <2>4 DEF HandleProbe, TypeOK, peerVars
  <2> QED
    BY <2>3, <2>4
<1>9. CASE HandlePing(c)
  <2>1. Result("PingResult", TRUE) \in PeerFrames
    BY ResultType
  <2> QED
    BY <1>0, <1>9, <2>1 DEF HandlePing, Answer, TypeOK, peerVars
<1>10. CASE HandleProbeAck(c)
  BY <1>0, <1>10 DEF HandleProbeAck, TypeOK, peerVars
<1>11. CASE WriteSync(c)
  <2>1. dst[c] \in Conns
    BY <1>11, Framed DEF WriteSync, Serving
  <2>2. Sync \in PeerFrames
    BY DEF PeerFrames
  <2>3. outbox' \in [Conns -> Seq(PeerFrames)]
        /\ \A d \in Conns : Len(outbox'[d]) <= OutCap
    BY <1>0, <1>11, <2>1, <2>2, WriteType DEF WriteSync
  <2>4. Result("ProbeResult", FALSE) \in PeerFrames
    BY ResultType
  <2>5. lock' \in [Conns -> Conns \cup {None}]
    BY <1>0, <1>11, <2>1 DEF WriteSync, Unlock, TypeOK
  <2>6. CASE Goto(c, "ack") /\ UNCHANGED <<reply, dst, guard>>
    BY <1>0, <1>11, <2>3, <2>5, <2>6 DEF WriteSync, TypeOK, peerVars
  <2>7. CASE Release(c, Result("ProbeResult", FALSE))
    BY <1>0, <1>11, <2>3, <2>4, <2>5, <2>7, ReleaseType DEF WriteSync, TypeOK, peerVars
  <2> QED
    BY <1>11, <2>6, <2>7 DEF WriteSync
<1>12. CASE ReadAck(c)
  <2>1. dst[c] \in Conns
    BY <1>12, Framed DEF ReadAck, Serving
  <2>2. Tail(inbox[dst[c]]) \in Seq(RelayFrames)
    BY <1>0, <1>12, <2>1, TakeMessage DEF ReadAck, TypeOK
  <2>3. Result("ProbeResult", Head(inbox[dst[c]]) = ProbeAck) \in PeerFrames
    BY ResultType
  <2>4. inbox' \in [Conns -> Seq(RelayFrames)]
        /\ lock' \in [Conns -> Conns \cup {None}]
    BY <1>0, <1>12, <2>1, <2>2 DEF ReadAck, Unlock, TypeOK
  <2> QED
    BY <1>0, <1>12, <2>3, <2>4, ReleaseType DEF ReadAck, TypeOK, peerVars
<1>13. CASE AckEof(c)
  <2>1. dst[c] \in Conns
    BY <1>13, Framed DEF AckEof, Serving
  <2>2. Result("ProbeResult", FALSE) \in PeerFrames
    BY ResultType
  <2>3. lock' \in [Conns -> Conns \cup {None}]
    BY <1>0, <1>13, <2>1 DEF AckEof, Unlock, TypeOK
  <2>4. CASE Release(c, Result("ProbeResult", FALSE))
    BY <1>0, <1>13, <2>2, <2>3, <2>4, ReleaseType DEF AckEof, TypeOK, peerVars
  <2>5. CASE /\ Goto(c, "panicked")
             /\ dst' = [dst EXCEPT ![c] = None]
             /\ guard' = [guard EXCEPT ![c] = None]
             /\ UNCHANGED reply
    BY <1>0, <1>13, <2>3, <2>5 DEF AckEof, TypeOK, peerVars
  <2> QED
    BY <1>13, <2>4, <2>5 DEF AckEof
<1>14. CASE WriteTell(c)
  <2>1. dst[c] \in Conns
    BY <1>14, Framed DEF WriteTell, Serving
  <2>2. DoConnectTo \in PeerFrames
    BY DEF PeerFrames
  <2>3. outbox' \in [Conns -> Seq(PeerFrames)]
        /\ \A d \in Conns : Len(outbox'[d]) <= OutCap
    BY <1>0, <1>14, <2>1, <2>2, WriteType DEF WriteTell
  <2>4. Result("DoConnectResult", FALSE) \in PeerFrames
        /\ Result("DoConnectResult", TRUE) \in PeerFrames
    BY ResultType
  <2>5. PICK r \in PeerFrames : Release(c, r)
    BY <1>14, <2>4 DEF WriteTell
  <2>6. lock' \in [Conns -> Conns \cup {None}]
    BY <1>0, <1>14, <2>1 DEF WriteTell, Unlock, TypeOK
  <2> QED
    BY <1>0, <1>14, <2>3, <2>5, <2>6, ReleaseType DEF WriteTell, TypeOK, peerVars
<1>15. CASE WriteReply(c)
  <2>1. reply[c] \in PeerFrames
    BY <1>15, Framed DEF WriteReply
  <2>2. outbox' \in [Conns -> Seq(PeerFrames)]
        /\ \A d \in Conns : Len(outbox'[d]) <= OutCap
    BY <1>0, <1>15, <2>1, WriteType DEF WriteReply
  <2>3. slot' \in [Conns -> Conns \cup {None}]
    BY <1>0, <1>15 DEF WriteReply, WakeOne, Queued, TypeOK
  <2> QED
    BY <1>0, <1>15, <2>2, <2>3 DEF WriteReply, AfterReply, Unlock, TypeOK, peerVars
<1> QED
  BY <1>1, <1>2, <1>3, <1>4, <1>5, <1>6, <1>7, <1>8, <1>9, <1>10, <1>11, <1>12,
     <1>13, <1>14, <1>15 DEF TaskStep, LockStep, HandleStep

LEMMA PeerType ==
    ASSUME StreamInv, NEW c \in Conns, PeerStep(c)
    PROVE  TypeOK'
<1>0. TypeOK
  BY DEF StreamInv
<1>1. CASE PeerRequests(c)
  <2>1. PICK f \in {Register(Own[c]), Ping, ProbeAck} \cup {Probe(i) : i \in Ids}
                      \cup {DoConnect(i) : i \in Ids} :
           /\ Send(c, f)
           /\ requests' = [requests EXCEPT ![c] = IF f.op = "Register" THEN MaxRequests
                                                                     ELSE @ + 1]
    BY <1>1 DEF PeerRequests
  <2>2. f \in RelayFrames
    BY IdsAssumption DEF RelayFrames
  <2>3. inbox' \in [Conns -> Seq(RelayFrames)]
    BY <1>0, <2>1, <2>2, SendType
  <2>4. requests' \in [Conns -> 0 .. MaxRequests]
    BY <1>0, <1>1, <2>1, BoundsAssumption DEF PeerRequests, TypeOK
  <2> QED
    BY <1>0, <1>1, <2>3, <2>4 DEF PeerRequests, TypeOK, taskVars
<1>2. CASE PeerReads(c) \/ SenderReads(c)
  <2>1. outbox[c] \in Seq(PeerFrames) /\ outbox[c] # <<>> 
    BY <1>0, <1>2 DEF PeerReads, SenderReads, TypeOK
  <2>2. /\ Head(outbox[c]) \in PeerFrames
        /\ Tail(outbox[c]) \in Seq(PeerFrames)
        /\ Len(Tail(outbox[c])) = Len(outbox[c]) - 1
    BY <2>1, TakeMessage
  <2>3. Len(Tail(outbox[c])) <= OutCap
    BY <1>0, <2>1, <2>2, LenProperties, BoundsAssumption DEF TypeOK
  <2>4. outbox' = [outbox EXCEPT ![c] = Tail(@)]
    BY <1>2 DEF PeerReads, SenderReads
  <2>5. outbox' \in [Conns -> Seq(PeerFrames)]
        /\ \A d \in Conns : Len(outbox'[d]) <= OutCap
    BY <1>0, <2>2, <2>3, <2>4 DEF TypeOK
  <2>6. CASE PeerReads(c)
    BY <1>0, <2>5, <2>6 DEF PeerReads, TypeOK, taskVars
  <2>7. CASE SenderReads(c)
    BY <1>0, <2>2, <2>5, <2>7 DEF SenderReads, TypeOK, taskVars
  <2> QED
    BY <1>2, <2>6, <2>7
<1>3. CASE PeerAcks(c)
  <2>1. inbox' \in [Conns -> Seq(RelayFrames)]
    BY <1>0, <1>3, SendType DEF PeerAcks, RelayFrames
  <2>2. owed' \in [Conns -> Nat]
    BY <1>0, <1>3 DEF PeerAcks, TypeOK
  <2> QED
    BY <1>0, <1>3, <2>1, <2>2 DEF PeerAcks, TypeOK, taskVars
<1>4. CASE PeerCloses(c)
  <2>1. outbox' \in [Conns -> Seq(PeerFrames)]
        /\ \A d \in Conns : Len(outbox'[d]) <= OutCap
    BY <1>0, <1>4, NoMessage, BoundsAssumption DEF PeerCloses, TypeOK
  <2> QED
    BY <1>0, <1>4, <2>1 DEF PeerCloses, TypeOK, taskVars
<1>5. CASE SenderStarts(c)
  <2>1. Register(Own[c]) \in RelayFrames
    BY IdsAssumption DEF RelayFrames
  <2>2. inbox' \in [Conns -> Seq(RelayFrames)]
    BY <1>0, <1>5, <2>1, SendType DEF SenderStarts
  <2> QED
    BY <1>0, <1>5, <2>2 DEF SenderStarts, TypeOK, taskVars
<1>6. CASE SenderRegistered(c)
  <2>1. \A i \in Ids : Probe(i) \in RelayFrames
    BY DEF RelayFrames
  <2>2. inbox' \in [Conns -> Seq(RelayFrames)]
    BY <1>0, <1>6, <2>1, SendType DEF SenderRegistered, TypeOK
  <2> QED
    BY <1>0, <1>6, <2>2 DEF SenderRegistered, TypeOK, taskVars
<1>7. CASE SenderProbed(c)
  BY <1>0, <1>7 DEF SenderProbed, TypeOK, taskVars
<1> QED
  BY <1>1, <1>2, <1>3, <1>4, <1>5, <1>6, <1>7 DEF PeerStep

-----------------------------------------------------------------------------
(* Every action keeps the rest of the invariant.                           *)

\* The reply of a task that stops serving.
LEMMA ReleaseStream ==
    ASSUME StreamInv, NEW c \in Conns, NEW f \in PeerFrames, Release(c, f),
           UNCHANGED <<frame, cache>>
    PROVE  /\ InsertHasFrame' /\ ReplyIsReady' /\ OnlyEmptyIsRead'
           /\ ServingHoldsGuard' /\ GuardIsEntry' /\ CachedHasFrame'
<1> USE DEF Release, Answer, Goto, StreamInv, TypeOK
<1>1. InsertHasFrame' /\ OnlyEmptyIsRead'
  BY DEF InsertHasFrame, OnlyEmptyIsRead
<1>2. ReplyIsReady'
  BY DEF ReplyIsReady
<1>3. ServingHoldsGuard'
  BY DEF ServingHoldsGuard, Serving, ProbePcs, ForwardPcs
<1>4. GuardIsEntry' /\ CachedHasFrame'
  BY DEF GuardIsEntry, CachedHasFrame
<1> QED
  BY <1>1, <1>2, <1>3, <1>4

LEMMA TaskStream ==
    ASSUME StreamInv, NEW c \in Conns, TaskStep(c)
    PROVE  /\ InsertHasFrame' /\ ReplyIsReady' /\ OnlyEmptyIsRead'
           /\ ServingHoldsGuard' /\ GuardIsEntry' /\ CachedHasFrame'
<1> USE DEF Polled, Goto, Answer, Serving, ProbePcs, ForwardPcs
<1> USE DEF InsertHasFrame, ReplyIsReady, OnlyEmptyIsRead, ServingHoldsGuard,
            GuardIsEntry, CachedHasFrame
<1>1. CASE LockToRead(c)
  BY <1>1 DEF LockToRead, StreamInv, TypeOK
<1>2. CASE LockToSync(c) \/ LockToAck(c) \/ LockToTell(c)
  <2>1. PICK from \in ProbePcs \cup ForwardPcs, to \in ProbePcs \cup ForwardPcs :
            /\ pc[c] = from /\ pc' = [pc EXCEPT ![c] = to]
            /\ UNCHANGED <<frame, reply, dst, guard, cache>>
    BY <1>2 DEF LockToSync, LockToAck, LockToTell, LockDst
  <2>2. InsertHasFrame' /\ ReplyIsReady' /\ OnlyEmptyIsRead'
    BY <2>1 DEF StreamInv, TypeOK
  <2>3. ServingHoldsGuard'
    BY <2>1 DEF StreamInv, TypeOK
  <2> QED
    BY <2>1, <2>2, <2>3 DEF StreamInv
<1>3. CASE LockToReply(c)
  <2>1. /\ pc[c] = "reply" /\ pc' = [pc EXCEPT ![c] = "replying"]
        /\ UNCHANGED <<frame, reply, dst, guard, cache>>
    BY <1>3 DEF LockToReply
  <2>2. ReplyIsReady'
    BY <2>1 DEF StreamInv, TypeOK
  <2> QED
    BY <2>1, <2>2 DEF StreamInv, TypeOK
<1>4. CASE ReadFrame(c)
  BY <1>4 DEF ReadFrame, StreamInv, TypeOK
<1>5. CASE ReadEof(c)
  BY <1>5 DEF ReadEof, StreamInv, TypeOK
<1>6. CASE HandleRegister(c)
  BY <1>6 DEF HandleRegister, StreamInv, TypeOK
<1>7. CASE Insert(c)
  <2> DEFINE i == frame[c].id
  <2>1. i \in Ids /\ frame[c] # None
    BY <1>7, Framed DEF Insert, StreamInv
  <2>2. /\ cache' = [cache EXCEPT ![i] = c]
        /\ UNCHANGED <<frame, dst, guard>>
    BY <1>7 DEF Insert
  <2>3. \A d \in Conns : guard[d] # None => guard[d] # i
    BY <1>7 DEF Insert, CacheFree, ShardHeld
  <2>4. GuardIsEntry'
    BY <2>1, <2>2, <2>3 DEF StreamInv, TypeOK
  <2>5. CachedHasFrame'
    BY <2>1, <2>2 DEF StreamInv, TypeOK
  <2>6. CASE pc' = [pc EXCEPT ![c] = "panicked"] /\ UNCHANGED reply
    <3>1. InsertHasFrame' /\ OnlyEmptyIsRead' /\ ServingHoldsGuard' /\ ReplyIsReady'
      BY <2>2, <2>6 DEF StreamInv, TypeOK
    <3> QED
      BY <2>4, <2>5, <3>1
  <2>7. CASE Answer(c, Result("RegisterResult", TRUE))
    <3>1. PICK f \in PeerFrames : Answer(c, f)
      BY <2>7, ResultType
    <3>2. InsertHasFrame' /\ OnlyEmptyIsRead' /\ ServingHoldsGuard' /\ ReplyIsReady'
      BY <2>2, <3>1 DEF StreamInv, TypeOK
    <3> QED
      BY <2>4, <2>5, <3>2
  <2> QED
    BY <1>7, <2>6, <2>7 DEF Insert
<1>8. CASE HandleProbe(c)
  <2> DEFINE i == frame[c].id
  <2>1. i \in Ids /\ i # None
    BY <1>8, Framed, NoneAssumption DEF HandleProbe
  <2>2. UNCHANGED <<frame, cache>>
    BY <1>8 DEF HandleProbe
  <2>3. CASE cache[i] = None
    <3>1. PICK f \in PeerFrames : Answer(c, f)
      BY <1>8, <2>3, ResultType DEF HandleProbe
    <3>2. UNCHANGED <<dst, guard>>
      BY <1>8, <2>3 DEF HandleProbe
    <3> QED
      BY <2>2, <3>1, <3>2 DEF StreamInv, TypeOK
  <2>4. CASE cache[i] # None
    <3>1. /\ dst' = [dst EXCEPT ![c] = cache[i]]
          /\ guard' = [guard EXCEPT ![c] = i]
          /\ UNCHANGED reply
      BY <1>8, <2>4 DEF HandleProbe
    <3>2. PICK at \in {"sync", "tell"} : pc' = [pc EXCEPT ![c] = at]
      BY <1>8, <2>4 DEF HandleProbe
    <3>3. GuardIsEntry' /\ CachedHasFrame'
      BY <2>1, <2>2, <3>1 DEF StreamInv, TypeOK
    <3>4. ServingHoldsGuard'
      BY <2>1, <2>4, <3>1, <3>2 DEF StreamInv, TypeOK
    <3>5. InsertHasFrame' /\ OnlyEmptyIsRead' /\ ReplyIsReady'
      BY <2>2, <3>1, <3>2 DEF StreamInv, TypeOK
    <3> QED
      BY <3>3, <3>4, <3>5
  <2> QED
    BY <2>3, <2>4
<1>9. CASE HandlePing(c)
  <2>1. PICK f \in PeerFrames : Answer(c, f)
    BY <1>9, ResultType DEF HandlePing
  <2>2. UNCHANGED <<frame, dst, guard, cache>>
    BY <1>9 DEF HandlePing
  <2> QED
    BY <2>1, <2>2 DEF StreamInv, TypeOK
<1>10. CASE HandleProbeAck(c)
  BY <1>10 DEF HandleProbeAck, StreamInv, TypeOK
<1>11. CASE WriteSync(c)
  <2>1. CASE Goto(c, "ack") /\ UNCHANGED <<reply, dst, guard>>
    BY <1>11, <2>1 DEF WriteSync, StreamInv, TypeOK
  <2>2. CASE Release(c, Result("ProbeResult", FALSE))
    BY <1>11, <2>2, ResultType, ReleaseStream DEF WriteSync
  <2> QED
    BY <1>11, <2>1, <2>2 DEF WriteSync
<1>12. CASE ReadAck(c)
  BY <1>12, ResultType, ReleaseStream DEF ReadAck
<1>13. CASE AckEof(c)
  <2>1. CASE Release(c, Result("ProbeResult", FALSE))
    BY <1>13, <2>1, ResultType, ReleaseStream DEF AckEof
  <2>2. CASE /\ Goto(c, "panicked")
             /\ dst' = [dst EXCEPT ![c] = None]
             /\ guard' = [guard EXCEPT ![c] = None]
             /\ UNCHANGED reply
    BY <1>13, <2>2 DEF AckEof, StreamInv, TypeOK
  <2> QED
    BY <1>13, <2>1, <2>2 DEF AckEof
<1>14. CASE WriteTell(c)
  BY <1>14, ResultType, ReleaseStream DEF WriteTell
<1>15. CASE WriteReply(c)
  BY <1>15 DEF WriteReply, AfterReply, StreamInv, TypeOK
<1> QED
  BY <1>1, <1>2, <1>3, <1>4, <1>5, <1>6, <1>7, <1>8, <1>9, <1>10, <1>11, <1>12,
     <1>13, <1>14, <1>15 DEF TaskStep, LockStep, HandleStep

\* What a peer does touches none of it.
LEMMA OthersStream ==
    ASSUME StreamInv, UNCHANGED taskVars
    PROVE  /\ InsertHasFrame' /\ ReplyIsReady' /\ OnlyEmptyIsRead'
           /\ ServingHoldsGuard' /\ GuardIsEntry' /\ CachedHasFrame'
BY DEF StreamInv, taskVars, InsertHasFrame, ReplyIsReady, OnlyEmptyIsRead,
       ServingHoldsGuard, GuardIsEntry, CachedHasFrame, Serving

LEMMA PeerKeepsTasks ==
    ASSUME NEW c, PeerStep(c)
    PROVE  UNCHANGED taskVars
BY DEF PeerStep, PeerRequests, PeerReads, PeerAcks, PeerCloses, SenderStarts,
       SenderReads, SenderRegistered, SenderProbed

LEMMA StreamStep == StreamInv /\ [Next]_vars => StreamInv'
<1> SUFFICES ASSUME StreamInv, [Next]_vars PROVE StreamInv'
  OBVIOUS
<1>1. ASSUME NEW c \in Conns, TaskStep(c) PROVE StreamInv'
  BY <1>1, TaskType, TaskStream DEF StreamInv
<1>2. ASSUME NEW c \in Conns, PeerStep(c) PROVE StreamInv'
  BY <1>2, PeerType, PeerKeepsTasks, OthersStream DEF StreamInv
<1>3. CASE UNCHANGED vars
  <2>1. TypeOK'
    BY <1>3 DEF StreamInv, TypeOK, vars, peerVars, taskVars
  <2>2. UNCHANGED taskVars
    BY <1>3 DEF vars
  <2> QED
    BY <2>1, <2>2, OthersStream DEF StreamInv
<1> QED
  BY <1>1, <1>2, <1>3 DEF Next

(* What the tasks of the relay keep true of frames, streams and cache.     *)
THEOREM StreamCorrect == Spec => []StreamInv
BY StreamInit, StreamStep, PTL DEF Spec

-----------------------------------------------------------------------------
(* The theorems.                                                           *)

(* The relay's state, its streams and caches keep their types: no task     *)
(* indexes the cache by a stale id or answers with no reply at hand.       *)
THEOREM TypeCorrect == Spec => []TypeOK
<1>1. StreamInv => TypeOK
  BY DEF StreamInv
<1> QED
  BY <1>1, StreamCorrect, PTL

(* No registration replaces the stream a probe or a doconnect is using,    *)
(* whatever the shards, the worker threads and the number of peers         *)
(* (relay.rs:167, 176, 228).                                               *)
THEOREM GuardCorrect == Spec => []GuardPinsEntry
<1>1. StreamInv => GuardPinsEntry
  BY DEF StreamInv, ServingHoldsGuard, GuardIsEntry, GuardPinsEntry
<1> QED
  BY <1>1, StreamCorrect, PTL

(* A task that other tasks can find in the cache never reads its stream    *)
(* again: the ProbeAcks on it are left to probe (relay.rs:321).            *)
THEOREM ReadCorrect == Spec => []RegisteredIsNotRead
<1>1. StreamInv => RegisteredIsNotRead
  BY DEF StreamInv, TypeOK, OnlyEmptyIsRead, CachedHasFrame, RegisteredIsNotRead
<1> QED
  BY <1>1, StreamCorrect, PTL
=============================================================================

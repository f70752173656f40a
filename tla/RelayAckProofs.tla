--------------------------- MODULE RelayAckProofs ---------------------------
(* No answer to a probe is lost, for every set of connections, ids and     *)
(* shards, every number of worker threads and every size of the buffers.   *)
EXTENDS RelayProofs, FiniteSetTheorems

-----------------------------------------------------------------------------
(* Counting the messages m in a socket's contents s.                       *)

Places(s, m) == {n \in 1 .. Len(s) : s[n] = m}

LEMMA PlacesFinite ==
    ASSUME NEW M, NEW s \in Seq(M), NEW m
    PROVE  IsFiniteSet(Places(s, m)) /\ Cardinality(Places(s, m)) \in Nat
<1>1. Len(s) \in Nat
  BY LenProperties
<1>2. IsFiniteSet(1 .. Len(s))
  BY <1>1, FS_Interval
<1>3. Places(s, m) \in SUBSET (1 .. Len(s))
  BY DEF Places
<1> QED
  BY <1>2, <1>3, FS_Subset, FS_CardinalityType

LEMMA PlacesAppend ==
    ASSUME NEW M, NEW s \in Seq(M), NEW x \in M, NEW m
    PROVE  Cardinality(Places(Append(s, x), m))
             = Cardinality(Places(s, m)) + (IF x = m THEN 1 ELSE 0)
<1> DEFINE t == Append(s, x)
<1>1. /\ Len(s) \in Nat /\ Len(t) = Len(s) + 1
      /\ \A i \in 1 .. Len(s) : t[i] = s[i]
      /\ t[Len(s) + 1] = x
  BY LenProperties, AppendProperties
<1>2. IsFiniteSet(Places(s, m)) /\ Cardinality(Places(s, m)) \in Nat
  BY PlacesFinite
<1>3. Len(s) + 1 \notin Places(s, m)
  BY <1>1 DEF Places
<1>4. CASE x = m
  <2>1. Places(t, m) = Places(s, m) \cup {Len(s) + 1}
    BY <1>1, <1>4 DEF Places
  <2> QED
    BY <1>2, <1>3, <1>4, <2>1, FS_AddElement
<1>5. CASE x # m
  <2>1. Places(t, m) = Places(s, m)
    BY <1>1, <1>5 DEF Places
  <2> QED
    BY <1>2, <1>5, <2>1
<1> QED
  BY <1>4, <1>5

LEMMA PlacesTail ==
    ASSUME NEW M, NEW s \in Seq(M), s # <<>>, NEW m
    PROVE  Cardinality(Places(s, m))
             = Cardinality(Places(Tail(s), m)) + (IF Head(s) = m THEN 1 ELSE 0)
<1> DEFINE t == Tail(s)
           rest == Places(s, m) \ {1}
           next == [n \in Places(t, m) |-> n + 1]
<1>1. /\ Len(s) \in Nat /\ t \in Seq(M) /\ Len(t) = Len(s) - 1 /\ Len(s) # 0
      /\ \A i \in 1 .. Len(t) : t[i] = s[i + 1]
      /\ Head(s) = s[1]
  BY LenProperties, HeadTailProperties, EmptySeq
<1>2. /\ IsFiniteSet(Places(s, m)) /\ Cardinality(Places(s, m)) \in Nat
      /\ IsFiniteSet(Places(t, m)) /\ Cardinality(Places(t, m)) \in Nat
  BY <1>1, PlacesFinite
<1>3. Cardinality(rest) = Cardinality(Places(t, m))
  <2>1. next \in [Places(t, m) -> rest]
    BY <1>1 DEF Places
  <2>2. \A i, j \in Places(t, m) : next[i] = next[j] => i = j
    BY <1>1 DEF Places
  <2>3. \A n \in rest : \E i \in Places(t, m) : next[i] = n
    <3> SUFFICES ASSUME NEW n \in rest
                 PROVE  n - 1 \in Places(t, m) /\ next[n - 1] = n
      OBVIOUS
    <3>1. n \in 2 .. Len(s) /\ s[n] = m
      BY <1>1 DEF Places
    <3>2. n - 1 \in 1 .. Len(t) /\ (n - 1) + 1 = n
      BY <1>1, <3>1
    <3>3. t[n - 1] = m
      BY <1>1, <3>1, <3>2
    <3> QED
      BY <3>2, <3>3 DEF Places
  <2>4. next \in Bijection(Places(t, m), rest)
    BY <2>1, <2>2, <2>3 DEF Bijection, Injection, Surjection, IsInjective
  <2> QED
    BY <1>2, <2>4, FS_Bijection DEF ExistsBijection
<1>4. 1 \in Places(s, m) <=> Head(s) = m
  BY <1>1 DEF Places
<1>5. Cardinality(rest) = IF 1 \in Places(s, m) THEN Cardinality(Places(s, m)) - 1
                                                ELSE Cardinality(Places(s, m))
  BY <1>2, FS_RemoveElement
<1> QED
  BY <1>2, <1>3, <1>4, <1>5

-----------------------------------------------------------------------------
(* The inductive invariant.                                                *)

Pending(d) == SyncsIn(d) + owed[d] + AcksIn(d)

\* One peer's part of NoAckLost; probes that wait for it are finitely many.
AllAwaited(d) ==
    /\ IsFiniteSet(Awaiting(d))
    /\ sender[d] = "peer" /\ open[d] => Cardinality(Awaiting(d)) <= Pending(d)

AckInv == StreamInv /\ \A d \in Conns : AllAwaited(d)

LEMMA CountsType ==
    ASSUME TypeOK, NEW d \in Conns
    PROVE  /\ SyncsIn(d) \in Nat /\ AcksIn(d) \in Nat /\ owed[d] \in Nat
           /\ SyncsIn(d) = Cardinality(Places(outbox[d], Sync))
           /\ AcksIn(d) = Cardinality(Places(inbox[d], ProbeAck))
<1>1. outbox[d] \in Seq(PeerFrames) /\ inbox[d] \in Seq(RelayFrames) /\ owed[d] \in Nat
  BY DEF TypeOK
<1> QED
  BY <1>1, PlacesFinite DEF SyncsIn, AcksIn, Places

LEMMA AckInit == Init => AckInv
<1> SUFFICES ASSUME Init, NEW d \in Conns PROVE AllAwaited(d)
  BY StreamInit DEF AckInv
<1>1. Awaiting(d) = {}
  BY DEF Init, Awaiting
<1>2. Pending(d) \in Nat
  BY StreamInit, CountsType DEF StreamInv, Pending
<1> QED
  BY <1>1, <1>2, FS_EmptySet DEF AllAwaited

(* A probe that waits for d's answer has registered d's stream in its      *)
(* hands: nobody else reads it (GuardPinsEntry, RegisteredIsNotRead).      *)
LEMMA AwaitedIsNotRead ==
    ASSUME StreamInv, NEW d \in Conns, pc[d] = "reading"
    PROVE  Awaiting(d) = {}
<1> SUFFICES ASSUME NEW c \in Awaiting(d) PROVE FALSE
  OBVIOUS
<1>1. c \in Conns /\ pc[c] \in {"ack", "acking"} /\ dst[c] = d
  BY DEF Awaiting
<1>2. guard[c] \in Ids /\ cache[guard[c]] = d /\ dst[c] # None
  BY <1>1 DEF StreamInv, TypeOK, ServingHoldsGuard, GuardIsEntry, Serving, ProbePcs, NoneAssumption
<1>3. frame[d] # None
  BY <1>1, <1>2 DEF StreamInv, CachedHasFrame
<1> QED
  BY <1>3 DEF StreamInv, OnlyEmptyIsRead

-----------------------------------------------------------------------------
(* What the steps do to what is pending.                                   *)

LEMMA CountsNext ==
    ASSUME TypeOK', NEW d \in Conns
    PROVE  /\ Pending(d)' \in Nat
           /\ SyncsIn(d)' \in Nat /\ AcksIn(d)' \in Nat /\ owed'[d] \in Nat
           /\ Pending(d)' = SyncsIn(d)' + owed'[d] + AcksIn(d)'
           /\ SyncsIn(d)' = Cardinality(Places(outbox'[d], Sync))
           /\ AcksIn(d)' = Cardinality(Places(inbox'[d], ProbeAck))
<1>1. outbox'[d] \in Seq(PeerFrames) /\ inbox'[d] \in Seq(RelayFrames) /\ owed'[d] \in Nat
  BY DEF TypeOK
<1>2. /\ SyncsIn(d)' = Cardinality(Places(outbox'[d], Sync))
      /\ AcksIn(d)' = Cardinality(Places(inbox'[d], ProbeAck))
  BY DEF SyncsIn, AcksIn, Places
<1> QED
  BY <1>1, <1>2, PlacesFinite DEF Pending

LEMMA PendingGrows ==
    ASSUME TypeOK, TypeOK', NEW d \in Conns, UNCHANGED owed,
           outbox'[d] = outbox[d] \/ \E f \in PeerFrames : outbox'[d] = Append(outbox[d], f),
           inbox'[d] = inbox[d] \/ \E f \in RelayFrames : inbox'[d] = Append(inbox[d], f)
    PROVE  Pending(d) \in Nat /\ Pending(d)' \in Nat /\ Pending(d)' >= Pending(d)
<1>1. outbox[d] \in Seq(PeerFrames) /\ inbox[d] \in Seq(RelayFrames)
  BY DEF TypeOK
<1>2. /\ SyncsIn(d) \in Nat /\ AcksIn(d) \in Nat /\ owed[d] \in Nat
      /\ SyncsIn(d) = Cardinality(Places(outbox[d], Sync))
      /\ AcksIn(d) = Cardinality(Places(inbox[d], ProbeAck))
  BY CountsType
<1>3. /\ SyncsIn(d)' \in Nat /\ AcksIn(d)' \in Nat /\ Pending(d)' \in Nat
      /\ Pending(d)' = SyncsIn(d)' + owed'[d] + AcksIn(d)'
      /\ SyncsIn(d)' = Cardinality(Places(outbox'[d], Sync))
      /\ AcksIn(d)' = Cardinality(Places(inbox'[d], ProbeAck))
  BY CountsNext
<1>4. \A f \in PeerFrames : Cardinality(Places(Append(outbox[d], f), Sync))
                              >= Cardinality(Places(outbox[d], Sync))
  BY <1>1, PlacesAppend, PlacesFinite
<1>5. \A f \in RelayFrames : Cardinality(Places(Append(inbox[d], f), ProbeAck))
                               >= Cardinality(Places(inbox[d], ProbeAck))
  BY <1>1, PlacesAppend, PlacesFinite
<1>6. SyncsIn(d)' >= SyncsIn(d)
  <2>1. CASE outbox'[d] = outbox[d]
    <3>1. Cardinality(Places(outbox'[d], Sync)) = Cardinality(Places(outbox[d], Sync))
      BY <2>1
    <3> QED
      BY <1>2, <1>3, <3>1
  <2>2. ASSUME NEW f \in PeerFrames, outbox'[d] = Append(outbox[d], f)
        PROVE  SyncsIn(d)' >= SyncsIn(d)
    <3>1. Cardinality(Places(outbox'[d], Sync)) >= Cardinality(Places(outbox[d], Sync))
      BY <1>4, <2>2
    <3> QED
      BY <1>2, <1>3, <3>1
  <2> QED
    BY <2>1, <2>2
<1>7. AcksIn(d)' >= AcksIn(d)
  <2>1. CASE inbox'[d] = inbox[d]
    <3>1. Cardinality(Places(inbox'[d], ProbeAck)) = Cardinality(Places(inbox[d], ProbeAck))
      BY <2>1
    <3> QED
      BY <1>2, <1>3, <3>1
  <2>2. ASSUME NEW f \in RelayFrames, inbox'[d] = Append(inbox[d], f)
        PROVE  AcksIn(d)' >= AcksIn(d)
    <3>1. Cardinality(Places(inbox'[d], ProbeAck)) >= Cardinality(Places(inbox[d], ProbeAck))
      BY <1>5, <2>2
    <3> QED
      BY <1>2, <1>3, <3>1
  <2> QED
    BY <2>1, <2>2
<1> QED
  BY <1>2, <1>3, <1>6, <1>7 DEF Pending

\* Fewer probes wait for no fewer frames.
LEMMA StillAwaited ==
    ASSUME NEW d \in Conns, AllAwaited(d), Awaiting(d)' \subseteq Awaiting(d),
           sender'[d] = "peer" /\ open'[d] => sender[d] = "peer" /\ open[d],
           Pending(d) \in Nat, Pending(d)' \in Nat, Pending(d)' >= Pending(d)
    PROVE  AllAwaited(d)'
<1>1. IsFiniteSet(Awaiting(d)) /\ Cardinality(Awaiting(d)) \in Nat
  BY FS_CardinalityType DEF AllAwaited
<1>2. /\ IsFiniteSet(Awaiting(d)') /\ Cardinality(Awaiting(d)') \in Nat
      /\ Cardinality(Awaiting(d)') <= Cardinality(Awaiting(d))
  BY <1>1, FS_Subset, FS_CardinalityType
<1> QED
  BY <1>1, <1>2 DEF AllAwaited

\* A task that goes on to some other place than "ack" waits no longer.
LEMMA FewerWait ==
    ASSUME NEW d \in Conns, NEW c \in Conns, StreamInv,
           NEW at, pc' = [pc EXCEPT ![c] = at], dst' = dst,
           at \notin {"ack", "acking"} \/ (pc[c] = "ack" /\ at = "acking")
    PROVE  Awaiting(d)' \subseteq Awaiting(d)
BY DEF Awaiting, StreamInv, TypeOK

LEMMA FewerWaitElsewhere ==
    ASSUME NEW d \in Conns, NEW c \in Conns, StreamInv,
           NEW at, at \notin {"ack", "acking"}, pc' = [pc EXCEPT ![c] = at],
           NEW e, dst' = [dst EXCEPT ![c] = e]
    PROVE  Awaiting(d)' \subseteq Awaiting(d)
BY DEF Awaiting, StreamInv, TypeOK

LEMMA ReleaseFewer ==
    ASSUME NEW d \in Conns, NEW c \in Conns, StreamInv, NEW f, Release(c, f)
    PROVE  /\ Awaiting(d)' \subseteq Awaiting(d)
           /\ c \notin Awaiting(d)'
BY DEF Release, Answer, Goto, Awaiting, StreamInv, TypeOK

-----------------------------------------------------------------------------
(* The tasks.                                                              *)

(* Steps of a task after which it waits for no answer and that take        *)
(* nothing from a socket.                                                  *)
LEMMA QuietStep ==
    ASSUME AckInv, NEW c \in Conns, NEW d \in Conns,
           \/ LockStep(c) \/ ReadEof(c) \/ HandleRegister(c) \/ Insert(c)
           \/ HandleProbe(c) \/ HandlePing(c) \/ HandleProbeAck(c) \/ AckEof(c)
    PROVE  Awaiting(d)' \subseteq Awaiting(d) /\ UNCHANGED <<inbox, outbox, peerVars>>
<1>0. StreamInv
  BY DEF AckInv
<1> USE DEF Goto, Answer
<1>1. CASE LockToRead(c) \/ LockToReply(c)
  BY <1>0, <1>1, FewerWait DEF LockToRead, LockToReply
<1>2. CASE LockToSync(c) \/ LockToAck(c) \/ LockToTell(c)
  <2>1. PICK at : /\ pc' = [pc EXCEPT ![c] = at] /\ dst' = dst
                  /\ \/ at \notin {"ack", "acking"}
                     \/ pc[c] = "ack" /\ at = "acking"
    BY <1>2 DEF LockToSync, LockToAck, LockToTell, LockDst, Polled
  <2>2. UNCHANGED <<inbox, outbox, peerVars>>
    BY <1>2 DEF LockToSync, LockToAck, LockToTell, LockDst
  <2> QED
    BY <1>0, <2>1, <2>2, FewerWait
<1>3. CASE ReadEof(c)
  <2>1. PICK at \in {"ended", "panicked"} : pc' = [pc EXCEPT ![c] = at]
    BY <1>3 DEF ReadEof
  <2> QED
    BY <1>0, <1>3, <2>1, FewerWait DEF ReadEof
<1>4. CASE HandleRegister(c) \/ HandlePing(c) \/ HandleProbeAck(c)
  <2>1. PICK at \in {"insert", "reply", "ended"} : pc' = [pc EXCEPT ![c] = at]
    BY <1>4 DEF HandleRegister, HandlePing, HandleProbeAck
  <2>2. UNCHANGED <<inbox, outbox, peerVars, dst>>
    BY <1>4 DEF HandleRegister, HandlePing, HandleProbeAck
  <2> QED
    BY <1>0, <2>1, <2>2, FewerWait
<1>5. CASE Insert(c)
  <2>1. PICK at \in {"panicked", "reply"} : pc' = [pc EXCEPT ![c] = at]
    BY <1>5 DEF Insert
  <2> QED
    BY <1>0, <1>5, <2>1, FewerWait DEF Insert
<1>6. CASE HandleProbe(c)
  <2>1. PICK at \in {"reply", "sync", "tell"} : pc' = [pc EXCEPT ![c] = at]
    BY <1>6 DEF HandleProbe
  <2>2. dst' = dst \/ \E e : dst' = [dst EXCEPT ![c] = e]
    BY <1>6 DEF HandleProbe
  <2>3. UNCHANGED <<inbox, outbox, peerVars>>
    BY <1>6 DEF HandleProbe
  <2> QED
    BY <1>0, <2>1, <2>2, <2>3, FewerWait, FewerWaitElsewhere
<1>7. CASE AckEof(c)
  <2>1. CASE Release(c, Result("ProbeResult", FALSE))
    BY <1>0, <1>7, <2>1, ReleaseFewer DEF AckEof
  <2>2. CASE pc' = [pc EXCEPT ![c] = "panicked"] /\ dst' = [dst EXCEPT ![c] = None]
    BY <1>0, <1>7, <2>2, FewerWaitElsewhere DEF AckEof
  <2> QED
    BY <1>7, <2>1, <2>2 DEF AckEof
<1> QED
  BY <1>1, <1>2, <1>3, <1>4, <1>5, <1>6, <1>7 DEF LockStep

(* A task reads its own stream only while nobody waits for an answer on it.*)
LEMMA ReadAwaited ==
    ASSUME AckInv, TypeOK', NEW c \in Conns, NEW d \in Conns, ReadFrame(c)
    PROVE  AllAwaited(d)'
<1>0. StreamInv /\ TypeOK /\ AllAwaited(d)
  BY DEF AckInv, StreamInv
<1>1. /\ pc[c] = "reading" /\ pc' = [pc EXCEPT ![c] = "idle"]
      /\ UNCHANGED <<outbox, peerVars, dst>>
  BY DEF ReadFrame, Goto, Polled
<1>2. PICK m : inbox' = [inbox EXCEPT ![c] = m]
  BY DEF ReadFrame
<1>3. Awaiting(d)' \subseteq Awaiting(d)
  BY <1>0, <1>1, FewerWait
<1>4. CASE d = c
  <2>1. Awaiting(d)' = {}
    BY <1>0, <1>1, <1>3, <1>4, AwaitedIsNotRead
  <2>2. Pending(d)' \in Nat
    BY CountsNext
  <2> QED
    BY <2>1, <2>2, FS_EmptySet DEF AllAwaited
<1>5. CASE d # c
  <2>1. UNCHANGED <<outbox, owed>> /\ inbox'[d] = inbox[d]
    BY <1>0, <1>1, <1>2, <1>5 DEF peerVars, TypeOK
  <2>2. Pending(d) \in Nat /\ Pending(d)' \in Nat /\ Pending(d)' >= Pending(d)
    BY <1>0, <2>1, PendingGrows
  <2> QED
    BY <1>0, <1>1, <1>3, <2>2, StillAwaited DEF peerVars
<1> QED
  BY <1>4, <1>5

\* Whoever writes, the sockets of the peers get one frame more or none.
LEMMA WriteGrows ==
    ASSUME TypeOK, NEW e \in Conns, NEW f \in PeerFrames, NEW d \in Conns,
           Write(e, f) \/ WriteFails(e)
    PROVE  /\ outbox'[d] = outbox[d] \/ outbox'[d] = Append(outbox[d], f)
           /\ d # e => outbox'[d] = outbox[d]
           /\ Write(e, f) /\ open[e] => outbox'[e] = Append(outbox[e], f)
BY DEF TypeOK, Write, WriteFails

(* A probe that starts to wait has written a SYNC.                         *)
LEMMA SyncAwaited ==
    ASSUME AckInv, TypeOK', NEW c \in Conns, NEW d \in Conns, WriteSync(c)
    PROVE  AllAwaited(d)'
<1> DEFINE e == dst[c]
<1>0. StreamInv /\ TypeOK /\ AllAwaited(d)
  BY DEF AckInv, StreamInv
<1>1. e \in Conns /\ pc[c] = "syncing" /\ Sync \in PeerFrames
  BY <1>0, Framed DEF WriteSync, Polled, Serving, ProbePcs, PeerFrames
<1>2. Write(e, Sync) \/ WriteFails(e)
  BY DEF WriteSync
<1>3. UNCHANGED <<inbox, peerVars>>
  BY DEF WriteSync
<1>4. Pending(d) \in Nat /\ Pending(d)' \in Nat /\ Pending(d)' >= Pending(d)
  <2>1. outbox'[d] = outbox[d] \/ \E f \in PeerFrames : outbox'[d] = Append(outbox[d], f)
    BY <1>0, <1>1, <1>2, WriteGrows
  <2>2. UNCHANGED owed /\ inbox'[d] = inbox[d]
    BY <1>3 DEF peerVars
  <2> QED
    BY <1>0, <2>1, <2>2, PendingGrows
<1>5. CASE Release(c, Result("ProbeResult", FALSE))
  BY <1>0, <1>3, <1>4, <1>5, ReleaseFewer, StillAwaited DEF peerVars
<1>6. CASE Write(e, Sync) /\ Goto(c, "ack") /\ UNCHANGED dst
  <2>1. CASE d # e
    <3>1. Awaiting(d)' \subseteq Awaiting(d)
      BY <1>0, <1>6, <2>1 DEF Awaiting, Goto, TypeOK
    <3> QED
      BY <1>0, <1>3, <1>4, <3>1, StillAwaited DEF peerVars
  <2>2. CASE d = e
    <3>1. Awaiting(d)' = Awaiting(d) \cup {c} /\ c \notin Awaiting(d)
      BY <1>0, <1>1, <1>6, <2>2 DEF Awaiting, Goto, TypeOK
    <3>2. /\ IsFiniteSet(Awaiting(d)) /\ Cardinality(Awaiting(d)) \in Nat
          /\ IsFiniteSet(Awaiting(d)')
          /\ Cardinality(Awaiting(d)') = Cardinality(Awaiting(d)) + 1
      BY <1>0, <3>1, FS_AddElement, FS_CardinalityType DEF AllAwaited
    <3>3. ASSUME open[d] PROVE Pending(d)' = Pending(d) + 1
      <4>1. outbox'[d] = Append(outbox[d], Sync)
        BY <1>0, <1>1, <1>6, <2>2, <3>3, WriteGrows
      <4>2. outbox[d] \in Seq(PeerFrames)
        BY <1>0 DEF TypeOK
      <4>3. Cardinality(Places(outbox'[d], Sync)) = Cardinality(Places(outbox[d], Sync)) + 1
        BY <1>1, <4>1, <4>2, PlacesAppend
      <4>4. SyncsIn(d)' = SyncsIn(d) + 1
        BY <1>0, <4>3, CountsType, CountsNext
      <4>5. AcksIn(d)' = AcksIn(d) /\ owed'[d] = owed[d]
        BY <1>3 DEF AcksIn, peerVars
      <4> QED
        BY <1>0, <4>4, <4>5, CountsType DEF Pending
    <3>4. sender'[d] = sender[d] /\ open'[d] = open[d]
      BY <1>3 DEF peerVars
    <3> QED
      BY <1>0, <1>4, <3>2, <3>3, <3>4 DEF AllAwaited
  <2> QED
    BY <2>1, <2>2
<1> QED
  BY <1>5, <1>6 DEF WriteSync

(* A probe that reads takes one frame, and waits no longer.                *)
LEMMA AckAwaited ==
    ASSUME AckInv, TypeOK', NEW c \in Conns, NEW d \in Conns, ReadAck(c)
    PROVE  AllAwaited(d)'
<1> DEFINE e == dst[c]
<1>0. StreamInv /\ TypeOK /\ AllAwaited(d)
  BY DEF AckInv, StreamInv
<1>1. e \in Conns /\ pc[c] = "acking" /\ inbox[e] # <<>>
  BY <1>0, Framed DEF ReadAck, Polled, Serving, ProbePcs
<1>2. /\ inbox' = [inbox EXCEPT ![e] = Tail(@)]
      /\ UNCHANGED <<outbox, peerVars>>
  BY DEF ReadAck
<1>3. PICK f : Release(c, f)
  BY DEF ReadAck
<1>4. Awaiting(d)' \subseteq Awaiting(d) /\ c \notin Awaiting(d)'
  BY <1>0, <1>3, ReleaseFewer
<1>5. CASE d # e
  <2>1. UNCHANGED owed /\ outbox'[d] = outbox[d] /\ inbox'[d] = inbox[d]
    BY <1>0, <1>2, <1>5 DEF peerVars, TypeOK
  <2>2. Pending(d) \in Nat /\ Pending(d)' \in Nat /\ Pending(d)' >= Pending(d)
    BY <1>0, <2>1, PendingGrows
  <2> QED
    BY <1>0, <1>2, <1>4, <2>2, StillAwaited DEF peerVars
<1>6. CASE d = e
  <2>1. c \in Awaiting(d)
    BY <1>1, <1>6 DEF Awaiting
  <2>2. Awaiting(d)' \subseteq Awaiting(d) \ {c}
    BY <1>4
  <2>3. /\ IsFiniteSet(Awaiting(d)) /\ Cardinality(Awaiting(d)) \in Nat
        /\ IsFiniteSet(Awaiting(d) \ {c})
        /\ Cardinality(Awaiting(d) \ {c}) = Cardinality(Awaiting(d)) - 1
    BY <1>0, <2>1, FS_RemoveElement, FS_CardinalityType DEF AllAwaited
  <2>4. /\ IsFiniteSet(Awaiting(d)') /\ Cardinality(Awaiting(d)') \in Nat
        /\ Cardinality(Awaiting(d)') <= Cardinality(Awaiting(d)) - 1
    BY <2>2, <2>3, FS_Subset, FS_CardinalityType
  <2>5. Pending(d)' >= Pending(d) - 1 /\ Pending(d) \in Nat /\ Pending(d)' \in Nat
    <3>1. inbox'[d] = Tail(inbox[d]) /\ inbox[d] \in Seq(RelayFrames) /\ inbox[d] # <<>>
      BY <1>0, <1>1, <1>2, <1>6 DEF TypeOK
    <3>2. Cardinality(Places(inbox[d], ProbeAck))
            = Cardinality(Places(inbox'[d], ProbeAck))
                + (IF Head(inbox[d]) = ProbeAck THEN 1 ELSE 0)
      BY <3>1, PlacesTail
    <3>3. AcksIn(d)' >= AcksIn(d) - 1
      BY <1>0, <3>2, CountsType, CountsNext
    <3>4. SyncsIn(d)' = SyncsIn(d) /\ owed'[d] = owed[d]
      BY <1>2 DEF SyncsIn, peerVars
    <3>5. /\ SyncsIn(d) \in Nat /\ AcksIn(d) \in Nat /\ owed[d] \in Nat
          /\ AcksIn(d)' \in Nat /\ Pending(d)' \in Nat
          /\ Pending(d)' = SyncsIn(d)' + owed'[d] + AcksIn(d)'
      BY <1>0, CountsType, CountsNext
    <3> QED
      BY <3>3, <3>4, <3>5 DEF Pending
  <2>6. sender'[d] = sender[d] /\ open'[d] = open[d]
    BY <1>2 DEF peerVars
  <2> QED
    BY <1>0, <2>3, <2>4, <2>5, <2>6 DEF AllAwaited
<1> QED
  BY <1>5, <1>6

(* Other frames that a task writes come in addition.                       *)
LEMMA WriteAwaited ==
    ASSUME AckInv, TypeOK', NEW c \in Conns, NEW d \in Conns,
           WriteTell(c) \/ WriteReply(c)
    PROVE  AllAwaited(d)'
<1>0. StreamInv /\ TypeOK /\ AllAwaited(d)
  BY DEF AckInv, StreamInv
<1>1. UNCHANGED <<inbox, peerVars>>
  BY DEF WriteTell, WriteReply
<1>2. CASE WriteTell(c)
  <2>1. dst[c] \in Conns /\ DoConnectTo \in PeerFrames
    BY <1>0, <1>2, Framed DEF WriteTell, Polled, Serving, ForwardPcs, PeerFrames
  <2>2. Write(dst[c], DoConnectTo) \/ WriteFails(dst[c])
    BY <1>2 DEF WriteTell
  <2>3. outbox'[d] = outbox[d] \/ \E f \in PeerFrames : outbox'[d] = Append(outbox[d], f)
    BY <1>0, <2>1, <2>2, WriteGrows
  <2>4. Pending(d) \in Nat /\ Pending(d)' \in Nat /\ Pending(d)' >= Pending(d)
    BY <1>0, <1>1, <2>3, PendingGrows DEF peerVars
  <2>5. \E f : Release(c, f)
    BY <1>2 DEF WriteTell
  <2>6. Awaiting(d)' \subseteq Awaiting(d)
    BY <1>0, <2>5, ReleaseFewer
  <2> QED
    BY <1>0, <1>1, <2>4, <2>6, StillAwaited DEF peerVars
<1>3. CASE WriteReply(c)
  <2>1. reply[c] \in PeerFrames
    BY <1>0, <1>3, Framed DEF WriteReply, Polled
  <2>2. Write(c, reply[c]) \/ WriteFails(c)
    BY <1>3 DEF WriteReply
  <2>3. outbox'[d] = outbox[d] \/ \E f \in PeerFrames : outbox'[d] = Append(outbox[d], f)
    BY <1>0, <2>1, <2>2, WriteGrows
  <2>4. Pending(d) \in Nat /\ Pending(d)' \in Nat /\ Pending(d)' >= Pending(d)
    BY <1>0, <1>1, <2>3, PendingGrows DEF peerVars
  <2>5. PICK at \in {"idle", "ended"} : pc' = [pc EXCEPT ![c] = at]
    BY <1>3 DEF WriteReply, Goto
  <2>6. dst' = dst
    BY <1>3 DEF WriteReply
  <2>7. Awaiting(d)' \subseteq Awaiting(d)
    BY <1>0, <2>5, <2>6, FewerWait
  <2> QED
    BY <1>0, <1>1, <2>4, <2>7, StillAwaited DEF peerVars
<1> QED
  BY <1>2, <1>3

LEMMA TaskAwaited ==
    ASSUME AckInv, TypeOK', NEW c \in Conns, NEW d \in Conns, TaskStep(c)
    PROVE  AllAwaited(d)'
<1>0. StreamInv /\ TypeOK /\ AllAwaited(d)
  BY DEF AckInv, StreamInv
<1>1. CASE \/ LockStep(c) \/ ReadEof(c) \/ HandleRegister(c) \/ Insert(c)
           \/ HandleProbe(c) \/ HandlePing(c) \/ HandleProbeAck(c) \/ AckEof(c)
  <2>1. Awaiting(d)' \subseteq Awaiting(d) /\ UNCHANGED <<inbox, outbox, peerVars>>
    BY <1>1, QuietStep
  <2>2. UNCHANGED owed /\ outbox'[d] = outbox[d] /\ inbox'[d] = inbox[d]
    BY <2>1 DEF peerVars
  <2>3. Pending(d) \in Nat /\ Pending(d)' \in Nat /\ Pending(d)' >= Pending(d)
    BY <1>0, <2>2, PendingGrows
  <2> QED
    BY <1>0, <2>1, <2>3, StillAwaited DEF peerVars
<1>2. CASE ReadFrame(c)
  BY <1>2, ReadAwaited
<1>3. CASE WriteSync(c)
  BY <1>3, SyncAwaited
<1>4. CASE ReadAck(c)
  BY <1>4, AckAwaited
<1>5. CASE WriteTell(c) \/ WriteReply(c)
  BY <1>5, WriteAwaited
<1> QED
  BY <1>1, <1>2, <1>3, <1>4, <1>5 DEF TaskStep, HandleStep

-----------------------------------------------------------------------------
(* The peers.                                                              *)

LEMMA PeerAwaited ==
    ASSUME AckInv, TypeOK', NEW c \in Conns, NEW d \in Conns, PeerStep(c)
    PROVE  AllAwaited(d)'
<1>0. StreamInv /\ TypeOK /\ AllAwaited(d)
  BY DEF AckInv, StreamInv
<1>1. Awaiting(d)' = Awaiting(d)
  BY PeerKeepsTasks DEF taskVars, Awaiting
<1>2. sender'[d] = "peer" /\ open'[d] => sender[d] = "peer" /\ open[d]
  BY <1>0 DEF PeerStep, PeerRequests, PeerReads, PeerAcks, PeerCloses, SenderStarts,
       SenderReads, SenderRegistered, SenderProbed, TypeOK
<1>3. outbox[d] \in Seq(PeerFrames) /\ inbox[d] \in Seq(RelayFrames)
  BY <1>0 DEF TypeOK
<1>4. /\ SyncsIn(d) \in Nat /\ AcksIn(d) \in Nat /\ owed[d] \in Nat /\ Pending(d) \in Nat
      /\ SyncsIn(d) = Cardinality(Places(outbox[d], Sync))
      /\ AcksIn(d) = Cardinality(Places(inbox[d], ProbeAck))
  BY <1>0, CountsType DEF Pending
<1>5. /\ Pending(d)' \in Nat /\ SyncsIn(d)' \in Nat /\ AcksIn(d)' \in Nat
      /\ Pending(d)' = SyncsIn(d)' + owed'[d] + AcksIn(d)'
      /\ SyncsIn(d)' = Cardinality(Places(outbox'[d], Sync))
      /\ AcksIn(d)' = Cardinality(Places(inbox'[d], ProbeAck))
  BY CountsNext
<1>6. SUFFICES ASSUME sender'[d] = "peer", open'[d] PROVE Pending(d)' >= Pending(d)
  <2>1. CASE sender'[d] = "peer" /\ open'[d]
    BY <1>0, <1>1, <1>2, <1>4, <1>5, <2>1, StillAwaited
  <2>2. CASE ~(sender'[d] = "peer" /\ open'[d])
    BY <1>0, <1>1, <2>2 DEF AllAwaited
  <2> QED
    BY <2>1, <2>2
<1>7. CASE PeerRequests(c) \/ SenderStarts(c) \/ SenderRegistered(c)
  <2>1. UNCHANGED <<outbox, owed>>
    BY <1>7 DEF PeerRequests, SenderStarts, SenderRegistered
  <2>2. inbox' = inbox \/ \E f \in RelayFrames : Send(c, f)
    BY <1>7, IdsAssumption
       DEF PeerRequests, SenderStarts, SenderRegistered, RelayFrames
  <2>3. inbox'[d] = inbox[d] \/ \E f \in RelayFrames : inbox'[d] = Append(inbox[d], f)
    BY <1>0, <2>2 DEF Send, TypeOK
  <2> QED
    BY <1>0, <2>1, <2>3, PendingGrows
<1>8. CASE PeerReads(c)
  <2>1. CASE d = c
    <3>1. /\ outbox'[d] = Tail(outbox[d]) /\ outbox[d] # <<>> /\ UNCHANGED inbox
          /\ owed'[d] = owed[d] + (IF Head(outbox[d]) = Sync THEN 1 ELSE 0)
      BY <1>0, <1>4, <1>8, <2>1 DEF PeerReads, TypeOK
    <3>2. Cardinality(Places(outbox[d], Sync))
            = Cardinality(Places(outbox'[d], Sync))
                + (IF Head(outbox[d]) = Sync THEN 1 ELSE 0)
      BY <1>3, <3>1, PlacesTail
    <3>3. AcksIn(d)' = AcksIn(d)
      BY <3>1 DEF AcksIn
    <3> QED
      BY <1>4, <1>5, <3>1, <3>2, <3>3 DEF Pending
  <2>2. CASE d # c
    <3>1. owed'[d] = owed[d] /\ outbox'[d] = outbox[d] /\ inbox'[d] = inbox[d]
      BY <1>0, <1>8, <2>2 DEF PeerReads, TypeOK
    <3>2. SyncsIn(d)' = SyncsIn(d) /\ AcksIn(d)' = AcksIn(d)
      BY <3>1 DEF SyncsIn, AcksIn
    <3> QED
      BY <1>4, <1>5, <3>1, <3>2 DEF Pending
  <2> QED
    BY <2>1, <2>2
<1>9. CASE PeerAcks(c)
  <2>1. SyncsIn(d)' = SyncsIn(d)
    BY <1>9 DEF PeerAcks, SyncsIn
  <2>2. CASE d = c
    <3>1. /\ owed'[d] = owed[d] - 1 /\ inbox'[d] = Append(inbox[d], ProbeAck)
          /\ ProbeAck \in RelayFrames
      BY <1>0, <1>9, <2>2 DEF PeerAcks, Send, TypeOK, RelayFrames
    <3>2. Cardinality(Places(inbox'[d], ProbeAck)) = Cardinality(Places(inbox[d], ProbeAck)) + 1
      BY <1>3, <3>1, PlacesAppend
    <3> QED
      BY <1>4, <1>5, <2>1, <3>1, <3>2 DEF Pending
  <2>3. CASE d # c
    <3>1. owed'[d] = owed[d] /\ inbox'[d] = inbox[d]
      BY <1>0, <1>9, <2>3 DEF PeerAcks, Send, TypeOK
    <3>2. AcksIn(d)' = AcksIn(d)
      BY <3>1 DEF AcksIn
    <3> QED
      BY <1>4, <1>5, <2>1, <3>1, <3>2 DEF Pending
  <2> QED
    BY <2>2, <2>3
<1>10. CASE PeerCloses(c)
  <2>1. d # c
    BY <1>0, <1>6, <1>10 DEF PeerCloses, TypeOK
  <2>2. owed'[d] = owed[d] /\ outbox'[d] = outbox[d] /\ inbox'[d] = inbox[d]
    BY <1>0, <1>10, <2>1 DEF PeerCloses, TypeOK
  <2>3. SyncsIn(d)' = SyncsIn(d) /\ AcksIn(d)' = AcksIn(d)
    BY <2>2 DEF SyncsIn, AcksIn
  <2> QED
    BY <1>4, <1>5, <2>2, <2>3 DEF Pending
<1>11. CASE SenderReads(c)
  <2>1. d # c
    BY <1>0, <1>2, <1>6, <1>11 DEF SenderReads
  <2>2. owed'[d] = owed[d] /\ outbox'[d] = outbox[d] /\ inbox'[d] = inbox[d]
    BY <1>0, <1>11, <2>1 DEF SenderReads, TypeOK
  <2>3. SyncsIn(d)' = SyncsIn(d) /\ AcksIn(d)' = AcksIn(d)
    BY <2>2 DEF SyncsIn, AcksIn
  <2> QED
    BY <1>4, <1>5, <2>2, <2>3 DEF Pending
<1>12. CASE SenderProbed(c)
  <2>1. owed'[d] = owed[d] /\ outbox'[d] = outbox[d] /\ inbox'[d] = inbox[d]
    BY <1>12 DEF SenderProbed
  <2>2. SyncsIn(d)' = SyncsIn(d) /\ AcksIn(d)' = AcksIn(d)
    BY <2>1 DEF SyncsIn, AcksIn
  <2> QED
    BY <1>4, <1>5, <2>1, <2>2 DEF Pending
<1> QED
  BY <1>7, <1>8, <1>9, <1>10, <1>11, <1>12 DEF PeerStep

LEMMA AckStep == AckInv /\ [Next]_vars => AckInv'
<1> SUFFICES ASSUME AckInv, [Next]_vars PROVE AckInv'
  OBVIOUS
<1>1. StreamInv' /\ TypeOK'
  BY StreamStep DEF AckInv, StreamInv
<1>2. ASSUME NEW c \in Conns, TaskStep(c) PROVE \A d \in Conns : AllAwaited(d)'
  BY <1>1, <1>2, TaskAwaited
<1>3. ASSUME NEW c \in Conns, PeerStep(c) PROVE \A d \in Conns : AllAwaited(d)'
  BY <1>1, <1>3, PeerAwaited
<1>4. CASE UNCHANGED vars
  <2> SUFFICES ASSUME NEW d \in Conns PROVE AllAwaited(d)'
    BY <1>1 DEF AckInv
  <2>1. Awaiting(d)' = Awaiting(d)
    BY <1>4 DEF vars, taskVars, Awaiting
  <2>2. Pending(d)' = Pending(d)
    BY <1>4 DEF vars, peerVars, Pending, SyncsIn, AcksIn
  <2> QED
    BY <1>4, <2>1, <2>2 DEF AckInv, AllAwaited, vars, peerVars
<1> QED
  BY <1>1, <1>2, <1>3, <1>4 DEF Next, AckInv

-----------------------------------------------------------------------------
(* Every probe that waits for a peer has a SYNC or a ProbeAck of its own   *)
(* on the way, so probes that share a stream never starve one another,     *)
(* for any number of them (relay.rs:171-205, 321).                         *)
THEOREM AckCorrect == Spec => []NoAckLost
<1>1. AckInv => NoAckLost
  BY DEF AckInv, AllAwaited, Pending, NoAckLost
<1> QED
  BY <1>1, AckInit, AckStep, PTL DEF Spec
=============================================================================

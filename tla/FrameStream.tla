---------------------------- MODULE FrameStream ----------------------------
(***************************************************************************)
(* One direction of a relay connection, byte by byte: the tasks that write *)
(* frames to it and the tasks that read frames from it                     *)
(* (src/src/relay/framehelper.rs, connection.rs), on the relay's side with *)
(* the callers process_connection and probe (relay.rs) and on the peer's   *)
(* side with connect_to_peer (sender.rs).  Relay takes a frame for one     *)
(* message; this module is about what happens inside one.                  *)
(*                                                                         *)
(* Each end has a stream behind a mutex, held while one frame is written   *)
(* and during each single read.  The connection's reader keeps one buffer  *)
(* for all its reads and removes nothing from it; a probe starts with a    *)
(* new buffer of one byte, which grows to hold one frame with an id.       *)
(***************************************************************************)
EXTENDS Frames, FiniteSets

CONSTANTS
    Probes,         \* tasks that probe the peer
    Writers,        \* tasks that write to the stream
    Plans,          \* the end that reads, what each writer writes, who probes
    BufferBytes,    \* 1024
    None

Conn == "conn"
Readers == Probes \cup {Conn}

ASSUME ReadersAssumption == Conn \notin Probes /\ None \notin Readers \cup Writers
ASSUME BufferAssumption ==
    BufferBytes \in Nat /\ BufferBytes >= 3 + V6Octets + MillisBytes + PEER_ID_LENGTH_BYTES

\* The frames of plan p: what the types of frame.rs and peer.rs allow.
Written(p) == UNION {{p.writes[w][n] : n \in DOMAIN p.writes[w]} : w \in Writers}

ASSUME PlansAssumption ==
    \A p \in Plans :
        /\ p.end \in {"relay", "peer"} /\ p.probes \subseteq Probes
        /\ p.writes \in [Writers -> Seq(Written(p))]
        /\ \A f \in Written(p) : IF p.end = "relay" THEN IsRelayFrame(f) ELSE IsPeerFrame(f)

VARIABLES
    plan,       \* the plan that is carried out
    todo,       \* frames each writer has still to write
    order,      \* the frames begun, in the order of their bytes
    starts,     \* how many bytes are before each of them
    rest,       \* bytes of the last of them not yet written
    wire,       \* the bytes written
    writeLock, readLock,    \* who holds the mutex at the two ends
    socket,     \* for the readers: "open", "fin" or "rst"
    pos,        \* bytes read
    pc, buf, got

writeVars  == <<todo, order, starts, rest, wire, writeLock>>
readerVars == <<readLock, pos, pc, buf, got>>
vars == <<plan, writeVars, socket, readerVars>>

Bytes(f) == IF plan.end = "relay" THEN RelayFrameBytes(f) ELSE PeerFrameBytes(f)
Parse(b) == IF plan.end = "relay" THEN ParseRelayFrame(b) ELSE ParsePeerFrame(b)

Statuses == {"waiting", "frame", "invalid", "none", "error"}
Result(status) == [status |-> status, frame |-> NoFrame]

TypeOK ==
    /\ plan \in Plans
    /\ \A w \in Writers : \E n \in 0 .. Len(plan.writes[w]) :
          todo[w] = SubSeq(plan.writes[w], n + 1, Len(plan.writes[w]))
    /\ order \in Seq(Written(plan)) /\ starts \in Seq(Nat)
    /\ rest \in Seq(Byte) /\ wire \in Seq(Byte)
    /\ writeLock \in Writers \cup {None} /\ readLock \in Readers \cup {None}
    /\ socket \in {"open", "fin", "rst"}
    /\ pos \in 0 .. Len(wire)
    /\ pc \in [Readers -> {"idle", "wants", "reading", "panicked", "returned"}]
    /\ \A r \in Readers : /\ buf[r] \in Seq(Byte)
                          /\ got[r].status \in Statuses
    /\ \A p \in Probes : Len(buf[p]) <= 1 + PEER_ID_LENGTH_BYTES
    /\ Len(buf[Conn]) <= BufferBytes

-----------------------------------------------------------------------------
(* write_frame_given_stream: the mutex is held until the frame is flushed. *)

(* A peer sends nothing until its registration is answered: it waits for   *)
(* the answer (sender.rs:44).                                              *)
Answered == plan.end = "peer" \/ order = <<>> \/ got[Conn].status = "frame"

BeginWrite(w) ==
    /\ socket = "open" /\ todo[w] # <<>> /\ Answered
    /\ writeLock = None /\ writeLock' = w
    /\ order' = Append(order, Head(todo[w])) /\ starts' = Append(starts, Len(wire))
    /\ rest' = Bytes(Head(todo[w]))
    /\ todo' = [todo EXCEPT ![w] = Tail(@)]
    /\ UNCHANGED <<plan, wire, socket, readerVars>>

WriteBytes ==
    /\ socket = "open"
    /\ \E n \in 1 .. Len(rest) :
         /\ wire' = wire \o SubSeq(rest, 1, n)
         /\ rest' = SubSeq(rest, n + 1, Len(rest))
    /\ writeLock' = IF rest' = <<>> THEN None ELSE writeLock
    /\ UNCHANGED <<plan, todo, order, starts, socket, readerVars>>

(* The writing process closes, is killed or disappears, inside a frame or  *)
(* between two; what it has not written is never read.                     *)
WriterEnds ==
    /\ socket = "open"
    /\ socket' \in {"fin", "rst"}
    /\ UNCHANGED <<plan, writeVars, readerVars>>

-----------------------------------------------------------------------------
(* read_frame_given_stream.                                                *)

Goto(r, at) == pc' = [pc EXCEPT ![r] = at]

(* What the callers do with an Err: process_connection and probe unwrap it *)
(* and panic, connect_to_peer returns it.                                  *)
OnError == IF plan.end = "relay" THEN "panicked" ELSE "returned"

(* One turn of the loop: parse_frame on what is in the buffer.             *)
ParseFrame(r, b) ==
    LET p == Parse(b) IN
    /\ buf' = [buf EXCEPT ![r] = b]
    /\ CASE p.status = "frame"      -> Goto(r, "idle") /\ got' = [got EXCEPT ![r] = p]
         [] p.status = "incomplete" -> Goto(r, "wants") /\ UNCHANGED got
         [] p.status = "invalid"    -> Goto(r, OnError) /\ got' = [got EXCEPT ![r] = p]

\* probe finds the peer in the cache once it has registered.
Registered == got[Conn].status = "frame" /\ got[Conn].frame.op = "Register"

(* read_frame is called: again and again by process_connection, and by     *)
(* connect_to_peer as long as it gets None; by a probe with a new buffer.  *)
Call(r) ==
    /\ pc[r] = "idle"
    /\ r = Conn \/ (r \in plan.probes /\ Registered)
    /\ ParseFrame(r, IF r = Conn THEN buf[r] ELSE <<>>)
    /\ UNCHANGED <<plan, writeVars, socket, readLock, pos>>

TakeLock(r) ==
    /\ pc[r] = "wants"
    /\ readLock = None /\ readLock' = r
    /\ Goto(r, "reading")
    /\ UNCHANGED <<plan, writeVars, socket, pos, buf, got>>

\* Mutant of Room: a probe's buffer is as large as a connection's.
LargeRoom(r) == BufferBytes - Len(buf[r])

(* What read_buf may add: a full buffer grows by 64 bytes.                 *)
Room(r) == IF r = Conn THEN BufferBytes - Len(buf[r])
           ELSE IF buf[r] = <<>> THEN 1
           ELSE 1 + PEER_ID_LENGTH_BYTES - Len(buf[r])

ReadBytes(r) ==
    /\ pc[r] = "reading"
    /\ \E n \in 1 .. Room(r) :
         /\ pos + n <= Len(wire)
         /\ pos' = pos + n
         /\ ParseFrame(r, buf[r] \o SubSeq(wire, pos + 1, pos + n))
    /\ readLock' = None
    /\ UNCHANGED <<plan, writeVars, socket>>

\* Mutant of AtEof: the end of the stream is noticed only between frames.
AtCleanEof(r) == pos = Len(wire) /\ socket = "fin" /\ buf[r] = <<>>

AtEof(r) == pos = Len(wire) /\ socket = "fin"

\* Mutant of EofResult: buffer.is_empty() is not tested.
AlwaysNone(r) == "none"

EofResult(r) == IF buf[r] = <<>> THEN "none" ELSE "error"

(* None makes process_connection return and a probe give up; the Sender    *)
(* goes on and reads again.                                                *)
ReadEof(r) ==
    /\ pc[r] = "reading"
    /\ AtEof(r)
    /\ got' = [got EXCEPT ![r] = Result(EofResult(r))]
    /\ Goto(r, CASE EofResult(r) = "error"               -> OnError
                 [] plan.end = "relay" /\ r = Conn       -> "returned"
                 [] OTHER                                -> "idle")
    /\ readLock' = None
    /\ UNCHANGED <<plan, writeVars, socket, pos, buf>>

(* The read reports the reset once, after the bytes that had arrived.      *)
ReadReset(r) ==
    /\ pc[r] = "reading"
    /\ pos = Len(wire) /\ socket = "rst"
    /\ socket' = "fin"
    /\ got' = [got EXCEPT ![r] = Result("error")]
    /\ Goto(r, OnError)
    /\ readLock' = None
    /\ UNCHANGED <<plan, writeVars, pos, buf>>

ReaderStep(r) == Call(r) \/ ReadBytes(r) \/ ReadEof(r) \/ ReadReset(r)

Init ==
    /\ plan \in Plans
    /\ todo = plan.writes
    /\ order = <<>> /\ starts = <<>> /\ rest = <<>> /\ wire = <<>>
    /\ writeLock = None /\ readLock = None
    /\ socket = "open" /\ pos = 0
    /\ pc = [r \in Readers |-> "idle"]
    /\ buf = [r \in Readers |-> <<>>]
    /\ got = [r \in Readers |-> Result("waiting")]

Next ==
    \/ \E w \in Writers : BeginWrite(w)
    \/ WriteBytes \/ WriterEnds
    \/ \E r \in Readers : TakeLock(r) \/ ReaderStep(r)

(* The runtime polls tasks that can move; the mutex is granted in the      *)
(* order it was asked for.  Nothing makes a writer write or end.           *)
Spec ==
    /\ Init /\ [][Next]_vars
    /\ \A r \in Readers : WF_vars(ReaderStep(r)) /\ SF_vars(TakeLock(r))

-----------------------------------------------------------------------------
(* Properties.                                                             *)

(* The plans in which no task takes bytes of a frame that another one has  *)
(* begun to read: on the peer's side one task reads, and on the relay's    *)
(* side two probes share the stream only while one peer sends frames of one*)
(* byte behind its registration.                                           *)
Sound(p) ==
    IF p.end = "peer" THEN p.probes = {}
    ELSE \/ \A r, s \in p.probes : r = s
         \/ \E w \in Writers :
               /\ \A v \in Writers \ {w} : p.writes[v] = <<>>
               /\ \A n \in DOMAIN p.writes[w] :
                     n > 1 => p.writes[w][n].op \notin WithPeerId

(* What the reader makes of frame f: a DOCONNECT that carries an IPv6      *)
(* address arrives as the IPv4 address of its first octets, after which    *)
(* the parser needs no more bytes (frame.rs:357-371).                      *)
Shortened(f) == plan.end = "peer" /\ f.code = "DOCONNECT"
Received(f) == IF Shortened(f) THEN [f EXCEPT !.data = SubSeq(@, 1, V4Octets)] ELSE f

\* How many of the frames begun are complete, for the parser, in n bytes.
Complete(n) == Cardinality({k \in DOMAIN order : starts[k] + Len(Bytes(Received(order[k]))) <= n})

\* The bytes written end inside a frame.
Torn == rest # <<>> /\ Len(rest) < Len(Bytes(order[Len(order)]))

\* The frames that a reader can have, how many of them were read, and how
\* the stream ends.
Arrived == [k \in 1 .. Complete(Len(wire)) |-> Received(order[k])]
Taken   == Complete(pos)
Ending  == CASE socket = "open" -> "open"
             [] socket = "fin" /\ ~Torn -> "closed"
             [] OTHER -> "broken"

Abstract == INSTANCE Delivery WITH
    Keepers <- {Conn}, frames <- Arrived, taken <- Taken, ending <- Ending

(* Frames are read whole, once and in order however the bytes are cut and  *)
(* whichever task reads them, None means that the peer stopped between two *)
(* frames, and a frame that breaks off is an error (framehelper.rs:17-43). *)
(* A probe takes its answer and nothing else from the stream, so that      *)
(* probes that share it each get one (relay.rs:183, 201).                  *)
ImplementsDelivery == Abstract!Spec

Waiting(r) == pc[r] \in {"wants", "reading"}

(* No read outlives its connection, however many tasks queue for it.       *)
ReadEnds == \A r \in Readers : (Waiting(r) /\ socket # "open") ~> ~Waiting(r)

(* No reader sleeps over a frame that has arrived: a read waits for no     *)
(* more bytes than the frame has.  A connection returns with its first     *)
(* frame, the frames after it reach one of the probes that wait.           *)
MaxFrames == 3
FrameIsRead ==
    /\ (Waiting(Conn) /\ Complete(Len(wire)) >= 1) ~> ~Waiting(Conn)
    /\ \A n \in 1 .. MaxFrames :
          (Complete(Len(wire)) >= n /\ \E r \in Readers : Waiting(r))
              ~> (Complete(pos) >= n \/ \A r \in Readers : ~Waiting(r))

(* connect_to_peer gets its frame or an error if the relay sent anything   *)
(* before the connection ended.  (When it sent nothing and closed, the     *)
(* Sender reads None for ever: sender.rs:66.)                              *)
SenderReturns ==
    (plan.end = "peer" /\ socket # "open" /\ wire # <<>>)
        ~> (got[Conn].status \in {"frame", "error"})

(* relay.rs:171-173 "1. Send sync request to peer 2. Wait for its ACK      *)
(* response 3. Return PeerInfo": a probe succeeds only if the peer acked.  *)
ProbeMeansAck ==
    \A p \in Probes :
        got[p].status = "frame" /\ got[p].frame.op = "ProbeAck"
            => \E k \in DOMAIN order : order[k].op = "ProbeAck"
=============================================================================

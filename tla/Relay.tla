------------------------------- MODULE Relay -------------------------------
(***************************************************************************)
(* The relay server that introduces peers to each other                    *)
(* (src/src/relay/relay.rs, framehelper.rs, connection.rs, cache.rs) and   *)
(* the peer side that uses it (src/src/relay/sender.rs).                   *)
(*                                                                         *)
(* One task per connection runs process_connection.  Tasks share the cache *)
(* of registered streams; a stream is a socket behind an async mutex, which*)
(* is held while a frame is written and while a read waits for bytes.  The *)
(* cache is a DashMap: a reference to an entry holds the lock of its shard,*)
(* and insert blocks the worker thread until it gets that lock.            *)
(*                                                                         *)
(* A frame is an indivisible message here; FrameStream has its bytes, with *)
(* the frames that break off and the parse errors that end a task.  A peer *)
(* that has registered sends nothing but ProbeAcks, frames of one byte: a  *)
(* longer frame that several probes wait for could be torn between them.   *)
(***************************************************************************)
EXTENDS Integers, Sequences, FiniteSets

CONSTANTS
    Conns,          \* the connections, each with its peer and its relay task
    Senders,        \* connections on which a Sender runs connect_to_peer
    Ids,            \* peer ids
    Own,            \* the id each connection's peer registers
    Shard,          \* the DashMap shard of each id
    Workers,        \* worker threads of the runtime
    OutCap,         \* frames that fit in a socket's send buffer
    MaxRequests,    \* requests a peer other than a Sender may send
    None

ASSUME SendersAssumption == Senders \subseteq Conns
ASSUME IdsAssumption == Own \in [Conns -> Ids] /\ Shard \in [Ids -> Nat]
ASSUME NoneAssumption == None \notin Ids
ASSUME BoundsAssumption ==
    Workers \in Nat \ {0} /\ OutCap \in Nat \ {0} /\ MaxRequests \in Nat

(* Frames, by operation and peer id or result.                             *)
Register(i)  == [op |-> "Register", id |-> i]
Probe(i)     == [op |-> "Probe", id |-> i]
DoConnect(i) == [op |-> "DoConnect", id |-> i]
Ping         == [op |-> "Ping", id |-> None]
ProbeAck     == [op |-> "ProbeAck", id |-> None]
Result(op, ok) == [op |-> op, id |-> ok]
Sync         == [op |-> "SYNC", id |-> None]
DoConnectTo  == [op |-> "DOCONNECT", id |-> None]

RelayFrames ==
    {Ping, ProbeAck} \cup {Register(i) : i \in Ids} \cup {Probe(i) : i \in Ids}
                     \cup {DoConnect(i) : i \in Ids}
PeerFrames ==
    {Sync, DoConnectTo} \cup
    {Result(op, ok) : op \in {"RegisterResult", "ProbeResult", "DoConnectResult",
                              "PingResult"}, ok \in BOOLEAN}

VARIABLES
    inbox,      \* frames the peer sent that nobody has read yet
    outbox,     \* frames written to the peer's socket that it has not read
    open,       \* the peer has not closed its end
    requests,   \* requests the peer has sent
    owed,       \* SYNCs the peer has read and not answered
    sender,     \* where connect_to_peer is
    heard,      \* the first frame in the Sender's buffer
    pc,         \* where the connection's task is
    frame,      \* the first frame in the task's buffer
    reply,      \* the frame the task writes to its own peer
    dst,        \* the connection it probes or forwards to
    guard,      \* the id whose cache entry it holds a reference to
    lock,       \* the task that holds the mutex of each stream
    cache,      \* the registered connection of each id
    slot        \* the woken task that only the worker running this one will poll

peerVars == <<open, requests, owed, sender, heard>>
taskVars == <<pc, frame, reply, dst, guard, lock, cache, slot>>
vars     == <<inbox, outbox, peerVars, taskVars>>

ProbePcs == {"sync", "syncing", "ack", "acking"}
ForwardPcs == {"tell", "telling"}
Pcs == {"idle", "reading", "insert", "reply", "replying", "ended", "panicked"}
       \cup ProbePcs \cup ForwardPcs

TypeOK ==
    /\ inbox \in [Conns -> Seq(RelayFrames)]
    /\ outbox \in [Conns -> Seq(PeerFrames)]
    /\ \A c \in Conns : Len(outbox[c]) <= OutCap
    /\ open \in [Conns -> BOOLEAN]
    /\ requests \in [Conns -> 0 .. MaxRequests]
    /\ owed \in [Conns -> Nat]
    /\ sender \in [Conns -> {"peer", "start", "registering", "probing", "connecting",
                             "invalid_register", "invalid_probe", "not_found"}]
    /\ heard \in [Conns -> PeerFrames \cup {None}]
    /\ pc \in [Conns -> Pcs]
    /\ frame \in [Conns -> RelayFrames \cup {None}]
    /\ reply \in [Conns -> PeerFrames \cup {None}]
    /\ dst \in [Conns -> Conns \cup {None}]
    /\ guard \in [Conns -> Ids \cup {None}]
    /\ lock \in [Conns -> Conns \cup {None}]
    /\ cache \in [Ids -> Conns \cup {None}]
    /\ slot \in [Conns -> Conns \cup {None}]

-----------------------------------------------------------------------------
(* Worker threads.  DashMap::insert blocks its thread while some task holds *)
(* a reference into the shard.                                             *)

ShardHeld(i) == \E t \in Conns : guard[t] # None /\ Shard[guard[t]] = Shard[i]

InsertBlocked(c) == pc[c] = "insert" /\ ShardHeld(frame[c].id)

WorkerFree == Cardinality({c \in Conns : InsertBlocked(c)}) < Workers

(* A task that a running task wakes goes into the LIFO slot of its worker, *)
(* from which no other worker takes it: it is polled when that task waits. *)
InSlot(c) == \E t \in Conns : slot[t] = c

(* A task at "at" is polled.                                               *)
Polled(c, at) == pc[c] = at /\ WorkerFree /\ ~InSlot(c)

Goto(c, at) == pc' = [pc EXCEPT ![c] = at]

(* The mutex of d's stream.                                                *)
Lock(c, d)   == lock[d] = None /\ lock' = [lock EXCEPT ![d] = c]
Unlock(d)    == lock' = [lock EXCEPT ![d] = None]

\* Mutant of Write: does not wait for room.
WriteAtOnce(d, f) == outbox' = [outbox EXCEPT ![d] = Append(@, f)]

(* Write f to d's socket: waits for room; a closed peer reads nothing.     *)
Write(d, f) ==
    IF open[d] THEN /\ Len(outbox[d]) < OutCap
                    /\ outbox' = [outbox EXCEPT ![d] = Append(@, f)]
               ELSE UNCHANGED outbox

WriteFails(d) == ~open[d] /\ UNCHANGED outbox

-----------------------------------------------------------------------------
(* Connection::read_frame.  parse_frame does not remove what it parsed, so *)
(* a buffer that holds a frame yields it again without reading.            *)

LockToRead(c) ==
    /\ Polled(c, "idle")
    /\ frame[c] = None
    /\ Lock(c, c)
    /\ Goto(c, "reading")
    /\ UNCHANGED <<inbox, outbox, peerVars, frame, reply, dst, guard, cache, slot>>

(* One read may bring several frames into the buffer of 1024 bytes.        *)
ReadFrame(c) ==
    /\ Polled(c, "reading")
    /\ \E n \in 1 .. Len(inbox[c]) : inbox' = [inbox EXCEPT ![c] = SubSeq(@, n + 1, Len(@))]
    /\ frame' = [frame EXCEPT ![c] = Head(inbox[c])]
    /\ Unlock(c)
    /\ Goto(c, "idle")
    /\ UNCHANGED <<outbox, peerVars, reply, dst, guard, cache, slot>>

\* The peer closed: the task returns, or panics when the read reports a reset.
ReadEof(c) ==
    /\ Polled(c, "reading")
    /\ inbox[c] = <<>> /\ ~open[c]
    /\ Unlock(c)
    /\ \E at \in {"ended", "panicked"} : Goto(c, at)
    /\ UNCHANGED <<inbox, outbox, peerVars, frame, reply, dst, guard, cache, slot>>

-----------------------------------------------------------------------------
(* process_connection: the frame at the start of the buffer is handled.    *)

Answer(c, f) == reply' = [reply EXCEPT ![c] = f] /\ Goto(c, "reply")

\* Mutant of AfterReply: the frame is removed from the buffer.
ConsumeFrame(c) == frame' = [frame EXCEPT ![c] = None]

\* What becomes of the buffer once a frame has been handled.
AfterReply(c) == UNCHANGED frame

HandleRegister(c) ==
    /\ Polled(c, "idle")
    /\ frame[c] # None /\ frame[c].op = "Register"
    /\ Goto(c, "insert")
    /\ UNCHANGED <<inbox, outbox, peerVars, frame, reply, dst, guard, lock, cache, slot>>

\* Mutant of CacheFree: insert does not wait for references into the shard.
NoShardLock(i) == TRUE

CacheFree(i) == ~ShardHeld(i)

(* conn_cache.insert(..).unwrap(): the entry is in the cache either way,   *)
(* and the task panics unless there was an older one.                      *)
Insert(c) ==
    /\ pc[c] = "insert"
    /\ CacheFree(frame[c].id)
    /\ cache' = [cache EXCEPT ![frame[c].id] = c]
    /\ IF cache[frame[c].id] = None
         THEN Goto(c, "panicked") /\ UNCHANGED reply
         ELSE Answer(c, Result("RegisterResult", TRUE))
    /\ slot' = [slot EXCEPT ![c] = None]
    /\ UNCHANGED <<inbox, outbox, peerVars, frame, dst, guard, lock>>

(* probe and doconnect look the destination up and keep the reference.     *)
HandleProbe(c) ==
    /\ Polled(c, "idle")
    /\ frame[c] # None /\ frame[c].op \in {"Probe", "DoConnect"}
    /\ LET i == frame[c].id IN
         IF cache[i] = None
           THEN /\ Answer(c, Result(IF frame[c].op = "Probe" THEN "ProbeResult"
                                                            ELSE "DoConnectResult", FALSE))
                /\ UNCHANGED <<dst, guard>>
           ELSE /\ dst' = [dst EXCEPT ![c] = cache[i]]
                /\ guard' = [guard EXCEPT ![c] = i]
                /\ Goto(c, IF frame[c].op = "Probe" THEN "sync" ELSE "tell")
                /\ UNCHANGED reply
    /\ UNCHANGED <<inbox, outbox, peerVars, frame, lock, cache, slot>>

HandlePing(c) ==
    /\ Polled(c, "idle")
    /\ frame[c] = Ping
    /\ Answer(c, Result("PingResult", TRUE))
    /\ UNCHANGED <<inbox, outbox, peerVars, frame, dst, guard, lock, cache, slot>>

HandleProbeAck(c) ==
    /\ Polled(c, "idle")
    /\ frame[c] = ProbeAck
    /\ Goto(c, "ended")
    /\ UNCHANGED <<inbox, outbox, peerVars, frame, reply, dst, guard, lock, cache, slot>>

(* The reference to the cache entry is dropped and the result answered.    *)
Release(c, f) ==
    /\ dst' = [dst EXCEPT ![c] = None]
    /\ guard' = [guard EXCEPT ![c] = None]
    /\ Answer(c, f)

-----------------------------------------------------------------------------
(* probe: write SYNC to the destination, then read its answer.             *)

LockDst(c, from, to) ==
    /\ Polled(c, from)
    /\ Lock(c, dst[c])
    /\ Goto(c, to)
    /\ UNCHANGED <<inbox, outbox, peerVars, frame, reply, dst, guard, cache, slot>>

LockToSync(c) == LockDst(c, "sync", "syncing")
LockToAck(c)  == LockDst(c, "ack", "acking")
LockToTell(c) == LockDst(c, "tell", "telling")

WriteSync(c) ==
    /\ Polled(c, "syncing")
    /\ \/ /\ Write(dst[c], Sync)
          /\ Goto(c, "ack")
          /\ UNCHANGED <<reply, dst, guard>>
       \/ /\ WriteFails(dst[c])
          /\ Release(c, Result("ProbeResult", FALSE))
    /\ Unlock(dst[c])
    /\ UNCHANGED <<inbox, peerVars, frame, cache, slot>>

\* The buffer's capacities, 1 and then 65, make this read exactly one frame.
ReadAck(c) ==
    /\ Polled(c, "acking")
    /\ inbox[dst[c]] # <<>>
    /\ inbox' = [inbox EXCEPT ![dst[c]] = Tail(@)]
    /\ Release(c, Result("ProbeResult", Head(inbox[dst[c]]) = ProbeAck))
    /\ Unlock(dst[c])
    /\ UNCHANGED <<outbox, peerVars, frame, cache, slot>>

(* End of stream is answered; a reset makes the unwrap panic.              *)
AckEof(c) ==
    /\ Polled(c, "acking")
    /\ inbox[dst[c]] = <<>> /\ ~open[dst[c]]
    /\ \/ Release(c, Result("ProbeResult", FALSE))
       \/ /\ Goto(c, "panicked")
          /\ dst' = [dst EXCEPT ![c] = None]
          /\ guard' = [guard EXCEPT ![c] = None]
          /\ UNCHANGED reply
    /\ Unlock(dst[c])
    /\ UNCHANGED <<inbox, outbox, peerVars, frame, cache, slot>>

(* doconnect: forward the source's address to the destination.             *)
WriteTell(c) ==
    /\ Polled(c, "telling")
    /\ \/ /\ Write(dst[c], DoConnectTo)
          /\ Release(c, Result("DoConnectResult", TRUE))
       \/ /\ WriteFails(dst[c])
          /\ Release(c, Result("DoConnectResult", FALSE))
    /\ Unlock(dst[c])
    /\ UNCHANGED <<inbox, peerVars, frame, cache, slot>>

-----------------------------------------------------------------------------
(* Connection::write_frame to the task's own peer.                         *)

\* The tasks that wait for the mutex of d's stream.
Queued(d) == {t \in Conns : pc[t] \in {"sync", "ack", "tell"} /\ dst[t] = d}

(* drop(lock) wakes one of them.  With its Register still in the buffer c  *)
(* goes on from here into the next insert without waiting for anything,    *)
(* and with what it woke in the slot (which tokio now and then does not    *)
(* use); with nothing in the buffer it waits, and the slot is polled.      *)
WakeOne(c) ==
    \E t \in {w \in Queued(c) : frame'[c] # None} \cup {None} :
        slot' = [slot EXCEPT ![c] = t]

LockToReply(c) ==
    /\ Polled(c, "reply")
    /\ Lock(c, c)
    /\ Goto(c, "replying")
    /\ UNCHANGED <<inbox, outbox, peerVars, frame, reply, dst, guard, cache, slot>>

WriteReply(c) ==
    /\ Polled(c, "replying")
    /\ \/ /\ Write(c, reply[c])
          /\ Goto(c, "idle")
          /\ AfterReply(c)
          /\ WakeOne(c)
       \/ /\ WriteFails(c)
          /\ Goto(c, "ended")
          /\ UNCHANGED <<frame, slot>>
    /\ reply' = [reply EXCEPT ![c] = None]
    /\ Unlock(c)
    /\ UNCHANGED <<inbox, peerVars, dst, guard, cache>>

LockStep(c) ==
    LockToRead(c) \/ LockToSync(c) \/ LockToAck(c) \/ LockToTell(c) \/ LockToReply(c)

HandleStep(c) ==
    \/ ReadFrame(c) \/ ReadEof(c)
    \/ HandleRegister(c) \/ Insert(c)
    \/ HandleProbe(c) \/ HandlePing(c) \/ HandleProbeAck(c)
    \/ WriteSync(c) \/ ReadAck(c) \/ AckEof(c) \/ WriteTell(c) \/ WriteReply(c)

TaskStep(c) == LockStep(c) \/ HandleStep(c)

-----------------------------------------------------------------------------
(* Peers.  A peer that is not a Sender sends requests until it registers,  *)
(* reads what it is sent, answers each SYNC and may close.                 *)

Send(c, f) == inbox' = [inbox EXCEPT ![c] = Append(@, f)]

PeerRequests(c) ==
    /\ sender[c] = "peer" /\ open[c] /\ requests[c] < MaxRequests
    /\ \E f \in {Register(Own[c]), Ping, ProbeAck} \cup {Probe(i) : i \in Ids}
                \cup {DoConnect(i) : i \in Ids} :
         /\ Send(c, f)
         /\ requests' = [requests EXCEPT ![c] = IF f.op = "Register" THEN MaxRequests
                                                                    ELSE @ + 1]
    /\ UNCHANGED <<outbox, open, owed, sender, heard, taskVars>>

PeerReads(c) ==
    /\ sender[c] = "peer" /\ open[c] /\ outbox[c] # <<>>
    /\ outbox' = [outbox EXCEPT ![c] = Tail(@)]
    /\ owed' = [owed EXCEPT ![c] = IF Head(outbox[c]) = Sync THEN @ + 1 ELSE @]
    /\ UNCHANGED <<inbox, open, requests, sender, heard, taskVars>>

PeerAcks(c) ==
    /\ open[c] /\ owed[c] > 0
    /\ Send(c, ProbeAck)
    /\ owed' = [owed EXCEPT ![c] = @ - 1]
    /\ UNCHANGED <<outbox, open, requests, sender, heard, taskVars>>

PeerCloses(c) ==
    /\ sender[c] = "peer" /\ open[c]
    /\ open' = [open EXCEPT ![c] = FALSE]
    /\ outbox' = [outbox EXCEPT ![c] = <<>>]
    /\ UNCHANGED <<inbox, requests, owed, sender, heard, taskVars>>

(* Sender::connect_to_peer: register, probe, connect.  Its connection does *)
(* not remove a parsed frame from its buffer either, so what it heard      *)
(* first it hears again.                                                   *)
SenderStarts(c) ==
    /\ sender[c] = "start"
    /\ Send(c, Register(Own[c]))
    /\ sender' = [sender EXCEPT ![c] = "registering"]
    /\ UNCHANGED <<outbox, open, requests, owed, heard, taskVars>>

SenderReads(c) ==
    /\ sender[c] \in {"registering", "probing"}
    /\ heard[c] = None /\ outbox[c] # <<>>
    /\ heard' = [heard EXCEPT ![c] = Head(outbox[c])]
    /\ outbox' = [outbox EXCEPT ![c] = Tail(@)]
    /\ UNCHANGED <<inbox, open, requests, owed, sender, taskVars>>

SenderRegistered(c) ==
    /\ sender[c] = "registering" /\ heard[c] # None
    /\ IF heard[c] = Result("RegisterResult", TRUE)
         THEN \E i \in Ids \ {Own[c]} :
                /\ Send(c, Probe(i))
                /\ sender' = [sender EXCEPT ![c] = "probing"]
         ELSE sender' = [sender EXCEPT ![c] = "invalid_register"] /\ UNCHANGED inbox
    /\ UNCHANGED <<outbox, open, requests, owed, heard, taskVars>>

SenderProbed(c) ==
    /\ sender[c] = "probing" /\ heard[c] # None
    /\ sender' = [sender EXCEPT ![c] =
                    CASE heard[c] = Result("ProbeResult", TRUE)  -> "connecting"
                      [] heard[c] = Result("ProbeResult", FALSE) -> "not_found"
                      [] OTHER                                   -> "invalid_probe"]
    /\ UNCHANGED <<inbox, outbox, open, requests, owed, heard, taskVars>>

PeerStep(c) ==
    \/ PeerRequests(c) \/ PeerReads(c) \/ PeerAcks(c) \/ PeerCloses(c)
    \/ SenderStarts(c) \/ SenderReads(c) \/ SenderRegistered(c) \/ SenderProbed(c)

Init ==
    /\ inbox = [c \in Conns |-> <<>>]
    /\ outbox = [c \in Conns |-> <<>>]
    /\ open = [c \in Conns |-> TRUE]
    /\ requests = [c \in Conns |-> 0]
    /\ owed = [c \in Conns |-> 0]
    /\ sender = [c \in Conns |-> IF c \in Senders THEN "start" ELSE "peer"]
    /\ heard = [c \in Conns |-> None]
    /\ pc = [c \in Conns |-> "idle"]
    /\ frame = [c \in Conns |-> None]
    /\ reply = [c \in Conns |-> None]
    /\ dst = [c \in Conns |-> None]
    /\ guard = [c \in Conns |-> None]
    /\ lock = [c \in Conns |-> None]
    /\ cache = [i \in Ids |-> None]
    /\ slot = [c \in Conns |-> None]

Next == \E c \in Conns : TaskStep(c) \/ PeerStep(c)

Spec == Init /\ [][Next]_vars

(* A peer reads and answers; nothing obliges it to send a request or to    *)
(* close.                                                                  *)
PeerFairness == \A c \in Conns : WF_vars(PeerReads(c)) /\ WF_vars(PeerAcks(c))

(* What tokio promises: tasks that can move are polled, and get a mutex in *)
(* the order they asked for it, provided that no poll blocks its thread.   *)
(* While one does, a worker that sleeps may not be woken and the sockets   *)
(* may not be looked at, however many workers there are.                   *)
ThreadsRun == \A c \in Conns : ~InsertBlocked(c)

Fairness ==
    \A c \in Conns : /\ SF_vars(ThreadsRun /\ LockStep(c))
                     /\ WF_vars(ThreadsRun /\ HandleStep(c))

FairSpec == Spec /\ Fairness /\ PeerFairness

(* More than it promises: as long as one worker is free, every task is     *)
(* polled that does not wait in the slot of another.                       *)
PromptFairness ==
    \A c \in Conns : SF_vars(LockStep(c)) /\ WF_vars(HandleStep(c))

PromptSpec == Spec /\ PromptFairness /\ PeerFairness

-----------------------------------------------------------------------------
(* Properties.                                                             *)

Serving(c) == pc[c] \in ProbePcs \cup ForwardPcs

(* A stream that other tasks can find in the cache is never being read by  *)
(* its own task (relay.rs:321: a ProbeAck "is supposed to be read by Probe *)
(* method, not here").                                                     *)
RegisteredIsNotRead ==
    \A i \in Ids : cache[i] # None => pc[cache[i]] # "reading"

(* While a task serves a probe or a doconnect, the cache entry it found    *)
(* stays what it found: no registration replaces, and so closes, a stream  *)
(* that is in use (relay.rs:176, 228).                                     *)
GuardPinsEntry ==
    \A c \in Conns : Serving(c) => guard[c] # None /\ cache[guard[c]] = dst[c]

SyncsIn(d) == Cardinality({n \in 1 .. Len(outbox[d]) : outbox[d][n] = Sync})
AcksIn(d) == Cardinality({n \in 1 .. Len(inbox[d]) : inbox[d][n] = ProbeAck})
Awaiting(d) == {c \in Conns : pc[c] \in {"ack", "acking"} /\ dst[c] = d}

(* Every probe that waits for an answer of an open peer has a SYNC, an     *)
(* unanswered SYNC or an unread ProbeAck of its own on the way, however    *)
(* many probes share the stream: no answer is taken by somebody else.  (A   *)
(* Sender reads a SYNC and does not answer it.)                            *)
NoAckLost ==
    \A d \in Conns :
        sender[d] = "peer" /\ open[d] =>
            Cardinality(Awaiting(d)) <= SyncsIn(d) + owed[d] + AcksIn(d)

(* A request to reach a peer that reads and answers comes to an end        *)
(* (relay.rs:171-173 "2. Wait for its ACK response 3. Return PeerInfo").   *)
PeerServed ==
    \A c \in Conns : (Serving(c) /\ sender[dst[c]] = "peer") ~> ~Serving(c)

(* It does, however many requests share the peer's stream and though the   *)
(* peer may close, unless a registration blocks its thread for ever        *)
(* (relay.rs:167, 171-242).                                                *)
ServedOrBlocked ==
    \A c \in Conns :
        (Serving(c) /\ sender[dst[c]] = "peer")
            ~> (~Serving(c) \/ [](~ThreadsRun))

(* Registering a peer succeeds or fails with an answer (relay.rs:80-87,    *)
(* frame.rs:62).                                                           *)
RegistrationIsAnswered ==
    \A c \in Conns :
        pc[c] = "panicked" /\ frame[c] # None => frame[c].op # "Register"

(* A Sender never mistakes what the relay answers (sender.rs:28, 82).      *)
ProbeResponseIsValid == \A c \in Conns : sender[c] # "invalid_probe"
=============================================================================

# pcopy in TLA+

TLA+ models of pcopy, the TLC runs that check them and the TLAPS proofs about
them. pcopy copies a folder from one computer to another: a client walks the
folder and sends every file over a TCP connection of its own, a server stores
what it receives. A second part, not yet wired to the command line, is a relay
server with which peers register and through which they find each other.

Line numbers are those of the repository; `server.rs` stands for
`src/server/server.rs`, `relay.rs` for `src/relay/relay.rs`, and so on.

| To check | with |
|---|---|
| the upload task | `tlc -config ServerTask.cfg MCServerTask.tla` (and the other `ServerTask*.cfg`) |
| runs of the client against the server | `tlc -config Backup.cfg MCBackup.tla` (and `BackupRerun.cfg`) |
| the relay | `tlc -config Relay.cfg MCRelay.tla` (and the other `Relay*.cfg`) |
| relay frames in bytes | `tlc -config FrameStream.cfg MCFrameStream.tla` (and `FrameStreamTorn.cfg`) |
| the proofs | `tlapm` on ServerTaskProofs, ServerTaskRefinement, ServerTaskEndProofs, RelayProofs, RelayAckProofs, BackupProofs, FramesProofs and FrameStreamProofs |

## 1. Inventory

### The components

| Component | Source | State it keeps | Operations | Module |
|---|---|---|---|---|
| server connection task | server.rs:80-590 | a buffer of 1024 bytes, `start_index`, `end_index`, `file_data_length`, two hashers, a file handle | the match on the operation in `run`, `create_parent_folder`, `save_file`, `read_checksum` | ServerTask |
| upload contract | the same, seen from outside | the bytes sent, the file, the verdict | receive, store, fail | Upload |
| accept loop and backup directory | server.rs:466-530 | the listener, one task per connection, the files | accept, spawn; create, write | Backup |
| client | client.rs, main.rs:40-60 | the walk, one file and connection at a time, a buffer, a hasher | `send_folder`, `send_file` | Backup (its stream byte by byte: the requests of ServerTask) |
| relay server | relay.rs | the cache of registered streams, one task per connection | `register`, `probe`, `doconnect`, `ping`, `process_connection` | Relay, FrameStream |
| connection cache | cache.rs | a `DashMap`: a lock per shard | `get` (returns a guard), `insert` | Relay |
| frame input and output | framehelper.rs, connection.rs | an async mutex per stream, a read buffer per connection | `read_frame`, `write_frame`, `parse_frame` | FrameStream (implements Delivery); over whole frames in Relay |
| peer | sender.rs | where `connect_to_peer` is, its connection's buffer | register, probe, connect | Relay, FrameStream |
| frame codec | frame.rs, peer.rs | none | `parse`, `to_be_bytes`, `PeerInfo::try_from` | Frames |
| command line | main.rs | none | dispatch on the first argument | not modelled |
| empty files, benchmark | receiver.rs, clien_conn.rs, benches/ | none | none | not modelled |

### How they interact

* The client and a server task share only a TCP stream: bytes arrive in order,
  in pieces of any size, and the stream may end (FIN) or be reset (RST)
  anywhere. The client never reads the one-byte reply of the server.
* Server tasks share the backup directory. Each has a file handle with a
  position of its own; nothing orders two tasks that save the same path.
* Relay tasks share the cache and, through it, each other's streams: `probe`
  and `doconnect` look a peer up, keep the DashMap reference and write to, or
  read from, the stream that the peer's own task also serves. A stream is behind
  a tokio mutex, which is held while a read waits; a DashMap reference blocks
  the *thread* of any task that inserts into the same shard.

### What is hard in it

1. Five read loops over one fixed buffer, each resuming where the last stopped,
   with a reuse of the buffer that is right only at exact alignments (the loops at
   server.rs:100, 132, 302, 358 and 544). The tests feed a handful of fixed splits.
2. Partial failure in the middle of a request: the file is truncated first,
   written piece by piece, and judged last.
3. Several runs, tasks that outlive their client, a server that stops between
   two writes, and files that change between `metadata()` and the last read.
4. Guards and mutexes held across awaits in the relay, two kinds of lock (one
   that blocks a task, one that blocks a thread), streams read by two tasks.
5. A parser that leaves its frame in the buffer, and an `unwrap` on `insert`.
6. Frames in pieces: two ends, several readers with buffers of their own on one
   stream, streams that end inside a frame.

### What makes each component right

* *Task*: every byte is processed once and in order however the stream is cut;
  the file is always a gapless prefix of the data; a reply of 1 means the whole
  file; a complete upload is on disk whatever the verdict; the task ends when
  its client is gone.
* *Server and client*: an accepted upload is on disk as it was sent if nobody
  else worked on that path; a finished run left every file there.
* *Relay*: no task reads a stream behind another's back, no answer is taken by
  the wrong probe, a stream in use is not replaced, every probe of a live peer
  comes to an end unless a registration blocks a thread for ever, a registration
  and a probe are answered.
* *Frames*: what was written is read whole, once and in order however it is cut;
  a frame that breaks off is an error; a read waits for no byte that cannot come.

Every hazard, with its line and the properties aimed at it, is in PROJECT.json.

## 2. Modules

```
Upload            what one upload promises
ServerTask        one connection task, byte by byte; implements Upload
  ServerTaskProofs, ServerTaskRefinement, ServerTaskEndProofs
  MCServerTask
Backup            runs of the client, connection tasks, one directory
  BackupProofs
  MCBackup
Relay             relay tasks, streams, cache, worker threads, peers
  RelayProofs, RelayAckProofs
  MCRelay
Frames            the relay protocol's frames as bytes, and their parsers
  FramesProofs
Delivery          what reading frames from a stream promises
FrameStream       one direction of a relay connection, byte by byte:
                  writers, a connection's reader, probes; implements Delivery
  FrameStreamProofs
  MCFrameStream
```

### ServerTask

One action per await or per branch between awaits. `FirstRead` is the read in
`run`; `Fill(at, need)` is one turn of the loop "read until `need` bytes are
buffered" that the code repeats for the path length, the path, the two checksums
and the data length, and `Consume` what follows it; `CreateParent`, `CreateFile`,
`WriteFirst`, `ReceiveData` (with `LastChunk` and `MiddleChunk`, the two branches
of server.rs:389-440), `ReceiveDataStops`, `DataComplete` and `CheckData` follow
`save_file` line by line. `Arrive` and `PeerEnds` are the client and the network.

A byte is named by its position in the client's stream. A byte that is lost,
repeated or read from a stale place in the buffer is therefore visible, which
real contents would hide; a number read from the wrong place (`Field`) may be
anything. A checksum matches iff the four bytes are the checksum field and the
hashed bytes are the ones the client hashed: CRC collisions are left out.
Panics end the task without a reply, in the debug and the release build alike:
where server.rs:408 underflows, release wraps and the assertion of line 410
fails instead.

`Faults` says what the file system may do wrong: refuse a directory, a file or a
write, and write short.

### Backup

The state is the files of each host, the runs, the connections in the order
they were made, and the backup directory. Client actions: `Connect`, `Measure`
(open and `metadata`), `SendFirst` (the header and the first read leave
together), `SendMore`, `SendChecksum`, and the panics `ConnectFails`,
`OpenFails`; `Kill` interrupts a run. Task actions: `CreateFile`, `WriteData`,
`Check` and the ends of a broken stream. `Edit` changes, shrinks, grows or
removes a file while it is being sent; `HeaderOverflows` is the panic on a path
that makes a header of more than 1024 bytes (`LongPaths`); `Fault` is a failing file operation;
`ServerStops`/`ServerStarts` lose every task. A piece of data is as long as a
checksum and is named by host, version and place, so that what another run wrote
is told apart. What ServerTask shows about one task byte by byte is used here in
its visible form: `Check` may answer -1 for a good upload, since ServerTask found
alignments for which the code does.

### Relay

One process per connection with the program counter of `process_connection` and
of the handler it is in: `idle` (before `read_frame`), `reading` (mutex held,
waiting for bytes), `insert` (inside `DashMap::insert`), `sync`/`syncing` and
`ack`/`acking` (the two halves of `probe`), `tell`/`telling` (`doconnect`),
`reply`/`replying` (`write_frame`), `ended` and `panicked`. `guard[c]` is the
cache reference the task holds and `lock[d]` the holder of a stream's mutex. A
task in `insert` with its shard held blocks a worker thread; no task is polled
when every worker is blocked (`WorkerFree`). Nor is a task polled that sits in the
slot of a running one (`slot`, `InSlot`): tokio puts the task that a `drop(lock)`
wakes into a slot of the worker at hand, from which the other workers do not
steal. `WakeOne` is that wakeup, in `WriteReply` of a task whose Register is still in
its buffer: it goes straight on into the next `insert` without waiting for
anything, so that the task in its slot is not polled until `insert` has returned
(from there it waits for the mutex, which the woken task is next to get). Tasks
with other frames, and the other places where a mutex is dropped, never lead into
`insert`, so their wakeups delay nobody. A write waits for room in the
socket (`OutCap` frames). `frame[c]` is never cleared: `parse_frame`
(framehelper.rs:63-78) does not consume what it parsed.

Peers that are not Senders send any request until they register, read, answer
each SYNC with a ProbeAck, and may close at any time. `Sender*` follow
`connect_to_peer`, whose connection keeps its first frame in the same way.

### Frames, FrameStream and Delivery

Frames writes down `to_be_bytes` and `parse` as operators on sequences of bytes,
with the lengths of an id, of an address and of a round trip time as parameters.
A frame is a record `[op, code, data, rtt]`. A parser returns a frame, "incomplete"
(it needs more bytes) or "invalid"; the numbers of the operations and codes are the
code's own. `IsRelayFrame` and `IsPeerFrame` say which frames there are: the values
of the two enumerations, with ids and addresses of the right length.
`ParseDoConnect` reads an IPv4 address whatever was written, and `ParsePeerInfo`
keeps the low 8 of the 16 bytes of a round trip time, as the code does.

FrameStream is one direction of a connection between a peer and the relay.
`plan` says which end reads, what each writer writes and which tasks probe.
`BeginWrite` and `WriteBytes` are `write_frame_given_stream` (the mutex is held
over all the bytes of a frame), `WriterEnds` a FIN or a reset between any two
bytes. `starts` remembers where in the stream each frame begins; no guard reads
it, the properties do. `Call`, `TakeLock`, `ReadBytes`, `ReadEof` and `ReadReset` are
`read_frame_given_stream`: the parser first, then one `read_buf` per acquisition
of the mutex. `Room` is what matters about the buffers: a connection reads into
1024 bytes, a probe into one byte (`PROBE_ACK_LENGTH`), which `read_buf` grows by
64, the length of an id, when it is full. `OnError` is what the callers do with an error:
the relay's `unwrap` panics, the Sender returns. Relay takes these frames for
indivisible messages; FrameStream shows when that is right.

Delivery is the contract: frames are appended, taken one by one and in order (a
connection's reader may take more than it returns, since the rest stays in its
buffer), an end is reported only when every frame was taken, and a stream that
broke off inside a frame is an error first. The refinement mapping, in
FrameStream, counts the frames that are complete, as far as the parser needs
them, in the bytes written and in the bytes read. `Sound` names the plans for
which the contract is kept: on the peer's side one task reads; on the relay's,
either there is one probe, or one peer sends frames of one byte behind its
registration, so that no task takes a part of a frame that another one has begun
to read. TLC evaluates it on the plans of both runs: those of frame_stream are
sound, those of frame_stream_torn are not.

## 3. Runs

| Run | Configuration | Properties | States | What it shows |
|---|---|---|---|---|
| server_task | all requests, BufLen 14, failing disk | TypeOK, BufferIsWindow, Progress, FileIsPrefix, OkMeansSaved, CompleteUploadIsStored, NoDataIsEofOrFullBuffer, ImplementsUpload, TaskEnds | 337k | the buffer discipline, what is on disk, what a reply means, the refinement, that a task whose client is gone ends |
| server_task_assert | uploads only | FileDataLengthIsZero (violated) | | finding 1 |
| server_task_eof | uploads only | NoDataMeansEof (violated) | | finding 2 |
| server_task_short | short writes, BufLen 20 | OkMeansSaved (violated) | | finding 3 |
| backup | two runs, one path in common, one trouble | TypeOK, StoredIfAlone, OkIsWholeFile, FinishedIsStored, no deadlock | 1.8M | what a reply and a finished run mean |
| backup_rerun | the same, no trouble | OkSurvives (violated) | | finding 4 |
| relay | two peers and a Sender, 2 workers | TypeOK, RegisteredIsNotRead, GuardPinsEntry, NoAckLost, ServedOrBlocked | 102k | the sharing of streams and cache is sound; requests end unless a thread is blocked for ever |
| relay_starved | 3 workers, prompt scheduling | PeerServed (violated) | | finding 5 |
| relay_register | | RegistrationIsAnswered (violated) | | finding 6 |
| relay_sender | | ProbeResponseIsValid (violated) | | finding 7 |
| frame_stream | every frame, both directions, two probes | TypeOK, ImplementsDelivery, ReadEnds, FrameIsRead, SenderReturns | 17k | frames survive any cutting of the stream; reads end |
| frame_stream_torn | a Sender probed twice while it probes | ProbeMeansAck (violated) | | finding 8 |

### Bounds

*ServerTask.* `BufLen` 14 instead of 1024: a header with a one-byte path takes
12 bytes, so data begins in the first buffer, ends 3, 1 or 0 bytes before the end
of a reused one, and takes up to three buffers; a three-byte path fills the
buffer exactly and a four-byte one does not fit. Every arrival and every read may
have any size, so all alignments of the fields with the buffer and with the reads
occur. `server_task_short` needs data in the first buffer that can be written
short and uses 20. The safety theorems hold for every `BufLen`.

*Backup.* Files of length 0 to 3 pieces, two runs, one path in common; the
counter `MaxTrouble` = 1 bounds edits, stops and faults together, and
`MaxLength` = 2 makes a file of 3 too long. One trouble reaches every recovery
path; two runs are enough for overlapping tasks, and a run's own uploads overlap
because it does not wait. A second edit of the same file only replaces a version
by another. Short writes are in ServerTask only.

*FrameStream.* An id of 2 bytes, addresses of 2 and 3, a round trip time of 2 of
which 1 is kept, a buffer of 10 bytes: every field is longer than one byte, so
each can be cut, the two kinds of address differ in length, and the largest plan
fits in the buffer as the frames of a real connection do (the code never reads on
after its first frame). The id begins with 5, the byte of a ProbeAck, so that a
payload read as an operation goes unnoticed by the parser. Plans: each frame on
its own; a registration followed by two ProbeAcks for two probes, or by any frame
and a ProbeAck for one probe; two frames of two writers to a peer. A long
frame that two probes share is left to the run frame_stream_torn, which shows why. A round trip
time that does not fit in 64 bits of milliseconds does not occur.

*Relay.* Two ids in one shard and three connections, two of which own the same
id: a probe while another task waits in `insert` into the same shard, an entry
replaced, a probe of oneself, and two probes of one peer all occur. `OutCap` = 1
makes writes wait. `MaxRequests` = 1 loses nothing a task could do: the frames
after a connection's first are never handled by its own task. In this
instance no two registrations wait for a shard at once (that takes two tasks that
survived their registration, and a third that probes), so that two workers do
what any larger number would: `WorkerFree` holds throughout, and it is the `slot`
that keeps tasks from being polled. One worker would only take behaviour away.
`relay_starved` has a worker for each connection, so that the hang it shows
is not one of too few threads.

### Fairness

*ServerTask*: weak fairness of the task alone, since the runtime polls a task
whose read is ready; nothing obliges the client to send or to close. TaskEnds
assumes that the end of the connection reaches the server: the code has no
timeout, so a client host that vanishes silently keeps its task for ever.

*Relay*: weak fairness of a task's own steps; strong fairness of its steps that
take a mutex, because tokio's mutex is granted in the order it was asked for, so
that a task that waits gets it although others take it in between; both only
of steps taken while no `insert` blocks its thread (`ThreadsRun`). Tokio promises no more:
it is fair as long as no poll blocks, and while one does, the woken task may be in
the blocked worker's slot, the sockets may be watched by nobody and a sleeping
worker may not be woken. This is `FairSpec`, under which ServedOrBlocked holds.
`PromptSpec`, used by `relay_starved` alone, promises more than tokio does: every
task that can move and is not in another's slot is polled as long as one worker is
free. PeerServed is violated even so. In both, weak fairness
of a peer that reads and answers SYNCs (`PeerFairness`).
Sending a request, closing, and the Sender's steps are never forced. Deadlock is
not checked in this module: a system in which nobody asks is quiet.

*FrameStream*: weak fairness of each reader's own steps and strong fairness of
`TakeLock`, for the same reasons. Nothing makes a writer finish a frame or end
the connection; the liveness properties start from bytes that are there or a
connection that is over.

*Backup*: no fairness, safety only. Deadlock is checked there: from every state
the runs and the tasks can go on or are all over (`AllOver`). In ServerTask a
task that is done, or waits for a silent client, may stop.

### Properties, beyond types

* `BufferIsWindow`, `Progress`: the indices delimit exactly the unprocessed
  bytes, and the bytes processed end exactly where the next field begins.
* `FileIsPrefix`, `OkMeansSaved`, `CompleteUploadIsStored`: what is on disk at any
  time, after a 1, and after a complete upload, even one answered with -1.
* `NoDataIsEofOrFullBuffer`: where the code's "no data" is wrong, and that it is
  wrong nowhere else.
* `ImplementsUpload`: ServerTask implements Upload under the mapping written in
  ServerTask (the file and the data bytes of the stream; stored iff answered with 1).
* `TaskEnds`: liveness.
* `StoredIfAlone`, `OkIsWholeFile`, `FinishedIsStored`: the same promises across
  tasks, runs, edits and stops.
* `RegisteredIsNotRead`, `GuardPinsEntry`, `NoAckLost`: see the comments in Relay.
* `ServedOrBlocked`: a probe or a doconnect of a peer that reads and answers comes to
  an end, or from some time on a registration blocks its thread for ever.
  `PeerServed`, without the second half, is what relay.rs:171-174 says, and is violated.
* `ImplementsDelivery`: FrameStream implements Delivery. It fails if a parser needs
  a byte more or less than the writer wrote, if a probe takes two answers, if a
  stream that broke off passes for one that ended.
* `ReadEnds`, `FrameIsRead`, `SenderReturns`: no read outlives its connection, none
  sleeps over a frame that has arrived, and a Sender whose relay sent anything
  gets a frame or an error.

Every property of a passing run comes with a mutation of the model, a plausible
bug in the code, that breaks it ("mutants" in PROJECT.json; the mutated forms
stand before the definitions they replace).

## 4. Findings

1. **server.rs:408.** The last chunk subtracts an index from a length. Unless
   the last read began at index 0 the task panics after the data was stored, and
   the client gets no reply. The comment at 409 says "File data length should be
   zero here".
2. **server.rs:546.** `read_checksum` reads into the rest of a full buffer, an
   empty slice, and takes the 0 for the end of the stream: data that ends within 3
   bytes of the end of the buffer makes the upload fail.
3. **server.rs:345.** One `write`, not `write_all`: a short write leaves a hole
   that the checksum, computed over the buffer, does not see.
4. **server.rs:283.** Two uploads of one path: the second `File::create` empties the
   file under the first, which is then answered with 1 for a file that is not its own.
5. **relay.rs:176.** A cache reference held across awaits, and inserts that block
   threads: one registration is enough to stop a probe and itself for ever, however
   many worker threads there are. A peer has registered, and its Register, still in
   the buffer, is being answered again; a probe of the same id has its reference
   (relay.rs:176) and waits for the stream's mutex. `drop(lock)` (framehelper.rs:59)
   wakes the probe into the slot of the worker, which goes on into `insert`
   (relay.rs:167) and waits there for the reference that the probe holds. With as
   many registrations in `insert` as there are threads nothing runs at all.
6. **relay.rs:167.** `insert(..).unwrap()`: the first registration of every id panics.
7. **framehelper.rs:63.** A parsed frame stays in the buffer: the Sender takes the
   answer to its registration for the answer to its probe.

8. **relay.rs:184.** Two probes of one peer read its stream in turns, each into a
   buffer of its own. If the peer, a Sender, sends its own Probe meanwhile, one
   probe gets the operation and the other the id, and an id that begins with 5
   passes for a ProbeAck.

Read off the code or the models, without a run of their own: main.rs gives the
client port 8888 and the server port 9999, so the two commands of the
repository's README never meet; the -1 of a failed folder request is a future
nobody awaits (server.rs:503; the repository's client sends no such request); a
DOCONNECT with an IPv6 address arrives as the IPv4 address of its first four
octets (frame.rs:357, `Received` in FrameStream); a Sender whose relay closes
before it has sent a byte reads `None` for ever (sender.rs:66, which is why
SenderReturns asks that something was sent).

## 5. Proofs

`ServerTaskProofs` proves, for every buffer length, every set of requests and
every set of faults (assumptions `BufLenAssumption`, `RequestsAssumption`,
`FaultsAssumption` of ServerTask):

* `TypeCorrect`: `Spec => []TypeOK`. It contains that no length or index goes
  below zero except where the code's own assertion stops it.
* `BufferCorrect`: `Spec => []BufferIsWindow`.
* With no short writes (`"short" \notin Faults`): `ProgressCorrect`,
  `PrefixCorrect`, `OkCorrect`, that is `Progress`, `FileIsPrefix` and
  `OkMeansSaved`.

The first two rest on `BufferInv == TypeOK /\ BufferIsWindow`, which is inductive:
types alone are not, since a slice of the buffer is a sequence only while the
indices do not cross. The other three rest on `SaveInv`, which adds `Progress`,
`FileIsPrefix` and `OkMeansSaved`: that the next write appends the *right* bytes
needs that the window ends where the stream was last read (`BufferIsWindow`) and
that the processed bytes end where the data begins or continues (`Progress`),
and the answer of `CheckData` is right because the counter, the file and the
hasher agree. The run server_task_short shows that the premise is needed.

`ServerTaskRefinement` proves `Refinement`: with no short writes,
`Spec => ImplementsUpload`. Its invariant `UploadInv` adds to `SaveInv` that the
file is no longer than the data received (`FileIsReceived`: what is written lies
within the stream, which Upload's `Grow` asks for even when the write fails),
that only SaveFile requests reach the file, and that a request has a result
exactly when it is over. Every step of the task then *goes* on, *breaks* the
request or *saves* it; with or without new bytes in the file these are
`Receive`, `Fail` and `Store` of Upload, and the client's steps stutter.

`ServerTaskEndProofs` adds how a request ends. `StoredCorrect` (`[]CompleteUploadIsStored`)
and `NoDataCorrect` (`NoDataIsEofOrFullBuffer`), again without short writes, rest on
`EndInv`, which adds to `UploadInv`: until the data begins the buffer holds the
stream from its first byte (`HeaderInFirstBuffer`, so a header that fits leaves
room for what is missing of it); the path is the one received; and a task that is
over either failed with the disk or the connection, or has all the declared data in
the file, or lost its client before everything was sent (`EndIsExplained`, for a
well-formed upload). The last is what makes the first property provable: a verdict other
than 1 says nothing about the file by itself, only why it was given does.

`RelayProofs` proves, for all sets of connections, ids and shards, all numbers of
workers, all socket sizes and any number of requests (assumptions
`SendersAssumption`, `IdsAssumption`, `NoneAssumption`, `BoundsAssumption` of
Relay), `TypeCorrect`, `GuardCorrect` (`[]GuardPinsEntry`) and `ReadCorrect`
(`[]RegisteredIsNotRead`). The inductive invariant `StreamInv` says besides the
types: a task inserting has a Register frame; a task replying has its reply; a
stream is read by its own task only while that has no frame; a task serving a
request holds a guard; a held guard's entry is the stream in use, which insert
keeps since it waits for the shard; and a cached stream's task has a frame.
The last two are what makes the two properties inductive: who is in the cache
was put there by handling a frame, and a frame once parsed is never dropped.

`RelayAckProofs` proves `AckCorrect` (`[]NoAckLost`) from `AckInv`, which adds to
`StreamInv` that the probes which wait on a stream are finitely many and no more
than the SYNCs, unanswered SYNCs and ProbeAcks on it; `Conns` may be infinite. It needs
`RegisteredIsNotRead`: a stream's own task would take a probe's answer. Sockets
are counted with `PlacesAppend` and `PlacesTail`, the number of a kind of frame in
a queue that grows at its end and shrinks at its head.

`BackupProofs` proves all four invariants of Backup for all sets of runs, hosts,
files and lengths and any number of edits, stops and failures
(`FoldersAssumption`, `LengthsAssumption`, `BoundsAssumption` of Backup):
`BackupTypeCorrect`, `StoredIfAloneCorrect`, `OkIsWholeFileCorrect` and
`FinishedIsStoredCorrect`. None of them is inductive. `BackupInv` relates

* each connection to itself (`ConnectionInv`): its stream is the beginning of a
  file in order with at most a checksum at the end, a task is never ahead of it,
  a 1 means that the checksum came right after the declared data, and a task
  that ended while nothing failed has written what was declared or met the end of
  its stream;
* each run to its connections (`Sends`, `Covers`): only the current one is open, its
  stream is as long as what was read, and every file is still to do, or has a
  connection that was sent to its end or skipped;
* connections to each other (`Rivalry`): a task at work on a file is among the
  rivals of everybody who has worked on it;
* the disk to the connections (`WrittenOut`): without rivals, the file is the part
  of the stream that was written.

`Rivalry` is why `WrittenOut` survives the step of another task: a write to the same
file is made by a rival. Each action has a lemma; two more say what the steps of
a task leave alone for the runs (`RunsInvKept`) and those of a run for the tasks
(`RunStepPreserves`).

`FramesProofs` proves, for all lengths of ids, addresses and round trip times
(`LengthsAssumption` of Frames), what the codec does with one frame in a buffer.
`RelayRoundTrip` and `PeerCodeRoundTrip`: `parse` after `to_be_bytes` is the
identity, whatever bytes follow. `ProbeResultRoundTrip`: so it is for an address
with a round trip time that fits in the bytes that are kept of it; longer times
lose their high bytes, which the code does with `as u64`. `DoConnectRoundTrip`: of
an address the first `V4Octets` octets arrive, which is the code's own limit to
IPv4. `RelayPrefix` and `PeerPrefix`: with one byte missing that the parser
reads, it answers "incomplete", never a frame and never an error. The dispatch
lemmas (`RelayDispatch`, `PeerDispatch`) reduce a parser to its branch because every
byte names at most one operation or code; `Payload` and `Inside` say where the
payload lies in a buffer that goes on. That the bytes of a number add up to it
takes induction, for which the library's theorems want an operator;
`SetInduction` states it for a *set* of numbers instead (the least number outside
the set is the contradiction), and `Recursion` derives from it that a recursive
function such as `Power` has the values its definition says.

`FrameStreamProofs` composes frames into streams, for all plans whose frames the
types of the code allow, all sets of probes and writers and all lengths
(`ReadersAssumption`, `BufferAssumption`, `PlansAssumption` of FrameStream):

* `TypeCorrect`: `Spec => []TypeOK`. The sizes in it are the point: no reader is
  ahead of the writers and no buffer outgrows its capacity.
* `DeliveryCorrect`: if every plan is `Sound`, `Spec => ImplementsDelivery`.

The inductive invariant of the second has five parts. `Types`. `Layout`: frames lie
one behind the other, and what is not yet written belongs to the last.
`Contents`: what was written, with what remains, is the bytes of the frames; the two
make the stream a concatenation without a sum over its frames. `Sharing`: either a
single probe, or one writer's frames of one byte behind the registration.
`Reading`: until the connection has its first frame it alone reads, and its buffer is
the stream read so far (`NotYet`); afterwards (`Returned`) the read position is
between two frames (`Between`), or inside a frame that the only probe has begun
(`HasBegun`), whose buffer is the part of it that was read. The last two are why
the parser's answer is a statement about the stream: what is in the buffer of
whoever reads is a beginning of the next frame, and `Framed`, taken from
FramesProofs, says that the parser then waits, or returns just that frame. Steps of
the writers are `Write`, `Close` or a stutter of Delivery, those of the readers
`Deliver`, `End`, `Break` or a stutter. The run frame_stream_torn shows that the
premise is needed.

Only model-checked: all liveness (`TaskEnds`, `ServedOrBlocked`, `ReadEnds`,
`FrameIsRead`, `SenderReturns`) and everything about fairness, which are out of the
prover's reach. Every invariant and both refinements that a passing run checks
are theorems. No module has a RECURSIVE operator.

## 6. Not modelled

* The last step of `connect_to_peer` (sender.rs:114-117, a connect to the host's own
  address): the code never gets there, because of finding 7.
* An error of `accept`, which ends the server or the relay: a stop of the process.
* CRC collisions; paths with `..`; timeouts (there are none).
* main.rs, the empty files, and the benchmark, which holds a placeholder.

## 7. Plan

Done, in this order: ServerTask with Upload, its proofs, Relay, Backup,
RelayProofs, ServerTaskRefinement, Frames with FrameStream and Delivery,
FramesProofs, ServerTaskEndProofs, RelayAckProofs, BackupProofs,
FrameStreamProofs. Next: the *client in bytes*, that is the buffer of `send_file`
composed with ServerTask, so that requests are produced by the code instead of
enumerated.

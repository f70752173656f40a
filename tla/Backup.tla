------------------------------- MODULE Backup -------------------------------
(***************************************************************************)
(* Runs of the backup client (src/src/client/client.rs, src/src/main.rs)   *)
(* against the backup server's accept loop and its tasks                   *)
(* (src/src/server/server.rs) on one backup directory.                     *)
(*                                                                         *)
(* A run walks its folder and uploads one file per connection.  It does    *)
(* not wait for the server's answers, so the tasks of one run, and of runs *)
(* on several hosts, overlap; every task writes through a file handle of   *)
(* its own.  ServerTask models one such task byte by byte; here the unit   *)
(* is a piece of data as long as a checksum, and a unit is named by the    *)
(* host, the version of the file it was read from and its place in it.     *)
(***************************************************************************)
EXTENDS Integers, Sequences, FiniteSets

CONSTANTS
    Runs,       \* runs of the client
    Host,       \* the host each run is started on
    Tree,       \* the files in the folder of each run
    Length,     \* how long each file is at first
    Lengths,    \* lengths a file may be changed to
    MaxLength,  \* the longest file whose length fits into a u32
    LongPaths,  \* files whose path may be too long for the client's first buffer
    MaxTrouble  \* changes of files, stops of the server and failing operations
                \* of its file system, together

Hosts == {Host[r] : r \in Runs}
Paths == UNION {Tree[r] : r \in Runs}

ASSUME FoldersAssumption == Tree \in [Runs -> SUBSET Paths]
ASSUME LengthsAssumption ==
    Length \in [Paths -> Nat] /\ Lengths \subseteq Nat /\ MaxLength \in Nat
ASSUME LongPathsAssumption == LongPaths \subseteq Paths
ASSUME BoundsAssumption == MaxTrouble \in Nat

Missing == [version |-> 0, length |-> 0]
Checksum == [host |-> "none", version |-> 0, n |-> 0]
Hole == [host |-> "none", version |-> 0, n |-> 1]

VARIABLES
    source,     \* the files of each host: a version and a length
    edits, stops, faults,
    client,     \* where each run is
    todo,       \* files the walk has not reached
    read,       \* units of the current file the run has read
    conn,       \* the connections, in the order they were made
    up,         \* the server is listening
    disk        \* the files in the backup directory

clientVars == <<client, todo, read>>
vars == <<source, edits, stops, faults, clientVars, conn, up, disk>>

ClientPcs == {"walk", "connected", "measured", "sending", "finished", "panicked", "killed"}
TaskPcs == {"header", "data", "done"}
Results == {"none", "ok", "error", "stopped"}

Units == [host : Hosts \cup {"none"}, version : 0 .. MaxTrouble + 1, n : Nat]

TypeOK ==
    /\ source \in [Hosts -> [Paths -> [version : 0 .. MaxTrouble + 1, length : Nat]]]
    /\ {edits, stops, faults} \subseteq 0 .. MaxTrouble
    /\ client \in [Runs -> ClientPcs]
    /\ todo \in [Runs -> SUBSET Paths]
    /\ read \in [Runs -> Nat]
    /\ \A k \in DOMAIN conn :
        /\ conn[k].run \in Runs /\ conn[k].path \in Paths /\ conn[k].fits \in BOOLEAN
        /\ conn[k].declared \in 0 .. MaxLength
        /\ conn[k].pc \in TaskPcs /\ conn[k].result \in Results
        /\ conn[k].pos <= conn[k].declared
        /\ conn[k].rivals \subseteq DOMAIN conn \ {k}
    /\ up \in BOOLEAN
    /\ \A p \in DOMAIN disk : \A n \in DOMAIN disk[p] : disk[p][n] \in Units

-----------------------------------------------------------------------------
(* The client.  Its connection is the last one it made.                    *)

MadeBy(r) == {k \in DOMAIN conn : conn[k].run = r}
Current(r) == CHOOSE k \in MadeBy(r) : \A j \in MadeBy(r) : j <= k

File(r) == source[Host[r]][conn[Current(r)].path]

Goto(r, at) == client' = [client EXCEPT ![r] = at]

(* How long the path is depends on the folder the run was given.           *)
NewConnection(r, p, fits) ==
    [run |-> r, path |-> p, fits |-> fits, declared |-> 0, header |-> FALSE,
     stream |-> <<>>, open |-> TRUE, pc |-> "header", pos |-> 0, rivals |-> {}, result |-> "none"]

(* send_file: TcpStream::connect(..).unwrap().                             *)
Connect(r) ==
    /\ client[r] = "walk"
    /\ up
    /\ \E p \in todo[r], fits \in BOOLEAN :
        /\ p \in LongPaths \/ fits
        /\ todo' = [todo EXCEPT ![r] = @ \ {p}]
        /\ conn' = Append(conn, NewConnection(r, p, fits))
    /\ Goto(r, "connected")
    /\ UNCHANGED <<source, edits, stops, faults, read, up, disk>>

\* The process of the run is gone, and what it had left to do with it.
Over(r, how) ==
    /\ Goto(r, how)
    /\ todo' = [todo EXCEPT ![r] = {}]
    /\ read' = [read EXCEPT ![r] = 0]

ConnectFails(r) ==
    /\ client[r] = "walk" /\ todo[r] # {}
    /\ ~up
    /\ Over(r, "panicked")
    /\ UNCHANGED <<source, edits, stops, faults, conn, up, disk>>

WalkEnds(r) ==
    /\ client[r] = "walk" /\ todo[r] = {}
    /\ Goto(r, "finished")
    /\ UNCHANGED <<source, edits, stops, faults, todo, read, conn, up, disk>>

\* The stream is dropped: the server reads its end after what was sent.
Hangup(r) == [conn EXCEPT ![Current(r)].open = FALSE]

\* Mutant of TooLong: the length is cut to 32 bits.
NeverTooLong(r) == FALSE

TooLong(r) == File(r).length > MaxLength

(* File::open(..).unwrap(), then the length of the file.  A file that is   *)
(* too long for a u32 is skipped.                                          *)
Measure(r) ==
    /\ client[r] = "connected"
    /\ File(r) # Missing
    /\ \/ /\ TooLong(r)
          /\ Goto(r, "walk")
          /\ conn' = Hangup(r)
       \/ /\ ~TooLong(r)
          /\ Goto(r, "measured")
          /\ conn' = [conn EXCEPT ![Current(r)].declared = File(r).length]
    /\ UNCHANGED <<source, edits, stops, faults, todo, read, up, disk>>

OpenFails(r) ==
    /\ client[r] = "connected"
    /\ File(r) = Missing
    /\ Over(r, "panicked")
    /\ conn' = Hangup(r)
    /\ UNCHANGED <<source, edits, stops, faults, up, disk>>

Unit(r) == [host |-> Host[r], version |-> File(r).version, n |-> read[r] + 1]

(* The header has to fit into 1024 bytes: resize cuts a longer one, and    *)
(* the slice that starts where it ended panics before anything is sent.    *)
HeaderFits(r) == conn[Current(r)].fits

HeaderOverflows(r) ==
    /\ client[r] = "measured" /\ ~HeaderFits(r)
    /\ Over(r, "panicked")
    /\ conn' = Hangup(r)
    /\ UNCHANGED <<source, edits, stops, faults, up, disk>>

(* The header leaves with the first read of the file; what the writes      *)
(* return is ignored, so the run does not notice a server that is gone.    *)
SendFirst(r) ==
    /\ client[r] = "measured" /\ HeaderFits(r)
    /\ LET n == IF File(r).length > 0 THEN 1 ELSE 0
       IN  /\ conn' = [conn EXCEPT ![Current(r)].header = TRUE,
                                   ![Current(r)].stream = IF n = 1 THEN <<Unit(r)>> ELSE <<>>]
           /\ read' = [read EXCEPT ![r] = n]
    /\ Goto(r, "sending")
    /\ UNCHANGED <<source, edits, stops, faults, todo, up, disk>>

\* Mutant of EndOfFile: the last piece of the file is taken for its end.
StopEarly(r) == read[r] + 1 >= File(r).length

\* A read of the file returns nothing.
EndOfFile(r) == read[r] >= File(r).length

SendMore(r) ==
    /\ client[r] = "sending" /\ ~EndOfFile(r)
    /\ conn' = [conn EXCEPT ![Current(r)].stream = Append(@, Unit(r))]
    /\ read' = [read EXCEPT ![r] = @ + 1]
    /\ UNCHANGED <<source, edits, stops, faults, client, todo, up, disk>>

(* End of file: the checksum of what was read ends the stream.             *)
SendChecksum(r) ==
    /\ client[r] = "sending" /\ EndOfFile(r)
    /\ conn' = [Hangup(r) EXCEPT ![Current(r)].stream = Append(@, Checksum)]
    /\ Goto(r, "walk")
    /\ read' = [read EXCEPT ![r] = 0]
    /\ UNCHANGED <<source, edits, stops, faults, todo, up, disk>>

(* The run is interrupted anywhere.                                        *)
Kill(r) ==
    /\ client[r] \in {"connected", "measured", "sending"}
    /\ Over(r, "killed")
    /\ conn' = Hangup(r)
    /\ UNCHANGED <<source, edits, stops, faults, up, disk>>

\* A run has the file open: a file that is removed then can still be read.
InUse(h, p) ==
    \E r \in Runs : /\ Host[r] = h /\ client[r] \in {"measured", "sending"}
                   /\ conn[Current(r)].path = p

TroubleLeft == edits + stops + faults < MaxTrouble

(* Somebody changes a file of the host in place or removes it.             *)
Edit(h, p) ==
    /\ TroubleLeft
    /\ \E r \in Runs : Host[r] = h /\ p \in Tree[r]
    /\ edits' = edits + 1
    /\ \/ ~InUse(h, p) /\ source' = [source EXCEPT ![h][p] = Missing]
       \/ \E n \in Lengths :
            source' = [source EXCEPT ![h][p] = [version |-> edits + 2, length |-> n]]
    /\ UNCHANGED <<stops, faults, clientVars, conn, up, disk>>

-----------------------------------------------------------------------------
(* The server.  accept() and the task's first reads change nothing that    *)
(* another task or a run can see: a connection waits in "header", in the   *)
(* backlog or in its task, until the whole header has arrived.             *)

At(k, at) == k \in DOMAIN conn /\ conn[k].pc = at

End(k, why) == [conn EXCEPT ![k].pc = "done", ![k].result = why]

(* The connection ends before the header is complete.                      *)
HeaderEnds(k) ==
    /\ At(k, "header")
    /\ ~conn[k].header /\ ~conn[k].open
    /\ conn' = End(k, "error")
    /\ UNCHANGED <<source, edits, stops, faults, clientVars, up, disk>>

(* File::create: an existing file is emptied.  rivals records who else     *)
(* works on the file at the same time or later; the code has no such thing.*)
Mates(k) == {j \in DOMAIN conn \ {k} : conn[j].path = conn[k].path}

Opened(k) ==
    [j \in DOMAIN conn |->
        IF j = k THEN [conn[k] EXCEPT !.pc = "data",
                                      !.rivals = {m \in Mates(k) : conn[m].pc = "data"}]
        ELSE IF j \in Mates(k) /\ conn[j].pc \in {"data", "done"}
             THEN [conn[j] EXCEPT !.rivals = @ \cup {k}]
             ELSE conn[j]]

\* Mutant of Truncated: the old contents stay where they are not overwritten.
KeepContents(p) == IF p \in DOMAIN disk THEN disk[p] ELSE <<>>

Truncated(p) == <<>>

\* disk with f as the contents of p.
Put(p, f) == [q \in DOMAIN disk \cup {p} |-> IF q = p THEN f ELSE disk[q]]

CreateFile(k) ==
    /\ At(k, "header") /\ conn[k].header
    /\ conn' = Opened(k)
    /\ disk' = Put(conn[k].path, Truncated(conn[k].path))
    /\ UNCHANGED <<source, edits, stops, faults, clientVars, up>>

(* f with the unit u written at position n: a gap is filled with zeros.    *)
Overwritten(f, n, u) ==
    [i \in 1 .. (IF Len(f) < n THEN n ELSE Len(f)) |->
        IF i = n THEN u ELSE IF i <= Len(f) THEN f[i] ELSE Hole]

\* Every handle has a position of its own.
WritePos(k) == conn[k].pos + 1

(* save_file's data: declared units of the stream are written, whether     *)
(* they are data or not.                                                   *)
WriteData(k) ==
    /\ At(k, "data")
    /\ conn[k].pos < conn[k].declared /\ conn[k].pos < Len(conn[k].stream)
    /\ conn' = [conn EXCEPT ![k].pos = @ + 1]
    /\ LET p == conn[k].path IN
         disk' = Put(p, Overwritten(disk[p], WritePos(k), conn[k].stream[conn[k].pos + 1]))
    /\ UNCHANGED <<source, edits, stops, faults, clientVars, up>>

(* The stream ends before the data or the checksum.                        *)
DataEnds(k) ==
    /\ At(k, "data")
    /\ conn[k].pos = Len(conn[k].stream) /\ ~conn[k].open
    /\ conn' = End(k, "error")
    /\ UNCHANGED <<source, edits, stops, faults, clientVars, up, disk>>

\* Mutant of ChecksumMatches: whatever follows the data is accepted.
ChecksumIgnored(k) == TRUE

ChecksumMatches(k) == conn[k].stream[conn[k].pos + 1] = Checksum

(* The checksum after the data decides.  Where pieces and buffer boundaries *)
(* fall badly (ServerTask: server.rs:408 and 546) the task fails here, with *)
(* all the data written.                                                    *)
Check(k) ==
    /\ At(k, "data")
    /\ conn[k].pos = conn[k].declared /\ conn[k].pos < Len(conn[k].stream)
    /\ \/ ChecksumMatches(k) /\ conn' = End(k, "ok")
       \/ conn' = End(k, "error")
    /\ UNCHANGED <<source, edits, stops, faults, clientVars, up, disk>>

(* An operation of the file system fails: an error or a panic ends the      *)
(* task.  Short writes are in ServerTask only.                              *)
Fault(k) ==
    /\ TroubleLeft
    /\ (At(k, "header") /\ conn[k].header) \/ (At(k, "data") /\ conn[k].pos < conn[k].declared
                                        /\ conn[k].pos < Len(conn[k].stream))
    /\ faults' = faults + 1
    /\ conn' = End(k, "error")
    /\ UNCHANGED <<source, edits, stops, clientVars, up, disk>>

(* The server process ends, with its backlog and its tasks, and is started *)
(* again.                                                                  *)
ServerStops ==
    /\ up /\ TroubleLeft
    /\ up' = FALSE
    /\ stops' = stops + 1
    /\ conn' = [k \in DOMAIN conn |->
                  IF conn[k].pc = "done" THEN conn[k]
                  ELSE [conn[k] EXCEPT !.pc = "done", !.result = "stopped"]]
    /\ UNCHANGED <<source, edits, faults, clientVars, disk>>

ServerStarts ==
    /\ ~up
    /\ up' = TRUE
    /\ UNCHANGED <<source, edits, stops, faults, clientVars, conn, disk>>

-----------------------------------------------------------------------------
RunStep(r) ==
    \/ Connect(r) \/ ConnectFails(r) \/ WalkEnds(r) \/ Measure(r) \/ OpenFails(r)
    \/ HeaderOverflows(r) \/ SendFirst(r) \/ SendMore(r) \/ SendChecksum(r)

Ks == 1 .. Cardinality(Runs) * Cardinality(Paths)

TaskStep(k) ==
    HeaderEnds(k) \/ CreateFile(k) \/ WriteData(k) \/ DataEnds(k) \/ Check(k)

Init ==
    /\ source = [h \in Hosts |-> [p \in Paths |-> [version |-> 1, length |-> Length[p]]]]
    /\ edits = 0 /\ stops = 0 /\ faults = 0
    /\ client = [r \in Runs |-> "walk"]
    /\ todo = Tree
    /\ read = [r \in Runs |-> 0]
    /\ conn = <<>>
    /\ up = TRUE
    /\ disk = <<>>

(* Nothing is left to do: every run is over and every task has ended.      *)
AllOver ==
    /\ up
    /\ \A r \in Runs : client[r] \in {"finished", "panicked", "killed"}
    /\ \A k \in DOMAIN conn : conn[k].pc = "done"
    /\ UNCHANGED vars

Next ==
    \/ \E r \in Runs : RunStep(r) \/ Kill(r)
    \/ \E h \in Hosts, p \in Paths : Edit(h, p)
    \/ \E k \in Ks : TaskStep(k) \/ Fault(k)
    \/ ServerStops \/ ServerStarts
    \/ AllOver

Spec == Init /\ [][Next]_vars

-----------------------------------------------------------------------------
(* Properties.                                                             *)

\* The file data the run has sent on connection k: a checksum ends it.
Complete(k) ==
    conn[k].stream # <<>> /\ conn[k].stream[Len(conn[k].stream)] = Checksum
Data(k) ==
    SubSeq(conn[k].stream, 1, Len(conn[k].stream) - (IF Complete(k) THEN 1 ELSE 0))

(* The file p of run r's host, as long as nobody changes it.               *)
Whole(r, p) == [i \in 1 .. Length[p] |-> [host |-> Host[r], version |-> 1, n |-> i]]

Ok(k) == conn[k].result = "ok"

(* An upload answered with 1 is on disk exactly as it was sent, unless     *)
(* another connection worked on the same file at the same time or later.   *)
StoredIfAlone ==
    \A k \in DOMAIN conn :
        Ok(k) /\ conn[k].rivals = {} => disk[conn[k].path] = Data(k)

(* What a run sends of a file is its beginning, in order, and an upload    *)
(* answered with 1 has as many units as the file had when it was measured: *)
(* all of it, if nobody changed it (client.rs:61-115).                     *)
OkIsWholeFile ==
    \A k \in DOMAIN conn : Ok(k) =>
        /\ Len(Data(k)) = conn[k].declared
        /\ \A n \in 1 .. Len(Data(k)) : Data(k)[n].n = n
        /\ edits = 0 => Data(k) = Whole(conn[k].run, conn[k].path)

(* A run does not learn what became of its uploads.  Still, when nothing   *)
(* changed or failed around it, every file of a finished run is on disk,   *)
(* whole, once the tasks of its connections have ended, unless another     *)
(* connection worked on it or it is too long (client.rs:30-38, 61-72, 117).*)
FinishedIsStored ==
    \A r \in Runs :
        /\ client[r] = "finished" /\ edits + stops + faults = 0
        /\ \A k \in MadeBy(r) : conn[k].pc = "done"
        => \A p \in Tree[r] :
             \/ Length[p] > MaxLength
             \/ \E k \in MadeBy(r) :
                  /\ conn[k].path = p
                  /\ conn[k].rivals = {} => disk[p] = Whole(r, p)

(* When no task is at work on a file, and some upload of it was answered   *)
(* with 1, the file on disk is what some such upload sent (server.rs:524,  *)
(* "1 is OK"; README.md:19, "You can run client as much time").            *)
OkSurvives ==
    \A p \in DOMAIN disk :
        LET on == {k \in DOMAIN conn : conn[k].path = p} IN
        (\A k \in on : conn[k].pc = "done") /\ (\E k \in on : Ok(k))
            => \E k \in on : Ok(k) /\ disk[p] = Data(k)
=============================================================================

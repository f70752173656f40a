----------------------------- MODULE ServerTask -----------------------------
(***************************************************************************)
(* The task the backup server spawns for one accepted connection           *)
(* (src/src/server/server.rs: Server::run, create_parent_folder,           *)
(* save_file, read_checksum).  The task reads a request from its socket    *)
(* through one fixed buffer of BufLen bytes, with start_index the first    *)
(* byte not yet processed and end_index the first byte not yet received,   *)
(* creates the parent folder, streams the file data to disk and compares   *)
(* checksums.                                                              *)
(*                                                                         *)
(* A byte is represented by its position in the stream the client sends,   *)
(* so that a lost, repeated or misplaced byte is visible.  A checksum over *)
(* some bytes matches the received one iff the received bytes are the      *)
(* checksum field of the request and the client computed that field over   *)
(* the same bytes: CRC collisions are left out.                            *)
(***************************************************************************)
EXTENDS Integers, Sequences

CONSTANTS
    BufLen,     \* length of the buffer: vec![0; 1024]
    Requests,   \* the requests clients may send
    Faults      \* what the file system may do wrong

OpBytes       == 1
PathLenBytes  == 2
ChecksumBytes == 4
DataLenBytes  == 4

(***************************************************************************)
(* |op|path length|path|checksum|data length|data|checksum|.  pathCk and   *)
(* dataCk: the client's checksum is right.  declared is the data length    *)
(* field; actual is how many data bytes follow, which differs when the     *)
(* client's file changes size after its metadata was read.                 *)
(***************************************************************************)
Request ==
    [op : {"folder", "file", "unknown"}, pathLen : Nat, utf8 : BOOLEAN,
     pathCk : BOOLEAN, declared : Nat, actual : Nat, dataCk : BOOLEAN]

FaultKinds == {"mkdir", "create", "write", "short"}

ASSUME BufLenAssumption == BufLen \in Nat \ {0}
ASSUME RequestsAssumption == Requests \subseteq Request
ASSUME FaultsAssumption == Faults \subseteq FaultKinds

PathPos         == OpBytes + PathLenBytes
PathCkPos(r)    == PathPos + r.pathLen
DataLenPos(r)   == PathCkPos(r) + ChecksumBytes
DataPos(r)      == DataLenPos(r) + DataLenBytes
DataCkPos(r)    == DataPos(r) + r.actual
StreamLen(r)    == IF r.op = "file" THEN DataCkPos(r) + ChecksumBytes
                                    ELSE DataLenPos(r)

VARIABLES
    req,                \* the request on this connection
    sent,               \* bytes of it that have reached the server's socket
    peer,               \* the client's end: "open", "closed" (FIN), "reset"
    pc,                 \* where the task is
    buf, start_index, end_index,
    pos,                \* bytes the task has read from the socket
    file_path_len,      \* the u16 path length
    path,               \* relative_file_path
    file_data_length,   \* the u32 counter of data bytes still to receive
    file,               \* what was written through the file handle
    hashed,             \* what was fed to expected_checksum_hasher
    result,             \* how the request ended
    reply               \* what was written back on the socket

connVars == <<req, sent, peer>>
bufVars  == <<buf, start_index, end_index, pos>>
dataVars == <<file_path_len, path, file_data_length, file, hashed>>
taskVars == <<pc, bufVars, dataVars, result, reply>>
vars     == <<connVars, taskVars>>

HeaderPcs == {"first_read", "path_len", "path", "path_ck", "data_len"}
Pcs == HeaderPcs \cup
       {"create_parent", "create_file", "first_write", "data", "data_ck", "done"}
Results == {"none", "ok", "no_data", "bad_path", "bad_checksum", "io_error",
            "unknown_op", "read_panic", "write_panic", "assert_panic"}

\* The stream bytes at positions a .. a+k-1, and the buffer bytes s .. e-1.
Bytes(a, k) == [i \in 1 .. k |-> a + i - 1]
Slice(b, s, e) == [i \in 1 .. (e - s) |-> b[s + i - 1]]

TypeOK ==
    /\ req \in Requests
    /\ sent \in 0 .. StreamLen(req)
    /\ peer \in {"open", "closed", "reset"}
    /\ pc \in Pcs
    /\ buf \in [0 .. BufLen - 1 -> Int]
    /\ start_index \in Nat
    /\ end_index \in Nat
    /\ pos \in Nat
    /\ file_path_len \in Nat
    /\ path \in Seq(Int)
    /\ file_data_length \in Nat
    /\ file \in Seq(Int)
    /\ hashed \in Seq(Int)
    /\ result \in Results
    /\ reply \in {"none", "ok", "error"}

-----------------------------------------------------------------------------
(* Reading from the socket.                                                *)

ZeroByte == -1          \* the buffer starts zeroed; no stream byte is -1

(* read_data(buf, at): n bytes of the stream land in buf[at ..].           *)
ReadData(at, n) ==
    /\ n \in 1 .. (BufLen - at)
    /\ pos + n <= sent
    /\ buf' = [i \in 0 .. BufLen - 1 |->
                 IF i >= at /\ i < at + n THEN pos + (i - at) ELSE buf[i]]
    /\ pos' = pos + n

\* Mutant of ReadsNothing: the n <= 0 test of the read loops is missing.
EofUnnoticed(at) == at = BufLen

(* read_data(buf, at) returns 0: end of stream, or the slice is empty.     *)
ReadsNothing(at) ==
    \/ at = BufLen
    \/ pos = sent /\ peer = "closed"

(* read_data returns Err; every caller has .expect(..) on it.              *)
ReadFails == peer = "reset"

(* The number in the n-byte field at buf[s ..]: v if those bytes are the   *)
(* stream's bytes at position at, any number (up to BufLen) otherwise.     *)
Field(s, n, at, v) ==
    IF Slice(buf, s, s + n) = Bytes(at, n) THEN {v} ELSE 0 .. BufLen

-----------------------------------------------------------------------------
(* How a request ends: the Err arms of Server::run (the -1 of              *)
(* create_parent_folder is a future that is never awaited, so it is not    *)
(* sent), the Ok arms, and a panic, which drops the socket.                *)

ErrorReply == IF req.op = "file" THEN "error" ELSE "none"

Finish(why, answer) ==
    /\ pc' = "done"
    /\ result' = why
    /\ reply' = answer

Fail(why)  == Finish(why, ErrorReply)
Succeed    == Finish("ok", "ok")
Panic(why) == Finish(why, "none")

Continue(to) == pc' = to /\ UNCHANGED <<result, reply>>

-----------------------------------------------------------------------------
FirstRead ==
    /\ pc = "first_read"
    /\ \/ /\ \E n \in 1 .. BufLen : ReadData(0, n) /\ end_index' = n
          /\ start_index' = OpBytes
          /\ IF req.op = "unknown" THEN Finish("unknown_op", "none")
                                   ELSE Continue("path_len")
       \/ /\ ReadsNothing(0)
          /\ Finish("no_data", "error")
          /\ UNCHANGED bufVars
       \/ /\ ReadFails
          /\ Panic("read_panic")
          /\ UNCHANGED bufVars
    /\ UNCHANGED <<connVars, dataVars>>

(* One turn of a "read more bytes until need are buffered" loop.           *)
Fill(at, need) ==
    /\ pc = at
    /\ end_index - start_index < need
    /\ \/ /\ \E n \in 1 .. BufLen :
                ReadData(end_index, n) /\ end_index' = end_index + n
          /\ UNCHANGED <<pc, result, reply, start_index>>
       \/ /\ ReadsNothing(end_index)
          /\ Fail("no_data")
          /\ UNCHANGED bufVars
       \/ /\ ReadFails
          /\ Panic("read_panic")
          /\ UNCHANGED bufVars
    /\ UNCHANGED <<connVars, dataVars>>

\* Mutant of Consume: start_index is not advanced.
ConsumeNothing(at, n) ==
    /\ pc = at
    /\ end_index - start_index >= n
    /\ UNCHANGED <<connVars, bufVars>>

(* Enough bytes are buffered: process the next n of them.                  *)
Consume(at, n) ==
    /\ pc = at
    /\ end_index - start_index >= n
    /\ start_index' = start_index + n
    /\ UNCHANGED <<connVars, buf, end_index, pos>>

FillPathLen  == Fill("path_len", PathLenBytes)
FillPath     == Fill("path", file_path_len)
FillPathCk   == Fill("path_ck", ChecksumBytes)
FillDataLen  == Fill("data_len", DataLenBytes)
FillDataCk   == Fill("data_ck", ChecksumBytes)

ReadPathLen ==
    /\ Consume("path_len", PathLenBytes)
    /\ file_path_len' \in Field(start_index, PathLenBytes, OpBytes, req.pathLen)
    /\ Continue("path")
    /\ UNCHANGED <<path, file_data_length, file, hashed>>

ReadPath ==
    /\ IF req.utf8
         THEN /\ Consume("path", file_path_len)
              /\ path' = Slice(buf, start_index, start_index + file_path_len)
              /\ Continue("path_ck")
         ELSE /\ pc = "path"
              /\ end_index - start_index >= file_path_len
              /\ Fail("bad_path")
              /\ UNCHANGED <<connVars, bufVars, path>>
    /\ UNCHANGED <<file_path_len, file_data_length, file, hashed>>

\* Mutant of ChecksumMatches: the received checksum is not compared.
ChecksumIgnored(ckPos, h, body, right) == TRUE

(* read_checksum's value equals the hasher's over the bytes h.             *)
ChecksumMatches(ckPos, h, body, right) ==
    /\ Slice(buf, start_index, start_index + ChecksumBytes)
         = Bytes(ckPos, ChecksumBytes)
    /\ h = body
    /\ right

CheckPath ==
    /\ Consume("path_ck", ChecksumBytes)
    /\ IF ChecksumMatches(PathCkPos(req), path, Bytes(PathPos, req.pathLen), req.pathCk)
         THEN Continue("create_parent")
         ELSE Fail("bad_checksum")
    /\ UNCHANGED dataVars

CreateParent ==
    /\ pc = "create_parent"
    /\ \/ IF req.op = "folder" THEN Succeed ELSE Continue("create_file")
       \/ "mkdir" \in Faults /\ Fail("io_error")
    /\ UNCHANGED <<connVars, bufVars, dataVars>>

\* An empty path names the backup directory itself, which is no file.
CreateFile ==
    /\ pc = "create_file"
    /\ \/ path # <<>> /\ Continue("data_len") /\ file' = <<>>
       \/ /\ "create" \in Faults \/ path = <<>>
          /\ Fail("io_error")
          /\ UNCHANGED file
    /\ UNCHANGED <<connVars, bufVars, file_path_len, path, file_data_length, hashed>>

ReadDataLen ==
    /\ Consume("data_len", DataLenBytes)
    /\ file_data_length' \in
         Field(start_index, DataLenBytes, DataLenPos(req), req.declared)
    /\ Continue("first_write")
    /\ UNCHANGED <<file_path_len, path, file, hashed>>

-----------------------------------------------------------------------------
(* File data.                                                              *)

\* Mutant of DataEndIndex: no min with what the buffer holds of the file.
UntrimmedEndIndex == end_index

\* file_data_end_index: the data bytes already in the buffer end here.
DataEndIndex ==
    IF start_index + file_data_length < end_index
      THEN start_index + file_data_length ELSE end_index

\* What one write(2) of k bytes may report.
Written(k) == IF "short" \in Faults /\ k > 0 THEN 1 .. k ELSE {k}

WriteFirst ==
    /\ pc = "first_write"
    /\ \/ /\ \E w \in Written(DataEndIndex - start_index) :
                /\ file' = file \o Slice(buf, start_index, start_index + w)
                /\ file_data_length' = file_data_length - w
          /\ hashed' = hashed \o Slice(buf, start_index, DataEndIndex)
          /\ start_index' = DataEndIndex
          /\ Continue("data")
       \/ /\ "write" \in Faults
          /\ Panic("write_panic")
          /\ UNCHANGED <<file, hashed, file_data_length, start_index>>
    /\ UNCHANGED <<connVars, buf, end_index, pos, file_path_len, path>>

\* Mutants of Wrapped and ReadStart: a full buffer is never reused; only
\* end_index is reset.
NeverWrapped   == FALSE
StaleReadStart == start_index

\* The indices a data read starts from: a fully processed buffer is reused.
Wrapped     == start_index = BufLen
ReadStart   == IF Wrapped THEN 0 ELSE start_index
ReadEnd     == IF Wrapped THEN 0 ELSE end_index

\* Mutant of WriteAll: the buffer is written from its beginning.
WriteFromZero(b, s, e) ==
    /\ file' = file \o Slice(b, 0, e)
    /\ hashed' = hashed \o Slice(b, 0, e)

\* file.write_all(buf[s .. e]) and the hasher's update; a failing write_all
\* leaves some prefix of the bytes in the file.
WriteAll(b, s, e) ==
    /\ file' = file \o Slice(b, s, e)
    /\ hashed' = hashed \o Slice(b, s, e)

WriteAllFails(b, s, e) ==
    /\ "write" \in Faults
    /\ \E m \in s .. e : file' = file \o Slice(b, s, m)
    /\ UNCHANGED hashed

\* The read went past the data: only the data bytes are written.  The code
\* then subtracts the advanced start_index from file_data_length and
\* asserts that 0 is left; the subtraction or the assertion panics unless
\* they are equal, in debug and in release builds alike.
LastChunk(n) ==
    LET dataEnd == ReadStart + file_data_length IN
    /\ ReadEnd + n > dataEnd
    /\ \/ /\ WriteAll(buf', ReadStart, dataEnd)
          /\ start_index' = dataEnd
          /\ IF dataEnd = file_data_length
               THEN file_data_length' = 0 /\ Continue("data")
               ELSE Panic("assert_panic") /\ UNCHANGED file_data_length
       \/ /\ WriteAllFails(buf', ReadStart, dataEnd)
          /\ Fail("io_error")
          /\ start_index' = ReadStart
          /\ UNCHANGED file_data_length

MiddleChunk(n) ==
    /\ ReadEnd + n <= ReadStart + file_data_length
    /\ \/ /\ WriteAll(buf', ReadStart, ReadEnd + n)
          /\ start_index' = ReadStart + n
          /\ file_data_length' = file_data_length - n
          /\ Continue("data")
       \/ /\ WriteAllFails(buf', ReadStart, ReadEnd + n)
          /\ Panic("write_panic")
          /\ start_index' = ReadStart
          /\ UNCHANGED file_data_length

DataUnfinished ==
    /\ pc = "data"
    /\ end_index - start_index < file_data_length

ReceiveData ==
    /\ DataUnfinished
    /\ \E n \in 1 .. BufLen :
         /\ ReadData(ReadEnd, n)
         /\ end_index' = ReadEnd + n
         /\ LastChunk(n) \/ MiddleChunk(n)
    /\ UNCHANGED <<connVars, file_path_len, path>>

ReceiveDataStops ==
    /\ DataUnfinished
    /\ \/ ReadsNothing(ReadEnd) /\ Fail("no_data")
       \/ ReadFails /\ Panic("read_panic")
    /\ start_index' = ReadStart
    /\ end_index' = ReadEnd
    /\ UNCHANGED <<connVars, buf, pos, dataVars>>

DataComplete ==
    /\ pc = "data"
    /\ end_index - start_index >= file_data_length
    /\ Continue("data_ck")
    /\ UNCHANGED <<connVars, bufVars, dataVars>>

CheckData ==
    /\ Consume("data_ck", ChecksumBytes)
    /\ IF ChecksumMatches(DataCkPos(req), hashed, Bytes(DataPos(req), req.actual), req.dataCk)
         THEN Succeed
         ELSE Fail("bad_checksum")
    /\ UNCHANGED dataVars

-----------------------------------------------------------------------------
(* The client and the network: bytes arrive in order and in pieces of any  *)
(* size; the client may stop anywhere, by closing or by a reset.           *)

Arrive ==
    /\ peer = "open"
    /\ \E n \in sent + 1 .. StreamLen(req) : sent' = n
    /\ UNCHANGED <<req, peer, taskVars>>

PeerEnds ==
    /\ peer = "open"
    /\ peer' \in {"closed", "reset"}
    /\ UNCHANGED <<req, sent, taskVars>>

TaskInit ==
    /\ pc = "first_read"
    /\ buf = [i \in 0 .. BufLen - 1 |-> ZeroByte]
    /\ start_index = 0
    /\ end_index = 0
    /\ pos = 0
    /\ file_path_len = 0
    /\ path = <<>>
    /\ file_data_length = 0
    /\ file = <<>>
    /\ hashed = <<>>
    /\ result = "none"
    /\ reply = "none"

Init ==
    /\ req \in Requests
    /\ sent = 0
    /\ peer = "open"
    /\ TaskInit

Header ==
    \/ FirstRead
    \/ FillPathLen \/ ReadPathLen
    \/ FillPath \/ ReadPath
    \/ FillPathCk \/ CheckPath

Data ==
    \/ FillDataLen \/ ReadDataLen
    \/ WriteFirst
    \/ ReceiveData \/ ReceiveDataStops \/ DataComplete
    \/ FillDataCk \/ CheckData

TaskStep == Header \/ CreateParent \/ CreateFile \/ Data

Next == TaskStep \/ Arrive \/ PeerEnds

(* The runtime polls a task whose read is ready or that is not waiting.    *)
(* Nothing makes the client send or close.                                 *)
Spec == Init /\ [][Next]_vars /\ WF_vars(TaskStep)
-----------------------------------------------------------------------------
(* Properties.                                                             *)

(* The buffer discipline of create_parent_folder, save_file and            *)
(* read_checksum: the indices never cross or leave the buffer, whatever    *)
(* pieces the reads return and whether or not the buffer was reused, and   *)
(* buf[start_index .. end_index] is exactly the last bytes read from the   *)
(* socket, in order: nothing is skipped, repeated or overwritten before it *)
(* is processed.                                                           *)
BufferIsWindow ==
    /\ start_index <= end_index
    /\ end_index <= BufLen
    /\ pos <= sent
    /\ \A i \in start_index .. end_index - 1 : buf[i] = pos - end_index + i

(* Where in the stream the task is: the bytes it has processed end exactly *)
(* where the field begins that its next step reads, however often the      *)
(* buffer was reused; file and expected_checksum_hasher have been given    *)
(* the same bytes, those bytes and file_data_length add up to the declared *)
(* length, and while data is missing no byte of it waits in the buffer.    *)
(* (When no write is short.)                                               *)
NextField ==
    CASE pc = "first_read" -> 0
      [] pc = "path_len"   -> OpBytes
      [] pc = "path"       -> PathPos
      [] pc = "path_ck"    -> PathCkPos(req)
      [] pc \in {"create_parent", "create_file", "data_len"} -> DataLenPos(req)
      [] OTHER             -> DataPos(req) + Len(file)

Progress ==
    /\ pc # "done" =>
         /\ pos - (end_index - start_index) = NextField
         /\ hashed = file
    /\ pc = "first_read" => start_index = end_index
    /\ pc = "path" => file_path_len = req.pathLen
    /\ pc \notin {"first_write", "data", "data_ck", "done"} => file = <<>>
    /\ pc = "first_write" => file = <<>> /\ file_data_length = req.declared
    /\ pc \in {"data", "data_ck"} =>
         /\ Len(file) + file_data_length = req.declared
         /\ file_data_length > 0 => start_index = end_index
    /\ pc = "data_ck" => file_data_length = 0

(* save_file's data loop: the file is always a gapless prefix of what the  *)
(* client sent after the data length, also after a failed or panicking     *)
(* request (unless the file system shortens a write).                      *)
FileIsPrefix == file = Bytes(DataPos(req), Len(file))

(* Server::run answers 1 to a SaveFile request only if every byte of the   *)
(* client's file, and no other byte, was written: the length field, the    *)
(* data and the checksum have to agree for that.                           *)
OkMeansSaved ==
    reply = "ok" /\ req.op = "file" =>
        /\ req.declared = req.actual
        /\ file = Bytes(DataPos(req), req.actual)

(* A header that fits in the buffer: the client builds its header in a     *)
(* first buffer of the same size and panics when it does not fit           *)
(* (client.rs:80-84).                                                      *)
HeaderLen(r) == IF r.op = "file" THEN DataPos(r) ELSE DataLenPos(r)
WellFormed(r) ==
    /\ r.utf8 /\ r.pathCk /\ r.dataCk
    /\ r.pathLen > 0
    /\ r.declared = r.actual
    /\ HeaderLen(r) <= BufLen

(* When a well-formed upload has been received completely and the task is  *)
(* over, every byte of the file is on disk however the reads were split,   *)
(* even where save_file reports an error or panics while it handles the    *)
(* checksum, unless the disk or the connection failed.                     *)
CompleteUploadIsStored ==
    /\ pc = "done" /\ req.op = "file" /\ WellFormed(req)
    /\ peer = "closed" /\ sent = StreamLen(req)
    /\ result \notin {"io_error", "write_panic", "read_panic"}
    => file = Bytes(DataPos(req), req.actual)

(* "No data to read from stream": for a header that fits in the buffer the *)
(* read loops report it only at the real end of the stream, except the     *)
(* loop for the data checksum, and there only when the buffer is full and  *)
(* all the data the client announced is stored.                            *)
NoDataIsEofOrFullBuffer ==
    [][ (result' = "no_data" /\ result # "no_data" /\ HeaderLen(req) <= BufLen) =>
          \/ pos = sent /\ peer = "closed"
          \/ /\ pc = "data_ck"
             /\ end_index = BufLen
             /\ Len(file) = req.declared ]_vars

(* Once the client is gone, by closing or by a reset, the task ends: no    *)
(* read loop of the server keeps waiting or spinning.                      *)
TaskEnds == (peer # "open") ~> (pc = "done")

(* server.rs:551 "We have no data from stream, return error" (the same     *)
(* comment stands at every read loop).                                     *)
NoDataMeansEof ==
    [][ (result' = "no_data" /\ result # "no_data" /\ HeaderLen(req) <= BufLen) =>
          pos = sent /\ peer = "closed" ]_vars

(* server.rs:409-410 "File data length should be zero here",               *)
(* assert!(file_data_length == 0).                                         *)
FileDataLengthIsZero == result # "assert_panic"

(* What the task implements: an upload that only ever appends the next     *)
(* bytes of the client's data and succeeds only with all of them.          *)
Abstract == INSTANCE Upload WITH
    wire <- Bytes(DataPos(req), req.actual + ChecksumBytes),
    want <- IF req.op = "file" THEN Bytes(DataPos(req), req.actual) ELSE <<>>,
    got <- file,
    status <- CASE result = "none" -> "running"
                [] result = "ok"   -> "stored"
                [] OTHER           -> "failed"

ImplementsUpload == Abstract!SafeSpec
=============================================================================

------------------------ MODULE ServerTaskEndProofs ------------------------
(* How a request ends: why the server says that no data is left, and that  *)
(* an upload it has received is stored, for every buffer length, set of    *)
(* requests and set of faults without short writes.                        *)
EXTENDS ServerTaskRefinement

(* Before the data is read nothing has moved in the buffer: it holds the   *)
(* beginning of the stream.                                                *)
HeaderInFirstBuffer == pc \notin {"data", "data_ck", "done"} => end_index = pos

PathIsReceived == pc = "path_ck" => path = Bytes(PathPos, req.pathLen)

(* An upload the client did nothing wrong with ends with all its data in   *)
(* the file, or by a fault, or because the client was gone too soon.       *)
EndIsExplained ==
    pc = "done" /\ req.op = "file" /\ WellFormed(req) =>
        \/ result \in {"io_error", "write_panic", "read_panic"}
        \/ Len(file) = req.declared
        \/ peer = "closed" /\ sent < StreamLen(req)

EndInv == UploadInv /\ HeaderInFirstBuffer /\ PathIsReceived /\ EndIsExplained

LEMMA EndInvInit == Init => EndInv
BY UploadInvInit DEF Init, TaskInit, EndInv, HeaderInFirstBuffer, PathIsReceived, EndIsExplained

\* What the proofs below use of the invariant.
LEMMA EndInvFacts ==
    ASSUME EndInv
    PROVE  /\ BufferInv /\ SaveInv /\ Progress /\ UploadInv
           /\ BufLen \in Nat \ {0}
           /\ {pos, sent, start_index, end_index, file_path_len, file_data_length} \subseteq Nat
           /\ start_index <= end_index /\ end_index <= BufLen /\ pos <= sent
           /\ req \in Requests /\ Len(file) \in Nat
           /\ {req.pathLen, req.declared, req.actual} \subseteq Nat
           /\ result = "none" <=> pc # "done"
<1>1. BufferInv /\ SaveInv /\ Progress /\ UploadInv /\ TypeOK /\ BufferIsWindow
  BY DEF EndInv, UploadInv, SaveInv, BufferInv
<1>2. req \in Requests /\ file \in Seq(Int)
  BY <1>1 DEF TypeOK
<1>3. StreamLen(req) \in Nat /\ {req.pathLen, req.declared, req.actual} \subseteq Nat
  BY <1>2, RequestPositions
<1>4. Len(file) \in Nat
  BY <1>2, LenProperties
<1>5. sent \in Nat
  BY <1>1, <1>3 DEF TypeOK
<1> QED
  BY <1>1, <1>2, <1>3, <1>4, <1>5, BufLenAssumption
     DEF TypeOK, BufferIsWindow, UploadInv, ResultIsFinal

-----------------------------------------------------------------------------
(* "No data".                                                              *)

(* A read loop of a header that fits in the buffer is never out of room.   *)
LEMMA HeaderHasRoom ==
    ASSUME EndInv, HeaderLen(req) <= BufLen, NEW need \in Nat,
           pc \in {"first_read", "path_len", "path", "path_ck", "data_len"},
           NextField + need <= HeaderLen(req), end_index - start_index < need
    PROVE  end_index < BufLen
<1>1. /\ {pos, start_index, end_index, BufLen} \subseteq Nat
      /\ pos - (end_index - start_index) = NextField /\ end_index = pos
  BY EndInvFacts DEF Progress, EndInv, HeaderInFirstBuffer
<1>2. HeaderLen(req) \in Nat
  BY EndInvFacts, RequestPositions DEF HeaderLen
<1> QED
  BY <1>1, <1>2

(* How far into the header each read loop reads.                           *)
LEMMA FieldInHeader ==
    ASSUME EndInv, NEW need \in Nat,
           \/ pc = "path_len" /\ need = PathLenBytes
           \/ pc = "path" /\ need = file_path_len
           \/ pc = "path_ck" /\ need = ChecksumBytes
           \/ pc = "data_len" /\ need = DataLenBytes
    PROVE  NextField + need <= HeaderLen(req) /\ HeaderLen(req) <= StreamLen(req)
<1>1. /\ {req.pathLen, req.actual} \subseteq Nat
      /\ pc = "path" => file_path_len = req.pathLen
      /\ pc = "data_len" => req.op = "file"
  BY EndInvFacts DEF Progress, UploadInv, OnlyUploadsHaveFiles
<1> USE DEF NextField, HeaderLen, StreamLen, DataCkPos, DataPos, DataLenPos, PathCkPos, PathPos,
            OpBytes, PathLenBytes, ChecksumBytes, DataLenBytes
<1>2. HeaderLen(req) <= StreamLen(req)
  BY <1>1
<1>3. CASE pc = "path_len" /\ need = PathLenBytes
  BY <1>1, <1>2, <1>3
<1>4. CASE pc = "path" /\ need = file_path_len
  BY <1>1, <1>2, <1>4
<1>5. CASE pc = "path_ck" /\ need = ChecksumBytes
  BY <1>1, <1>2, <1>5
<1>6. CASE pc = "data_len" /\ need = DataLenBytes
  BY <1>1, <1>2, <1>6
<1> QED
  BY <1>3, <1>4, <1>5, <1>6

(* When a read loop reports that there is no data, the client is gone; if  *)
(* it announced what it sent, it had not sent everything unless the file   *)
(* is complete.  The loop before the data's checksum may be out of room.   *)
ClientGone ==
    /\ pos = sent /\ peer = "closed"
    /\ req.declared = req.actual => sent < StreamLen(req) \/ Len(file) = req.declared
OutOfRoom == pc = "data_ck" /\ end_index = BufLen /\ Len(file) = req.declared

LEMMA FirstReadNothing ==
    ASSUME EndInv, pc = "first_read", ReadsNothing(0)
    PROVE  ClientGone
<1>1. pos = 0 /\ BufLen # 0
  BY EndInvFacts DEF Progress, NextField
<1>2. req.pathLen \in Nat /\ req.actual \in Nat
  BY EndInvFacts
<1>3. StreamLen(req) > 0
  BY <1>2 DEF StreamLen, DataCkPos, DataPos, DataLenPos, PathCkPos, PathPos, OpBytes,
       PathLenBytes, ChecksumBytes, DataLenBytes
<1> QED
  BY <1>1, <1>3 DEF ReadsNothing, ClientGone

LEMMA FillNothing ==
    ASSUME EndInv, HeaderLen(req) <= BufLen, NEW need \in Nat,
           \/ pc = "path_len" /\ need = PathLenBytes
           \/ pc = "path" /\ need = file_path_len
           \/ pc = "path_ck" /\ need = ChecksumBytes
           \/ pc = "data_len" /\ need = DataLenBytes,
           end_index - start_index < need, ReadsNothing(end_index)
    PROVE  ClientGone
<1>1. NextField + need <= HeaderLen(req) /\ HeaderLen(req) <= StreamLen(req)
  BY FieldInHeader
<1>2. end_index < BufLen
  BY <1>1, HeaderHasRoom
<1>3. pos = sent /\ peer = "closed"
  BY <1>2, EndInvFacts DEF ReadsNothing
<1>4. /\ {pos, start_index, end_index, HeaderLen(req), StreamLen(req)} \subseteq Nat
      /\ pos - (end_index - start_index) = NextField
  BY EndInvFacts, RequestPositions DEF Progress, HeaderLen
<1>5. sent < StreamLen(req)
  BY <1>1, <1>3, <1>4
<1> QED
  BY <1>3, <1>5 DEF ClientGone

LEMMA DataReadsNothing ==
    ASSUME EndInv, DataUnfinished, ReadsNothing(ReadEnd)
    PROVE  ClientGone
<1>1. /\ ReadStart = ReadEnd /\ pos = DataPos(req) + Len(file)
      /\ file_data_length > 0 /\ Len(file) + file_data_length = req.declared
  BY EndInvFacts, DataReadStart
<1>2. ReadEnd # BufLen
  BY <1>1, EndInvFacts DEF ReadStart, ReadEnd, Wrapped
<1>3. pos = sent /\ peer = "closed"
  BY <1>2 DEF ReadsNothing
<1>4. req.op = "file"
  BY EndInvFacts DEF DataUnfinished, UploadInv, OnlyUploadsHaveFiles
<1>5. DataPos(req) \in Nat /\ StreamLen(req) = DataPos(req) + req.actual + ChecksumBytes
  BY <1>4, EndInvFacts, RequestPositions DEF StreamLen, DataCkPos
<1>6. req.declared = req.actual => sent < StreamLen(req)
  BY <1>1, <1>3, <1>5, EndInvFacts DEF ChecksumBytes
<1> QED
  BY <1>3, <1>6 DEF ClientGone

LEMMA DataCkReadsNothing ==
    ASSUME EndInv, pc = "data_ck", ReadsNothing(end_index)
    PROVE  ClientGone \/ OutOfRoom
<1>1. Len(file) = req.declared
  BY EndInvFacts DEF Progress
<1> QED
  BY <1>1 DEF ReadsNothing, ClientGone, OutOfRoom

(* Every "no data" of the task.                                            *)
LEMMA NoDataExplained ==
    ASSUME EndInv, TaskStep, HeaderLen(req) <= BufLen, result' = "no_data"
    PROVE  /\ ClientGone \/ OutOfRoom
           /\ UNCHANGED <<req, sent, peer, file>>
<1>1. pc # "done" /\ result = "none"
  BY EndInvFacts DEF TaskStep, Header, Data, FirstRead, FillPathLen, ReadPathLen, FillPath,
       ReadPath, FillPathCk, CheckPath, CreateParent, CreateFile, FillDataLen, ReadDataLen,
       WriteFirst, ReceiveData, ReceiveDataStops, DataUnfinished, DataComplete, FillDataCk,
       CheckData, Fill, Consume
<1>2. CASE FirstRead
  <2>1. ReadsNothing(0) /\ pc = "first_read" /\ UNCHANGED <<req, sent, peer, file>>
    BY <1>1, <1>2 DEF FirstRead, Finish, Continue, Panic, connVars, dataVars
  <2> QED
    BY <2>1, FirstReadNothing
<1>3. ASSUME NEW at, NEW need \in Nat, Fill(at, need),
             \/ at = "path_len" /\ need = PathLenBytes
             \/ at = "path" /\ need = file_path_len
             \/ at = "path_ck" /\ need = ChecksumBytes
             \/ at = "data_len" /\ need = DataLenBytes
             \/ at = "data_ck" /\ need = ChecksumBytes
      PROVE  /\ ClientGone \/ OutOfRoom
             /\ UNCHANGED <<req, sent, peer, file>>
  <2>1. /\ pc = at /\ end_index - start_index < need /\ ReadsNothing(end_index)
        /\ UNCHANGED <<req, sent, peer, file>>
    BY <1>1, <1>3 DEF Fill, Fail, Finish, Panic, connVars, dataVars
  <2>2. CASE at = "data_ck"
    BY <2>1, <2>2, DataCkReadsNothing
  <2>3. CASE at # "data_ck"
    BY <1>3, <2>1, <2>3, FillNothing
  <2> QED
    BY <2>2, <2>3
<1>4. CASE FillPathLen \/ FillPath \/ FillPathCk \/ FillDataLen \/ FillDataCk
  BY <1>3, <1>4, EndInvFacts DEF FillPathLen, FillPath, FillPathCk, FillDataLen, FillDataCk,
       PathLenBytes, ChecksumBytes, DataLenBytes
<1>5. CASE ReceiveDataStops
  <2>1. DataUnfinished /\ ReadsNothing(ReadEnd) /\ UNCHANGED <<req, sent, peer, file>>
    BY <1>1, <1>5 DEF ReceiveDataStops, Fail, Finish, Panic, connVars, dataVars
  <2> QED
    BY <2>1, DataReadsNothing
<1>6. CASE ReadPathLen \/ ReadPath \/ CheckPath
  BY <1>1, <1>6 DEF ReadPathLen, ReadPath, CheckPath, Continue, Fail, Finish
<1>7. CASE CreateParent \/ CreateFile
  BY <1>1, <1>7 DEF CreateParent, CreateFile, Continue, Fail, Succeed, Finish
<1>8. CASE ReadDataLen \/ WriteFirst \/ DataComplete \/ CheckData
  BY <1>1, <1>8 DEF ReadDataLen, WriteFirst, DataComplete, CheckData, Continue, Fail, Panic,
       Succeed, Finish
<1>9. CASE ReceiveData
  BY <1>1, <1>9 DEF ReceiveData, LastChunk, MiddleChunk, Continue, Fail, Panic, Finish
<1> QED
  BY <1>2, <1>4, <1>5, <1>6, <1>7, <1>8, <1>9 DEF TaskStep, Header, Data

-----------------------------------------------------------------------------
(* The invariant is inductive.                                             *)

LEMMA HeaderStaysFirst ==
    ASSUME EndInv, TaskStep
    PROVE  HeaderInFirstBuffer'
<1>1. /\ {pos, start_index, end_index} \subseteq Nat
      /\ pc \notin {"data", "data_ck", "done"} => end_index = pos
      /\ pc = "first_read" => pos = 0
  BY EndInvFacts DEF Progress, NextField, EndInv, HeaderInFirstBuffer
<1>2. CASE FirstRead
  BY <1>1, <1>2 DEF FirstRead, ReadData, Finish, Panic, HeaderInFirstBuffer
<1>3. ASSUME NEW at \in Pcs, NEW need, Fill(at, need) PROVE HeaderInFirstBuffer'
  BY <1>1, <1>3 DEF Fill, ReadData, Fail, Panic, Finish, bufVars, HeaderInFirstBuffer
<1>4. CASE FillPathLen \/ FillPath \/ FillPathCk \/ FillDataLen \/ FillDataCk
  BY <1>3, <1>4 DEF FillPathLen, FillPath, FillPathCk, FillDataLen, FillDataCk, Pcs, HeaderPcs
<1>5. CASE ReadPathLen \/ ReadPath \/ CheckPath \/ ReadDataLen
  BY <1>1, <1>5 DEF ReadPathLen, ReadPath, CheckPath, ReadDataLen, Consume, Fail, Finish,
       Continue, bufVars, HeaderInFirstBuffer
<1>6. CASE CreateParent \/ CreateFile
  BY <1>1, <1>6 DEF CreateParent, CreateFile, bufVars, HeaderInFirstBuffer
<1>7. CASE WriteFirst \/ ReceiveDataStops \/ DataComplete \/ CheckData
  BY <1>1, <1>7 DEF WriteFirst, ReceiveDataStops, DataComplete, CheckData, Continue, Fail,
       Panic, Succeed, Finish, HeaderInFirstBuffer
<1>8. CASE ReceiveData
  BY <1>1, <1>8 DEF ReceiveData, LastChunk, MiddleChunk, Continue, Fail, Panic, Finish,
       HeaderInFirstBuffer
<1> QED
  BY <1>2, <1>4, <1>5, <1>6, <1>7, <1>8 DEF TaskStep, Header, Data

LEMMA PathStaysReceived ==
    ASSUME EndInv, TaskStep
    PROVE  PathIsReceived'
<1>1. CASE ReadPath /\ pc' # "done"
  <2>1. /\ Consume("path", file_path_len) /\ UNCHANGED req
        /\ path' = Slice(buf, start_index, start_index + file_path_len)
    BY <1>1 DEF ReadPath, Fail, Finish, Consume, connVars
  <2>2. /\ file_path_len = req.pathLen /\ file_path_len \in Nat
        /\ pos - (end_index - start_index) = PathPos
        /\ start_index + file_path_len <= end_index
    BY <2>1, EndInvFacts DEF Consume, Progress, NextField
  <2>3. path' = Bytes(PathPos, (start_index + file_path_len) - start_index)
    BY <2>1, <2>2, EndInvFacts, WindowSlice
  <2>4. (start_index + file_path_len) - start_index = req.pathLen
    BY <2>2, EndInvFacts
  <2> QED
    BY <2>1, <2>3, <2>4 DEF PathIsReceived
<1>2. CASE FillPathCk
  BY <1>2 DEF FillPathCk, Fill, connVars, dataVars, EndInv, PathIsReceived
<1>3. CASE pc' # "path_ck"
  BY <1>3 DEF PathIsReceived
<1>4. CASE ~(ReadPath /\ pc' # "done") /\ ~FillPathCk
  <2>1. pc' # "path_ck"
    BY <1>4 DEF TaskStep, Header, Data, FirstRead, FillPathLen, ReadPathLen, FillPath,
         ReadPath, CheckPath, CreateParent, CreateFile, FillDataLen, ReadDataLen,
         WriteFirst, ReceiveData, LastChunk, MiddleChunk, ReceiveDataStops, DataComplete,
         FillDataCk, CheckData, Fill, Fail, Panic, Succeed, Finish, Continue
  <2> QED
    BY <2>1 DEF PathIsReceived
<1> QED
  BY <1>1, <1>2, <1>3, <1>4

(* A checksum that is compared with its own bytes fails only if the client *)
(* computed another one.                                                   *)
LEMMA ReceivedChecksum ==
    ASSUME EndInv, NEW at, Consume(at, ChecksumBytes), at # "done"
    PROVE  Slice(buf, start_index, start_index + ChecksumBytes)
             = Bytes(NextField, ChecksumBytes)
<1>1. /\ start_index + ChecksumBytes \in Nat /\ start_index <= start_index + ChecksumBytes
      /\ start_index + ChecksumBytes <= end_index
      /\ (start_index + ChecksumBytes) - start_index = ChecksumBytes
  BY EndInvFacts DEF Consume, ChecksumBytes
<1>2. pos - (end_index - start_index) = NextField
  BY EndInvFacts DEF Consume, Progress
<1> QED
  BY <1>1, <1>2, EndInvFacts, WindowSlice

LEMMA CheckPathExplained ==
    ASSUME EndInv, CheckPath, pc' = "done"
    PROVE  ~req.pathCk
<1>1. /\ Consume("path_ck", ChecksumBytes) /\ pc = "path_ck"
      /\ ~ChecksumMatches(PathCkPos(req), path, Bytes(PathPos, req.pathLen), req.pathCk)
  BY DEF CheckPath, Consume, Continue
<1>2. Slice(buf, start_index, start_index + ChecksumBytes) = Bytes(PathCkPos(req), ChecksumBytes)
  BY <1>1, ReceivedChecksum DEF NextField
<1>3. path = Bytes(PathPos, req.pathLen)
  BY <1>1 DEF EndInv, PathIsReceived
<1> QED
  BY <1>1, <1>2, <1>3 DEF ChecksumMatches

(* A read that went past the data left all of it in the file, or failed.   *)
LEMMA ReceiveDataExplained ==
    ASSUME EndInv, ReceiveData, pc' = "done"
    PROVE  \/ result' \in {"io_error", "write_panic"}
           \/ Len(file') = req.declared
<1>1. PICK n \in 1 .. BufLen :
        /\ ReadData(ReadEnd, n)
        /\ LastChunk(n) \/ MiddleChunk(n)
  BY DEF ReceiveData
<1>2. CASE MiddleChunk(n)
  BY <1>2 DEF MiddleChunk, Continue, Panic, Finish
<1>3. CASE LastChunk(n)
  <2> DEFINE dataEnd == ReadStart + file_data_length
  <2>1. /\ DataUnfinished /\ SaveInv
        /\ {ReadStart, ReadEnd, file_data_length, Len(file), req.declared} \subseteq Nat
        /\ ReadStart = ReadEnd /\ Len(file) + file_data_length = req.declared
        /\ ReadEnd + n > dataEnd
    BY <1>3, EndInvFacts, DataReadStart DEF ReceiveData, LastChunk
  <2>2. dataEnd \in Nat /\ ReadStart <= dataEnd /\ dataEnd <= ReadEnd + n
    BY <2>1
  <2>3. Len(file \o Slice(buf', ReadStart, dataEnd)) = Len(file) + (dataEnd - ReadStart)
    BY <1>1, <2>1, <2>2, ChunkAppended
  <2>4. CASE WriteAll(buf', ReadStart, dataEnd)
    BY <2>1, <2>3, <2>4 DEF WriteAll
  <2>5. CASE Fail("io_error")
    BY <2>5 DEF Fail, Finish
  <2> QED
    BY <1>3, <2>4, <2>5 DEF LastChunk
<1> QED
  BY <1>1, <1>2, <1>3

LEMMA TaskEndExplained ==
    ASSUME EndInv, TaskStep
    PROVE  EndIsExplained'
<1> SUFFICES ASSUME pc' = "done", req'.op = "file", WellFormed(req')
             PROVE  \/ result' \in {"io_error", "write_panic", "read_panic"}
                    \/ Len(file') = req'.declared
                    \/ peer' = "closed" /\ sent' < StreamLen(req')
  BY DEF EndIsExplained
<1>1. UNCHANGED <<req, sent, peer>>
  BY DEF TaskStep, Header, Data, FirstRead, FillPathLen, ReadPathLen, FillPath,
       ReadPath, FillPathCk, CheckPath, CreateParent, CreateFile, FillDataLen, ReadDataLen,
       WriteFirst, ReceiveData, ReceiveDataStops, DataComplete, FillDataCk,
       CheckData, Fill, Consume, connVars
<1>2. /\ req.op = "file" /\ req.utf8 /\ req.pathCk /\ req.declared = req.actual
      /\ HeaderLen(req) <= BufLen
  BY <1>1 DEF WellFormed
<1>3. CASE result' = "no_data"
  BY <1>1, <1>2, <1>3, NoDataExplained DEF ClientGone, OutOfRoom
<1>4. CASE FirstRead /\ result' # "no_data"
  BY <1>2, <1>4 DEF FirstRead, Finish, Continue, Panic
<1>5. CASE (FillPathLen \/ FillPath \/ FillPathCk \/ FillDataLen \/ FillDataCk)
           /\ result' # "no_data"
  BY <1>5 DEF FillPathLen, FillPath, FillPathCk, FillDataLen, FillDataCk, Fill, Fail, Panic,
       Finish
<1>6. CASE ReadPathLen \/ ReadPath \/ ReadDataLen
  BY <1>2, <1>6 DEF ReadPathLen, ReadPath, ReadDataLen, Continue, Fail, Finish
<1>7. CASE CheckPath
  BY <1>2, <1>7, CheckPathExplained
<1>8. CASE CreateParent \/ CreateFile
  BY <1>2, <1>8 DEF CreateParent, CreateFile, Continue, Fail, Succeed, Finish
<1>9. CASE WriteFirst \/ DataComplete
  BY <1>9 DEF WriteFirst, DataComplete, Continue, Panic, Finish
<1>10. CASE ReceiveData
  BY <1>1, <1>10, ReceiveDataExplained
<1>11. CASE ReceiveDataStops /\ result' # "no_data"
  BY <1>11 DEF ReceiveDataStops, Fail, Panic, Finish
<1>12. CASE CheckData
  <2>1. Len(file) = req.declared /\ UNCHANGED file
    BY <1>12, EndInvFacts DEF CheckData, Consume, Progress, dataVars
  <2> QED
    BY <1>1, <2>1
<1> QED
  BY <1>3, <1>4, <1>5, <1>6, <1>7, <1>8, <1>9, <1>10, <1>11, <1>12 DEF TaskStep, Header, Data

LEMMA EndInvNext ==
    ASSUME "short" \notin Faults, EndInv, [Next]_vars
    PROVE  EndInv'
<1>1. UploadInv'
  BY UploadInvNext DEF EndInv
<1>2. CASE TaskStep
  BY <1>1, <1>2, HeaderStaysFirst, PathStaysReceived, TaskEndExplained DEF EndInv
<1>3. CASE Arrive
  BY <1>1, <1>3 DEF Arrive, taskVars, bufVars, dataVars, EndInv, HeaderInFirstBuffer,
       PathIsReceived, EndIsExplained
<1>4. CASE PeerEnds
  BY <1>1, <1>4 DEF PeerEnds, taskVars, bufVars, dataVars, EndInv, HeaderInFirstBuffer,
       PathIsReceived, EndIsExplained
<1>5. CASE UNCHANGED vars
  BY <1>1, <1>5 DEF vars, connVars, taskVars, bufVars, dataVars, EndInv, HeaderInFirstBuffer,
       PathIsReceived, EndIsExplained
<1> QED
  BY <1>2, <1>3, <1>4, <1>5 DEF Next

-----------------------------------------------------------------------------
(* The theorems.                                                           *)

(* A well-formed upload that was received completely is stored, every byte *)
(* of it, whatever the pieces it arrived in and even where save_file fails *)
(* or panics at its checksum, unless an operation on the disk or the       *)
(* connection fails (server.rs:366-425, 540-589).                          *)
THEOREM StoredCorrect == "short" \notin Faults => (Spec => []CompleteUploadIsStored)
<1> SUFFICES ASSUME "short" \notin Faults PROVE Spec => []CompleteUploadIsStored
  OBVIOUS
<1>1. EndInv => CompleteUploadIsStored
  <2> SUFFICES ASSUME EndInv, pc = "done", req.op = "file", WellFormed(req),
                      peer = "closed", sent = StreamLen(req),
                      result \notin {"io_error", "write_panic", "read_panic"}
               PROVE  file = Bytes(DataPos(req), req.actual)
    BY DEF CompleteUploadIsStored
  <2>1. StreamLen(req) \in Nat /\ file = Bytes(DataPos(req), Len(file))
    BY EndInvFacts, RequestPositions DEF SaveInv, FileIsPrefix
  <2>2. Len(file) = req.declared
    BY <2>1 DEF EndInv, EndIsExplained
  <2> QED
    BY <2>1, <2>2 DEF WellFormed
<1>2. EndInv /\ [Next]_vars => EndInv'
  BY EndInvNext
<1> QED
  BY <1>1, <1>2, EndInvInit, PTL DEF Spec

(* The server never takes a full buffer or a slow client for the end of    *)
(* the stream, except before the checksum of the data, where the file is   *)
(* complete (server.rs:551).                                               *)
THEOREM NoDataCorrect == "short" \notin Faults => (Spec => NoDataIsEofOrFullBuffer)
<1> SUFFICES ASSUME "short" \notin Faults PROVE Spec => NoDataIsEofOrFullBuffer
  OBVIOUS
<1>1. EndInv /\ [Next]_vars =>
        [ (result' = "no_data" /\ result # "no_data" /\ HeaderLen(req) <= BufLen) =>
          \/ pos = sent /\ peer = "closed"
          \/ /\ pc = "data_ck"
             /\ end_index = BufLen
             /\ Len(file) = req.declared ]_vars
  <2> SUFFICES ASSUME EndInv, [Next]_vars, result' = "no_data", result # "no_data",
                      HeaderLen(req) <= BufLen
               PROVE  ClientGone \/ OutOfRoom
    BY DEF ClientGone, OutOfRoom
  <2>1. TaskStep
    BY DEF Next, Arrive, PeerEnds, vars, taskVars
  <2> QED
    BY <2>1, NoDataExplained
<1>2. EndInv /\ [Next]_vars => EndInv'
  BY EndInvNext
<1> QED
  BY <1>1, <1>2, EndInvInit, PTL DEF Spec, NoDataIsEofOrFullBuffer
=============================================================================

------------------------ MODULE ServerTaskRefinement ------------------------
(* ServerTask implements Upload, for every buffer length, set of requests  *)
(* and set of faults without short writes.                                 *)
EXTENDS ServerTaskProofs

(* What the task has written is data it has received.                      *)
FileIsReceived ==
    file # <<>> => req.op = "file" /\ DataPos(req) + Len(file) <= pos

(* An unknown operation ends the request at once and a folder request      *)
(* never gets to a file.                                                   *)
OnlyUploadsHaveFiles ==
    /\ pc \in {"create_file", "data_len", "first_write", "data", "data_ck"} => req.op = "file"
    /\ pc \notin {"first_read", "done"} => req.op # "unknown"

\* A task has a result once it is over.
ResultIsFinal == result = "none" <=> pc # "done"

UploadInv == SaveInv /\ FileIsReceived /\ OnlyUploadsHaveFiles /\ ResultIsFinal

LEMMA UploadInvInit == Init => UploadInv
BY SaveInvInit DEF Init, TaskInit, UploadInv, FileIsReceived, OnlyUploadsHaveFiles,
                   ResultIsFinal

(* How a step of the task may leave the request.                           *)
Goes   == result' = "none" /\ pc' # "done"
Breaks == result' \notin {"none", "ok"} /\ pc' = "done"
Saves  == result' = "ok" /\ reply' = "ok" /\ pc' = "done" /\ UNCHANGED file

Ends == Goes \/ Breaks \/ Saves

LEMMA HeaderEnds ==
    ASSUME UploadInv, Header
    PROVE  /\ Goes \/ Breaks
           /\ UNCHANGED <<req, sent, file>> /\ pos <= pos'
           /\ OnlyUploadsHaveFiles'
<1>1. /\ pos \in Nat /\ BufLen \in Nat /\ (result = "none" <=> pc # "done")
      /\ pc \notin {"first_read", "done"} => req.op # "unknown"
  BY BufLenAssumption
     DEF UploadInv, SaveInv, BufferInv, TypeOK, ResultIsFinal, OnlyUploadsHaveFiles
<1>2. \A at, n : ReadData(at, n) => pos <= pos'
  BY <1>1, BufLenAssumption DEF ReadData, UploadInv, SaveInv, BufferInv, TypeOK
<1>3. CASE FirstRead
  BY <1>1, <1>2, <1>3 DEF FirstRead, Finish, Continue, Panic, connVars, dataVars, bufVars,
       Goes, Breaks, OnlyUploadsHaveFiles
<1>4. ASSUME NEW at \in {"path_len", "path", "path_ck"}, NEW need, Fill(at, need)
      PROVE  /\ Goes \/ Breaks
             /\ UNCHANGED <<req, sent, file>> /\ pos <= pos'
             /\ OnlyUploadsHaveFiles'
  BY <1>1, <1>2, <1>4 DEF Fill, Fail, Finish, Panic, connVars, dataVars, bufVars,
       Goes, Breaks, OnlyUploadsHaveFiles
<1>5. CASE ReadPathLen \/ ReadPath \/ CheckPath
  BY <1>1, <1>5 DEF ReadPathLen, ReadPath, CheckPath, Consume, Fail, Finish, Continue,
       connVars, dataVars, bufVars, Goes, Breaks, OnlyUploadsHaveFiles
<1> QED
  BY <1>3, <1>4, <1>5 DEF Header, FillPathLen, FillPath, FillPathCk

LEMMA CreateEnds ==
    ASSUME UploadInv, CreateParent \/ CreateFile
    PROVE  /\ Ends
           /\ file = <<>> /\ UNCHANGED <<req, sent, file, pos>>
           /\ OnlyUploadsHaveFiles'
<1>1. file = <<>> /\ (result = "none" <=> pc # "done")
  BY DEF CreateParent, CreateFile, UploadInv, SaveInv, Progress, ResultIsFinal
<1>2. req.op \in {"file", "folder", "unknown"} /\ OnlyUploadsHaveFiles
  BY RequestsAssumption DEF UploadInv, SaveInv, BufferInv, TypeOK, Request
<1> QED
  BY <1>1, <1>2 DEF CreateParent, CreateFile, Succeed, Fail, Finish, Continue, connVars,
       dataVars, bufVars, Ends, Goes, Breaks, Saves, OnlyUploadsHaveFiles

(* A step that writes data it has received.                                *)
Appends ==
    /\ Goes \/ Breaks
    /\ req' = req /\ sent' = sent
    /\ pos <= pos' /\ Len(file) <= Len(file')
    /\ DataPos(req) + Len(file') <= pos'
    /\ pc' \in {"data", "done"}

LEMMA WriteFirstEnds ==
    ASSUME "short" \notin Faults, UploadInv, WriteFirst
    PROVE  Appends
<1>1. SaveInv'
  BY WriteFirstSafe DEF UploadInv
<1>2. UNCHANGED <<req, sent, pos>> /\ pc = "first_write"
  BY DEF WriteFirst, connVars
<1>3. /\ pos \in Nat /\ start_index \in Nat /\ end_index \in Nat /\ DataPos(req) \in Nat
      /\ start_index <= end_index /\ file = <<>> /\ result = "none"
      /\ pos - (end_index - start_index) = DataPos(req) + Len(file)
  BY <1>2, RequestPositions
     DEF UploadInv, SaveInv, BufferInv, TypeOK, BufferIsWindow, Progress, NextField,
         ResultIsFinal
<1>4. CASE Panic("write_panic") /\ UNCHANGED file
  BY <1>2, <1>3, <1>4 DEF Panic, Finish, Appends, Breaks
<1>5. CASE Continue("data")
  <2>1. /\ pos' - (end_index' - start_index') = DataPos(req) + Len(file')
        /\ start_index' <= end_index' /\ start_index' \in Nat /\ end_index' \in Nat
        /\ Len(file') \in Nat
    BY <1>1, <1>2, <1>5, LenProperties
       DEF SaveInv, BufferInv, TypeOK, BufferIsWindow, Progress, NextField, Continue,
           DataPos, DataLenPos, PathCkPos
  <2> QED
    BY <1>2, <1>3, <1>5, <2>1 DEF Continue, Appends, Goes
<1> QED
  BY <1>4, <1>5 DEF WriteFirst

LEMMA ReceiveDataEnds ==
    ASSUME UploadInv, ReceiveData
    PROVE  Appends
<1>1. SaveInv /\ DataUnfinished /\ UNCHANGED <<req, sent>>
  BY DEF ReceiveData, connVars, UploadInv
<1>2. PICK n \in 1 .. BufLen :
         /\ ReadData(ReadEnd, n)
         /\ LastChunk(n) \/ MiddleChunk(n)
  BY DEF ReceiveData
<1>3. /\ ReadStart = ReadEnd /\ ReadStart \in Nat
      /\ pos = DataPos(req) + Len(file) /\ file_data_length > 0
  BY <1>1, DataReadStart
<1>4. /\ n \in Nat /\ pos' = pos + n /\ pos \in Nat /\ Len(file) \in Nat
      /\ DataPos(req) \in Nat /\ file_data_length \in Nat /\ result = "none"
  BY <1>1, <1>2, RequestPositions, BufLenAssumption, LenProperties
     DEF UploadInv, SaveInv, BufferInv, TypeOK, ReadData, ResultIsFinal, DataUnfinished
<1>5. ASSUME NEW m \in Nat, ReadStart <= m, m <= ReadEnd + n,
             file' = file \o Slice(buf', ReadStart, m),
             Goes \/ Breaks, pc' \in {"data", "done"}
      PROVE  Appends
  <2>1. Len(file') = Len(file) + (m - ReadStart)
    BY <1>1, <1>2, <1>5, ChunkAppended
  <2> QED
    BY <1>1, <1>3, <1>4, <1>5, <2>1 DEF Appends
<1>6. ASSUME NEW e \in Nat, ReadStart <= e, e <= ReadEnd + n,
             WriteAll(buf', ReadStart, e) \/ WriteAllFails(buf', ReadStart, e),
             Goes \/ Breaks, pc' \in {"data", "done"}
      PROVE  Appends
  <2>1. PICK m \in ReadStart .. e : file' = file \o Slice(buf', ReadStart, m)
    <3>1. e \in ReadStart .. e
      BY <1>3, <1>6
    <3> QED
      BY <1>6, <3>1 DEF WriteAll, WriteAllFails
  <2>2. m \in Nat /\ ReadStart <= m /\ m <= ReadEnd + n
    BY <1>3, <1>4, <1>6
  <2> QED
    BY <1>5, <1>6, <2>1, <2>2
<1>7. (Goes \/ Breaks) /\ pc' \in {"data", "done"}
  BY <1>2, <1>4 DEF LastChunk, MiddleChunk, Continue, Fail, Panic, Finish, Goes, Breaks
<1>8. CASE LastChunk(n)
  <2>1. /\ ReadStart + file_data_length \in Nat
        /\ ReadStart <= ReadStart + file_data_length
        /\ ReadStart + file_data_length <= ReadEnd + n
    BY <1>3, <1>4, <1>8 DEF LastChunk
  <2> QED
    BY <1>6, <1>7, <1>8, <2>1 DEF LastChunk
<1>9. CASE MiddleChunk(n)
  <2>1. ReadEnd + n \in Nat /\ ReadStart <= ReadEnd + n
    BY <1>3, <1>4
  <2> QED
    BY <1>6, <1>7, <1>9, <2>1 DEF MiddleChunk
<1> QED
  BY <1>2, <1>8, <1>9

LEMMA OtherDataEnds ==
    ASSUME UploadInv, Data, ~WriteFirst, ~ReceiveData
    PROVE  /\ Ends
           /\ UNCHANGED <<req, sent, file>> /\ pos <= pos'
           /\ OnlyUploadsHaveFiles'
<1>1. pos \in Nat /\ (result = "none" <=> pc # "done")
      /\ \A at, n : ReadData(at, n) => pos <= pos'
  BY BufLenAssumption
     DEF ReadData, UploadInv, SaveInv, BufferInv, TypeOK, ResultIsFinal
<1>2. pc \notin {"first_read", "done"} => req.op # "unknown"
  BY DEF UploadInv, OnlyUploadsHaveFiles
<1>3. pc \in {"data_len", "data", "data_ck"} => req.op = "file"
  BY DEF UploadInv, OnlyUploadsHaveFiles
<1>4. ASSUME NEW at \in {"data_len", "data_ck"}, NEW need, Fill(at, need)
      PROVE  /\ Ends
             /\ UNCHANGED <<req, sent, file>> /\ pos <= pos'
             /\ OnlyUploadsHaveFiles'
  BY <1>1, <1>2, <1>3, <1>4 DEF Fill, Fail, Finish, Panic, connVars, dataVars, bufVars,
       Ends, Goes, Breaks, OnlyUploadsHaveFiles
<1>5. CASE ReadDataLen \/ ReceiveDataStops \/ DataComplete \/ CheckData
  BY <1>1, <1>2, <1>3, <1>5 DEF ReadDataLen, ReceiveDataStops, DataUnfinished, DataComplete,
       CheckData, Consume, Succeed, Fail, Panic, Finish, Continue, connVars, dataVars,
       bufVars, Ends, Goes, Breaks, Saves, OnlyUploadsHaveFiles
<1> QED
  BY <1>4, <1>5 DEF Data, FillDataLen, FillDataCk

LEMMA UploadInvNext ==
    ASSUME "short" \notin Faults, UploadInv, [Next]_vars
    PROVE  UploadInv'
<1>1. SaveInv' /\ SaveInv
  BY SaveInvNext DEF UploadInv
<1>2. CASE UNCHANGED <<req, pc, pos, file, result>>
  BY <1>1, <1>2 DEF UploadInv, FileIsReceived, OnlyUploadsHaveFiles, ResultIsFinal,
       DataPos, DataLenPos, PathCkPos
<1>3. pos \in Nat /\ pos' \in Nat /\ DataPos(req) \in Nat /\ Len(file) \in Nat
  BY <1>1, RequestPositions, LenProperties DEF SaveInv, BufferInv, TypeOK
<1>4. ASSUME Ends, UNCHANGED <<req, file>>, pos <= pos', OnlyUploadsHaveFiles'
      PROVE  UploadInv'
  BY <1>1, <1>3, <1>4 DEF Ends, Goes, Breaks, Saves, UploadInv, FileIsReceived,
       ResultIsFinal, DataPos, DataLenPos, PathCkPos
<1>5. ASSUME Appends, pc \in {"first_write", "data"}
      PROVE  UploadInv'
  <2>1. req.op = "file" /\ req'.op = "file"
    BY <1>5 DEF UploadInv, OnlyUploadsHaveFiles, Appends
  <2> QED
    BY <1>1, <1>5, <2>1 DEF Appends, Goes, Breaks, UploadInv, FileIsReceived, ResultIsFinal,
         OnlyUploadsHaveFiles, DataPos, DataLenPos, PathCkPos
<1>6. CASE TaskStep
  <2>1. CASE Header
    BY <1>4, <2>1, HeaderEnds DEF Ends
  <2>2. CASE CreateParent \/ CreateFile
    BY <1>3, <1>4, <2>2, CreateEnds
  <2>3. CASE Data
    BY <1>4, <1>5, <2>3, WriteFirstEnds, ReceiveDataEnds, OtherDataEnds
       DEF WriteFirst, ReceiveData, DataUnfinished
  <2> QED
    BY <1>6, <2>1, <2>2, <2>3 DEF TaskStep
<1>7. CASE Arrive \/ PeerEnds \/ UNCHANGED vars
  BY <1>2, <1>7 DEF Arrive, PeerEnds, vars, connVars, taskVars, bufVars, dataVars
<1> QED
  BY <1>6, <1>7 DEF Next

-----------------------------------------------------------------------------
(* The refinement.                                                         *)

(* A longer prefix of the client's data is what Grow allows.               *)
LEMMA PrefixOfWire ==
    ASSUME NEW d \in Nat, NEW n \in Nat, NEW k \in 0 .. n
    PROVE  /\ Bytes(d, k) = SubSeq(Bytes(d, n), 1, k)
           /\ Len(Bytes(d, n)) = n
BY DEF Bytes

LEMMA AbstractInit == Init => Abstract!Init
BY DEF Init, TaskInit, Abstract!Init

LEMMA Grows ==
    ASSUME UploadInv, UploadInv', UNCHANGED req, Len(file) <= Len(file'), pos' <= sent'
    PROVE  Abstract!Grow
<1>1. /\ req \in Requests /\ file' \in Seq(Int) /\ file \in Seq(Int)
      /\ sent' \in 0 .. StreamLen(req) /\ pos' \in Nat
  BY DEF UploadInv, SaveInv, BufferInv, TypeOK
<1>2. /\ DataPos(req) \in Nat /\ req.actual \in Nat /\ StreamLen(req) \in Nat
  BY <1>1, RequestPositions
<1>3. Len(file) \in Nat /\ Len(file') \in Nat
  BY <1>1, LenProperties
<1>4. Len(file') <= req.actual + ChecksumBytes
  <2>1. CASE file' = <<>>
    BY <1>2, <2>1 DEF ChecksumBytes
  <2>2. CASE file' # <<>>
    <3>1. req.op = "file" /\ DataPos(req) + Len(file') <= pos'
      BY <2>2 DEF UploadInv, FileIsReceived, DataPos, DataLenPos, PathCkPos
    <3>2. StreamLen(req) = DataPos(req) + req.actual + ChecksumBytes
      BY <3>1 DEF StreamLen, DataCkPos
    <3> QED
      BY <1>1, <1>2, <1>3, <3>1, <3>2 DEF ChecksumBytes
  <2> QED
    BY <2>1, <2>2
<1>5. file' = Bytes(DataPos(req), Len(file'))
  BY DEF UploadInv, SaveInv, FileIsPrefix, DataPos, DataLenPos, PathCkPos
<1>6. req.actual + ChecksumBytes \in Nat
  BY <1>2 DEF ChecksumBytes
<1>7. /\ file' = SubSeq(Bytes(DataPos(req), req.actual + ChecksumBytes), 1, Len(file'))
      /\ Len(Bytes(DataPos(req), req.actual + ChecksumBytes)) = req.actual + ChecksumBytes
  <2> DEFINE d == DataPos(req)
             n == req.actual + ChecksumBytes
             k == Len(file')
  <2>1. d \in Nat /\ n \in Nat /\ k \in 0 .. n /\ file' = Bytes(d, k)
    BY <1>2, <1>3, <1>4, <1>5, <1>6
  <2> HIDE DEF d, n, k
  <2>2. file' = SubSeq(Bytes(d, n), 1, k) /\ Len(Bytes(d, n)) = n
    BY <2>1, PrefixOfWire
  <2> QED
    BY <2>2 DEF d, n, k
<1>8. Len(file') \in Len(file) .. req.actual + ChecksumBytes
  BY <1>3, <1>4, <1>6
<1> QED
  BY <1>7, <1>8 DEF Abstract!Grow

LEMMA AbstractStep ==
    ASSUME "short" \notin Faults, UploadInv, [Next]_vars
    PROVE  [Abstract!Next]_(Abstract!vars)
<1>1. UploadInv'
  BY UploadInvNext
<1>2. pos' <= sent' /\ SaveInv'
  BY <1>1 DEF UploadInv, SaveInv, BufferInv, BufferIsWindow
<1>3. CASE UNCHANGED <<req, file, result>>
  BY <1>3 DEF Abstract!vars, DataPos, DataLenPos, PathCkPos
<1>4. ASSUME UNCHANGED req, Len(file) <= Len(file'), result = "none", Goes \/ Breaks
      PROVE  Abstract!Next
  <2>1. Abstract!Grow
    BY <1>1, <1>2, <1>4, Grows
  <2>2. CASE Goes
    BY <1>4, <2>1, <2>2
       DEF Abstract!Next, Abstract!Receive, Goes, DataPos, DataLenPos, PathCkPos
  <2>3. CASE Breaks
    BY <1>4, <2>1, <2>3
       DEF Abstract!Next, Abstract!Fail, Breaks, DataPos, DataLenPos, PathCkPos
  <2> QED
    BY <1>4, <2>2, <2>3
<1>5. ASSUME UNCHANGED req, result = "none", Saves, req.op # "file" => file = <<>>
      PROVE  Abstract!Next
  <2>1. file = IF req.op = "file" THEN Bytes(DataPos(req), req.actual) ELSE <<>>
    BY <1>2, <1>5 DEF SaveInv, OkMeansSaved, Saves, DataPos, DataLenPos, PathCkPos
  <2> QED
    BY <1>5, <2>1 DEF Abstract!Next, Abstract!Store, Saves, DataPos, DataLenPos, PathCkPos
<1>6. CASE TaskStep
  <2>1. /\ result = "none" /\ Len(file) \in Nat
        /\ req.op # "file" => file = <<>>
    <3>1. pc # "done"
      BY <1>6 DEF TaskStep, Header, FirstRead, FillPathLen, FillPath, FillPathCk, Fill,
           ReadPathLen, ReadPath, CheckPath, Consume, CreateParent, CreateFile, Data,
           FillDataLen, FillDataCk, ReadDataLen, WriteFirst, ReceiveData,
           ReceiveDataStops, DataUnfinished, DataComplete, CheckData
    <3> QED
      BY <3>1, LenProperties
         DEF UploadInv, SaveInv, BufferInv, TypeOK, ResultIsFinal, FileIsReceived
  <2>2. CASE Ends /\ UNCHANGED <<req, file>>
    BY <1>4, <1>5, <2>1, <2>2 DEF Ends
  <2>3. CASE Appends
    BY <1>4, <2>1, <2>3 DEF Appends
  <2> QED
    BY <1>6, <2>2, <2>3, HeaderEnds, CreateEnds, WriteFirstEnds, ReceiveDataEnds,
       OtherDataEnds DEF TaskStep, Ends
<1>7. CASE Arrive \/ PeerEnds \/ UNCHANGED vars
  BY <1>3, <1>7 DEF Arrive, PeerEnds, vars, connVars, taskVars, bufVars, dataVars
<1> QED
  BY <1>6, <1>7 DEF Next

(* Server::run's task implements the contract of an upload, for every      *)
(* buffer length, set of requests and set of faults without short writes:  *)
(* whatever the reads return, the file only grows by the next bytes of the *)
(* client's data, and 1 is answered only when it is the client's file.     *)
THEOREM Refinement == "short" \notin Faults => (Spec => ImplementsUpload)
<1> SUFFICES ASSUME "short" \notin Faults PROVE Spec => ImplementsUpload
  OBVIOUS
<1>1. UploadInv /\ [Next]_vars => UploadInv'
  BY UploadInvNext
<1>2. UploadInv /\ [Next]_vars => [Abstract!Next]_(Abstract!vars)
  BY AbstractStep
<1> QED
  BY <1>1, <1>2, UploadInvInit, AbstractInit, PTL
     DEF Spec, ImplementsUpload, Abstract!SafeSpec
=============================================================================

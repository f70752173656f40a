-------------------------- MODULE ServerTaskProofs --------------------------
(* Proofs about ServerTask, for every buffer length and set of requests.   *)
EXTENDS ServerTask, SequenceTheorems, TLAPS

(* A slice of the buffer is a sequence of as many bytes.                   *)
LEMMA SliceType ==
    ASSUME NEW b \in [0 .. BufLen - 1 -> Int], NEW s \in Nat, NEW e \in Nat,
           s <= e, e <= BufLen
    PROVE  /\ Slice(b, s, e) \in Seq(Int)
           /\ Len(Slice(b, s, e)) = e - s
           /\ \A i \in 1 .. (e - s) : Slice(b, s, e)[i] = b[s + i - 1]
<1>1. \A i \in 1 .. (e - s) : b[s + i - 1] \in Int
  BY BufLenAssumption
<1>2. Slice(b, s, e) \in [1 .. (e - s) -> Int]
  BY <1>1 DEF Slice
<1>3. e - s \in Nat
  OBVIOUS
<1>4. Slice(b, s, e) \in Seq(Int)
  BY <1>2, <1>3, SeqDef
<1>5. Len(Slice(b, s, e)) = e - s
  BY <1>2, <1>3, <1>4, LenProperties
<1> QED
  BY <1>4, <1>5 DEF Slice

(* So is a piece of the client's stream.                                   *)
LEMMA BytesType ==
    ASSUME NEW a \in Int, NEW k \in Nat
    PROVE  /\ Bytes(a, k) \in Seq(Int)
           /\ Len(Bytes(a, k)) = k
           /\ \A i \in 1 .. k : Bytes(a, k)[i] = a + i - 1
<1>1. Bytes(a, k) \in [1 .. k -> Int]
  BY DEF Bytes
<1>2. Bytes(a, k) \in Seq(Int)
  BY <1>1, SeqDef
<1>3. Len(Bytes(a, k)) = k
  BY <1>1, <1>2, LenProperties
<1> QED
  BY <1>2, <1>3 DEF Bytes

(* Two sequences of integers with the same length and the same entries are *)
(* equal, and what concatenation does to them.                             *)
LEMMA SeqSame ==
    ASSUME NEW p \in Seq(Int), NEW q \in Seq(Int), Len(p) = Len(q),
           \A i \in 1 .. Len(p) : p[i] = q[i]
    PROVE  p = q
BY SeqEqual

LEMMA ConcatInt ==
    ASSUME NEW p \in Seq(Int), NEW q \in Seq(Int)
    PROVE  /\ p \o q \in Seq(Int)
           /\ Len(p \o q) = Len(p) + Len(q)
           /\ \A i \in 1 .. Len(p) + Len(q) :
                (p \o q)[i] = IF i <= Len(p) THEN p[i] ELSE q[i - Len(p)]
BY ConcatProperties

(* Consecutive pieces of the stream concatenate to one piece.              *)
LEMMA BytesConcat ==
    ASSUME NEW a \in Int, NEW k \in Nat, NEW m \in Nat
    PROVE  Bytes(a, k) \o Bytes(a + k, m) = Bytes(a, k + m)
<1> DEFINE p == Bytes(a, k)
           q == Bytes(a + k, m)
           r == Bytes(a, k + m)
<1>1. /\ p \in Seq(Int) /\ Len(p) = k
      /\ \A i \in 1 .. k : p[i] = a + i - 1
  BY BytesType
<1>2. /\ q \in Seq(Int) /\ Len(q) = m
      /\ \A i \in 1 .. m : q[i] = a + k + i - 1
  <2>1. a + k \in Int
    OBVIOUS
  <2> QED
    BY <2>1, BytesType
<1>3. /\ r \in Seq(Int) /\ Len(r) = k + m
      /\ \A i \in 1 .. (k + m) : r[i] = a + i - 1
  <2>1. k + m \in Nat
    OBVIOUS
  <2> QED
    BY <2>1, BytesType
<1> HIDE DEF p, q, r
<1>4. /\ p \o q \in Seq(Int) /\ Len(p \o q) = k + m
      /\ \A i \in 1 .. (k + m) : (p \o q)[i] = IF i <= k THEN p[i] ELSE q[i - k]
  BY <1>1, <1>2, ConcatInt
<1>5. ASSUME NEW i \in 1 .. (k + m)
      PROVE  (p \o q)[i] = r[i]
  <2>1. CASE i <= k
    <3>1. i \in 1 .. k
      BY <2>1
    <3> QED
      BY <2>1, <3>1, <1>1, <1>3, <1>4
  <2>2. CASE i > k
    <3>1. i - k \in 1 .. m
      BY <2>2
    <3>2. q[i - k] = a + k + (i - k) - 1
      BY <3>1, <1>2
    <3>3. (p \o q)[i] = q[i - k]
      BY <2>2, <1>4
    <3>4. r[i] = a + i - 1
      BY <1>3
    <3> QED
      BY <3>2, <3>3, <3>4
  <2>3. i <= k \/ i > k
    OBVIOUS
  <2> QED
    BY <2>1, <2>2, <2>3
<1>6. p \o q = r
  BY <1>3, <1>4, <1>5, SeqSame
<1> QED
  BY <1>6 DEF p, q, r

(* A slice whose bytes are consecutive stream positions is that piece of   *)
(* the stream.                                                             *)
LEMMA SliceIsBytes ==
    ASSUME NEW b \in [0 .. BufLen - 1 -> Int], NEW s \in Nat, NEW e \in Nat,
           s <= e, e <= BufLen, NEW a \in Int,
           \A i \in s .. e - 1 : b[i] = a + (i - s)
    PROVE  Slice(b, s, e) = Bytes(a, e - s)
<1> DEFINE p == Slice(b, s, e)
           q == Bytes(a, e - s)
<1>1. /\ p \in Seq(Int) /\ Len(p) = e - s
      /\ \A i \in 1 .. (e - s) : p[i] = b[s + i - 1]
  BY SliceType
<1>2. /\ q \in Seq(Int) /\ Len(q) = e - s
      /\ \A i \in 1 .. (e - s) : q[i] = a + i - 1
  <2>1. e - s \in Nat
    OBVIOUS
  <2> QED
    BY <2>1, BytesType
<1>3. \A i \in 1 .. (e - s) : b[s + i - 1] = a + i - 1
  OBVIOUS
<1> HIDE DEF p, q
<1>4. Len(p) = Len(q) /\ \A i \in 1 .. Len(p) : p[i] = q[i]
  BY <1>1, <1>2, <1>3
<1>5. p = q
  BY <1>1, <1>2, <1>4, SeqSame
<1> QED
  BY <1>5 DEF p, q

-----------------------------------------------------------------------------
(* The fields of a request are at natural positions.                       *)
LEMMA RequestPositions ==
    ASSUME NEW r \in Requests
    PROVE  /\ r.pathLen \in Nat /\ r.declared \in Nat /\ r.actual \in Nat
           /\ PathPos \in Nat /\ PathCkPos(r) \in Nat /\ DataLenPos(r) \in Nat
           /\ DataPos(r) \in Nat /\ DataCkPos(r) \in Nat /\ StreamLen(r) \in Nat
<1>1. r \in Request
  BY RequestsAssumption
<1>2. r.pathLen \in Nat /\ r.declared \in Nat /\ r.actual \in Nat
  BY <1>1 DEF Request
<1> QED
  BY <1>2 DEF PathPos, PathCkPos, DataLenPos, DataPos, DataCkPos, StreamLen,
              OpBytes, PathLenBytes, ChecksumBytes, DataLenBytes

(* One read of n bytes at index at extends a window that ends there.       *)
LEMMA ReadDataExtends ==
    ASSUME TypeOK, pos <= sent,
           NEW s \in Nat, NEW at \in Nat, s <= at, at <= BufLen,
           \A i \in s .. at - 1 : buf[i] = pos - at + i,
           NEW n \in 1 .. BufLen, ReadData(at, n)
    PROVE  /\ at + n \in Nat /\ at + n <= BufLen
           /\ buf' \in [0 .. BufLen - 1 -> Int]
           /\ pos' = pos + n /\ pos' \in Nat /\ pos' <= sent
           /\ \A i \in s .. (at + n) - 1 : buf'[i] = pos' - (at + n) + i
<1>1. n \in Nat /\ n >= 1 /\ at + n \in Nat /\ at + n <= BufLen
  BY BufLenAssumption DEF ReadData
<1>2. pos \in Nat /\ sent \in Int /\ buf \in [0 .. BufLen - 1 -> Int]
  BY RequestPositions DEF TypeOK
<1>3. pos' = pos + n /\ pos' \in Nat /\ pos' <= sent
  BY <1>1, <1>2 DEF ReadData
<1>4. buf' = [i \in 0 .. BufLen - 1 |->
                IF i >= at /\ i < at + n THEN pos + (i - at) ELSE buf[i]]
  BY DEF ReadData
<1>5. buf' \in [0 .. BufLen - 1 -> Int]
  BY <1>1, <1>2, <1>4
<1>6. ASSUME NEW i \in s .. (at + n) - 1
      PROVE  buf'[i] = pos' - (at + n) + i
  <2>1. i \in 0 .. BufLen - 1
    BY <1>1, BufLenAssumption
  <2>2. CASE i >= at
    BY <2>1, <2>2, <1>1, <1>2, <1>3, <1>4
  <2>3. CASE i < at
    <3>1. i \in s .. at - 1 /\ ~(i >= at)
      BY <2>3
    <3>2. buf'[i] = buf[i]
      BY <2>1, <3>1, <1>4
    <3> QED
      BY <3>1, <3>2, <1>1, <1>2, <1>3
  <2>4. i >= at \/ i < at
    OBVIOUS
  <2> QED
    BY <2>2, <2>3, <2>4
<1> QED
  BY <1>1, <1>3, <1>5, <1>6

(* The value a length field decodes to is a natural number.                *)
LEMMA FieldType ==
    ASSUME NEW s, NEW n, NEW at, NEW v \in Nat, NEW x \in Field(s, n, at, v)
    PROVE  x \in Nat
BY BufLenAssumption DEF Field

(* The invariant of the buffer.                                            *)
BufferInv == TypeOK /\ BufferIsWindow

LEMMA BufferInvInit == Init => BufferInv
<1> SUFFICES ASSUME Init PROVE BufferInv
  OBVIOUS
<1>1. StreamLen(req) \in Nat
  BY RequestPositions DEF Init
<1>2. buf \in [0 .. BufLen - 1 -> Int]
  BY BufLenAssumption DEF Init, TaskInit, ZeroByte
<1>3. <<>> \in Seq(Int)
  OBVIOUS
<1>4. TypeOK
  BY <1>1, <1>2, <1>3 DEF Init, TaskInit, TypeOK, Pcs, HeaderPcs, Results
<1>5. BufferIsWindow
  BY BufLenAssumption DEF Init, TaskInit, BufferIsWindow
<1> QED
  BY <1>4, <1>5 DEF BufferInv

LEMMA FillBuffer ==
    ASSUME BufferInv, NEW at \in Pcs, NEW need \in Nat, Fill(at, need)
    PROVE  BufferInv'
<1> USE DEF BufferInv
<1>1. UNCHANGED <<connVars, dataVars>>
  BY DEF Fill
<1>2. CASE /\ \E n \in 1 .. BufLen :
                ReadData(end_index, n) /\ end_index' = end_index + n
           /\ UNCHANGED <<pc, result, reply, start_index>>
  <2>1. PICK n \in 1 .. BufLen : ReadData(end_index, n) /\ end_index' = end_index + n
    BY <1>2
  <2>2. /\ end_index' \in Nat /\ end_index' <= BufLen
        /\ buf' \in [0 .. BufLen - 1 -> Int]
        /\ pos' \in Nat /\ pos' <= sent
        /\ \A i \in start_index .. end_index' - 1 : buf'[i] = pos' - end_index' + i
    <3>1. /\ start_index \in Nat /\ end_index \in Nat
          /\ start_index <= end_index /\ end_index <= BufLen /\ pos <= sent
          /\ \A i \in start_index .. end_index - 1 : buf[i] = pos - end_index + i
      BY DEF TypeOK, BufferIsWindow
    <3> QED
      BY <2>1, <3>1, ReadDataExtends
  <2>3. start_index <= end_index'
    BY <2>1, BufLenAssumption DEF TypeOK, BufferIsWindow
  <2>4. UNCHANGED <<req, sent, peer, pc, start_index, file_path_len, path,
                    file_data_length, file, hashed, result, reply>>
    BY <1>1, <1>2 DEF connVars, dataVars
  <2>5. TypeOK'
    BY <2>2, <2>4 DEF TypeOK
  <2>6. BufferIsWindow'
    BY <2>2, <2>3, <2>4 DEF BufferIsWindow
  <2> QED
    BY <2>5, <2>6
<1>3. CASE UNCHANGED bufVars /\ (Fail("no_data") \/ Panic("read_panic"))
  BY <1>1, <1>3 DEF TypeOK, BufferIsWindow, connVars, dataVars, bufVars, Fail, Panic,
                    Finish, ErrorReply, Pcs, Results
<1> QED
  BY <1>2, <1>3 DEF Fill

LEMMA ConsumeBuffer ==
    ASSUME BufferInv, NEW at, NEW n \in Nat, Consume(at, n)
    PROVE  /\ start_index' \in Nat /\ start_index' = start_index + n
           /\ BufferIsWindow'
           /\ UNCHANGED <<req, sent, peer, buf, end_index, pos>>
BY DEF BufferInv, TypeOK, BufferIsWindow, Consume, connVars

(* The buffer invariant is preserved by every step of the task.            *)
LEMMA HeaderBuffer == BufferInv /\ Header => BufferInv'
<1> SUFFICES ASSUME BufferInv, Header PROVE BufferInv'
  OBVIOUS
<1> USE DEF BufferInv
<1>1. CASE FirstRead
  <2>1. CASE /\ \E n \in 1 .. BufLen : ReadData(0, n) /\ end_index' = n
             /\ start_index' = OpBytes
             /\ IF req.op = "unknown" THEN Finish("unknown_op", "none")
                                      ELSE Continue("path_len")
    <3>1. PICK n \in 1 .. BufLen : ReadData(0, n) /\ end_index' = n
      BY <2>1
    <3>2. /\ 0 + n \in Nat /\ 0 + n <= BufLen
          /\ buf' \in [0 .. BufLen - 1 -> Int]
          /\ pos' \in Nat /\ pos' <= sent
          /\ \A i \in 0 .. (0 + n) - 1 : buf'[i] = pos' - (0 + n) + i
      <4>1. pos <= sent
        BY DEF BufferIsWindow
      <4>2. \A i \in 0 .. 0 - 1 : buf[i] = pos - 0 + i
        OBVIOUS
      <4>3. 0 <= BufLen
        BY BufLenAssumption
      <4> QED
        BY <3>1, <4>1, <4>2, <4>3, ReadDataExtends
    <3>3. start_index' = 1 /\ 1 <= end_index'
      BY <2>1, <3>1, BufLenAssumption DEF OpBytes
    <3>4. UNCHANGED <<connVars, dataVars>>
      BY <1>1 DEF FirstRead
    <3>5. pc' \in Pcs /\ result' \in Results /\ reply' \in {"none", "ok", "error"}
      BY <2>1 DEF Finish, Continue, Pcs, HeaderPcs, Results, TypeOK
    <3>6. TypeOK'
      BY <3>1, <3>2, <3>3, <3>4, <3>5 DEF TypeOK, connVars, dataVars
    <3>7. BufferIsWindow'
      BY <3>1, <3>2, <3>3, <3>4 DEF BufferIsWindow, connVars
    <3> QED
      BY <3>6, <3>7
  <2>2. CASE UNCHANGED bufVars /\ (Finish("no_data", "error") \/ Panic("read_panic"))
    <3>1. UNCHANGED <<connVars, dataVars>>
      BY <1>1 DEF FirstRead
    <3> QED
      BY <2>2, <3>1 DEF TypeOK, BufferIsWindow, connVars, dataVars, bufVars, Panic,
                        Finish, Pcs, Results
  <2> QED
    BY <1>1, <2>1, <2>2 DEF FirstRead
<1>2. CASE FillPathLen
  BY <1>2, FillBuffer DEF FillPathLen, Pcs, HeaderPcs, PathLenBytes
<1>3. CASE FillPath
  <2>1. file_path_len \in Nat
    BY DEF TypeOK
  <2> QED
    BY <1>3, <2>1, FillBuffer DEF FillPath, Pcs, HeaderPcs
<1>4. CASE FillPathCk
  BY <1>4, FillBuffer DEF FillPathCk, Pcs, HeaderPcs, ChecksumBytes
<1>5. CASE ReadPathLen
  <2>1. Consume("path_len", PathLenBytes) /\ PathLenBytes \in Nat
    BY <1>5 DEF ReadPathLen, PathLenBytes
  <2>2. /\ start_index' \in Nat /\ BufferIsWindow'
        /\ UNCHANGED <<req, sent, peer, buf, end_index, pos>>
    BY <2>1, ConsumeBuffer
  <2>3. file_path_len' \in Nat
    BY <1>5, FieldType, RequestPositions DEF ReadPathLen, TypeOK
  <2> QED
    BY <1>5, <2>2, <2>3 DEF ReadPathLen, TypeOK, Continue, Pcs, HeaderPcs
<1>6. CASE ReadPath /\ req.utf8
  <2>1. Consume("path", file_path_len) /\ file_path_len \in Nat
    BY <1>6 DEF ReadPath, TypeOK
  <2>2. /\ start_index' \in Nat /\ start_index' = start_index + file_path_len
        /\ BufferIsWindow'
        /\ UNCHANGED <<req, sent, peer, buf, end_index, pos>>
    BY <2>1, ConsumeBuffer
  <2>3. path' \in Seq(Int)
    <3>1. start_index <= start_index' /\ start_index' <= BufLen /\ start_index \in Nat
      BY <2>1, <2>2, BufLenAssumption DEF BufferIsWindow, TypeOK, Consume
    <3>2. path' = Slice(buf, start_index, start_index') /\ buf \in [0 .. BufLen - 1 -> Int]
      BY <1>6, <2>2 DEF ReadPath, TypeOK
    <3> QED
      BY <2>2, <3>1, <3>2, SliceType
  <2> QED
    BY <1>6, <2>2, <2>3 DEF ReadPath, TypeOK, Continue, Pcs, HeaderPcs
<1>7. CASE ReadPath /\ ~req.utf8
  BY <1>7 DEF ReadPath, TypeOK, BufferIsWindow, Fail, Finish, ErrorReply, Pcs, Results,
              connVars, bufVars
<1>8. CASE CheckPath
  <2>1. Consume("path_ck", ChecksumBytes) /\ ChecksumBytes \in Nat
    BY <1>8 DEF CheckPath, ChecksumBytes
  <2>2. /\ start_index' \in Nat /\ BufferIsWindow'
        /\ UNCHANGED <<req, sent, peer, buf, end_index, pos>>
    BY <2>1, ConsumeBuffer
  <2>3. Continue("create_parent") \/ Fail("bad_checksum")
    BY <1>8 DEF CheckPath
  <2> QED
    BY <1>8, <2>2, <2>3 DEF CheckPath, TypeOK, dataVars, Continue, Fail, Finish,
                            ErrorReply, Pcs, Results
<1> QED
  BY <1>1, <1>2, <1>3, <1>4, <1>5, <1>6, <1>7, <1>8 DEF Header

LEMMA CreateBuffer == BufferInv /\ (CreateParent \/ CreateFile) => BufferInv'
<1> SUFFICES ASSUME BufferInv, CreateParent \/ CreateFile PROVE BufferInv'
  OBVIOUS
<1>1. UNCHANGED <<connVars, bufVars, file_path_len, path, file_data_length, hashed>>
  BY DEF CreateParent, CreateFile, dataVars
<1>2. file' \in Seq(Int)
  <2>1. file' = file \/ file' = <<>>
    BY DEF CreateParent, CreateFile, dataVars
  <2>2. file \in Seq(Int) /\ <<>> \in Seq(Int)
    BY DEF BufferInv, TypeOK
  <2> QED
    BY <2>1, <2>2
<1>3. pc' \in Pcs /\ result' \in Results /\ reply' \in {"none", "ok", "error"}
  BY DEF CreateParent, CreateFile, Succeed, Fail, Finish, ErrorReply, Continue,
         BufferInv, TypeOK, Pcs, HeaderPcs, Results
<1> QED
  BY <1>1, <1>2, <1>3 DEF BufferInv, TypeOK, BufferIsWindow, connVars, bufVars

(* What is written is a piece of the buffer, so the file stays a sequence. *)
LEMMA AppendSlice ==
    ASSUME NEW f \in Seq(Int), NEW b \in [0 .. BufLen - 1 -> Int],
           NEW s \in Nat, NEW e \in Nat, s <= e, e <= BufLen
    PROVE  /\ f \o Slice(b, s, e) \in Seq(Int)
           /\ Len(f \o Slice(b, s, e)) = Len(f) + (e - s)
<1>1. Slice(b, s, e) \in Seq(Int) /\ Len(Slice(b, s, e)) = e - s
  BY SliceType
<1> QED
  BY <1>1, ConcatInt

LEMMA WriteFirstBuffer == BufferInv /\ WriteFirst => BufferInv'
<1> SUFFICES ASSUME BufferInv, WriteFirst PROVE BufferInv'
  OBVIOUS
<1> USE DEF BufferInv
<1>1. /\ start_index \in Nat /\ end_index \in Nat /\ file_data_length \in Nat
      /\ file \in Seq(Int) /\ hashed \in Seq(Int)
      /\ buf \in [0 .. BufLen - 1 -> Int]
      /\ start_index <= end_index /\ end_index <= BufLen
  BY DEF TypeOK, BufferIsWindow
<1>2. /\ DataEndIndex \in Nat /\ start_index <= DataEndIndex
      /\ DataEndIndex <= end_index /\ DataEndIndex - start_index <= file_data_length
  BY <1>1 DEF DataEndIndex
<1>3. UNCHANGED <<connVars, buf, end_index, pos, file_path_len, path>>
  BY DEF WriteFirst
<1>4. CASE "write" \in Faults /\ Panic("write_panic")
           /\ UNCHANGED <<file, hashed, file_data_length, start_index>>
  BY <1>3, <1>4 DEF TypeOK, BufferIsWindow, connVars, Panic, Finish, Pcs, Results
<1>5. CASE /\ \E w \in Written(DataEndIndex - start_index) :
                /\ file' = file \o Slice(buf, start_index, start_index + w)
                /\ file_data_length' = file_data_length - w
           /\ hashed' = hashed \o Slice(buf, start_index, DataEndIndex)
           /\ start_index' = DataEndIndex
           /\ Continue("data")
  <2>1. PICK w \in Written(DataEndIndex - start_index) :
                /\ file' = file \o Slice(buf, start_index, start_index + w)
                /\ file_data_length' = file_data_length - w
    BY <1>5
  <2>2. w \in Nat /\ w <= DataEndIndex - start_index
    BY <1>1, <1>2 DEF Written
  <2>3. file' \in Seq(Int)
    <3>1. /\ start_index + w \in Nat /\ start_index <= start_index + w
          /\ start_index + w <= BufLen
      BY <1>1, <1>2, <2>2, BufLenAssumption
    <3> QED
      BY <1>1, <2>1, <3>1, AppendSlice
  <2>4. hashed' \in Seq(Int)
    <3>1. DataEndIndex <= BufLen
      BY <1>1, <1>2, BufLenAssumption
    <3> QED
      BY <1>1, <1>2, <1>5, <3>1, AppendSlice
  <2>5. file_data_length' \in Nat
    BY <1>1, <1>2, <2>1, <2>2
  <2>6. TypeOK'
    BY <1>2, <1>3, <1>5, <2>3, <2>4, <2>5
       DEF TypeOK, connVars, Continue, Pcs, HeaderPcs
  <2>7. BufferIsWindow'
    BY <1>1, <1>2, <1>3, <1>5 DEF BufferIsWindow, connVars
  <2> QED
    BY <2>6, <2>7
<1> QED
  BY <1>4, <1>5 DEF WriteFirst

(* A data read starts from a window, whether or not the buffer is reused.  *)
LEMMA ReadStartWindow ==
    ASSUME BufferInv
    PROVE  /\ ReadStart \in Nat /\ ReadEnd \in Nat
           /\ ReadStart <= ReadEnd /\ ReadEnd <= BufLen
           /\ ReadEnd - ReadStart = end_index - start_index
           /\ \A i \in ReadStart .. ReadEnd - 1 : buf[i] = pos - ReadEnd + i
BY BufLenAssumption DEF BufferInv, TypeOK, BufferIsWindow, ReadStart, ReadEnd, Wrapped

(* What a failing write_all leaves behind is a sequence too.               *)
LEMMA WriteAllType ==
    ASSUME file \in Seq(Int), hashed \in Seq(Int),
           NEW b \in [0 .. BufLen - 1 -> Int], NEW s \in Nat, NEW e \in Nat,
           s <= e, e <= BufLen,
           WriteAll(b, s, e) \/ WriteAllFails(b, s, e)
    PROVE  file' \in Seq(Int) /\ hashed' \in Seq(Int)
<1>1. CASE WriteAll(b, s, e)
  BY <1>1, AppendSlice DEF WriteAll
<1>2. CASE WriteAllFails(b, s, e)
  <2>1. PICK m \in s .. e : file' = file \o Slice(b, s, m)
    BY <1>2 DEF WriteAllFails
  <2>2. m \in Nat /\ s <= m /\ m <= BufLen
    BY BufLenAssumption
  <2> QED
    BY <1>2, <2>1, <2>2, AppendSlice DEF WriteAllFails
<1> QED
  BY <1>1, <1>2

LEMMA Subrange ==
    ASSUME NEW a \in Int, NEW b \in Int, NEW c \in Int, a <= b
    PROVE  b .. (c - 1) \subseteq a .. (c - 1)
OBVIOUS

LEMMA ReceiveDataBuffer == BufferInv /\ ReceiveData => BufferInv'
<1> SUFFICES ASSUME BufferInv, ReceiveData PROVE BufferInv'
  OBVIOUS
<1>1. PICK n \in 1 .. BufLen :
         /\ ReadData(ReadEnd, n)
         /\ end_index' = ReadEnd + n
         /\ LastChunk(n) \/ MiddleChunk(n)
  BY DEF ReceiveData
<1>2. UNCHANGED <<req, sent, peer, file_path_len, path>>
  BY DEF ReceiveData, connVars
<1>3. /\ ReadStart \in Nat /\ ReadEnd \in Nat
      /\ ReadStart <= ReadEnd /\ ReadEnd <= BufLen
      /\ \A i \in ReadStart .. ReadEnd - 1 : buf[i] = pos - ReadEnd + i
  BY ReadStartWindow
<1>4. TypeOK /\ pos <= sent
  BY DEF BufferInv, BufferIsWindow
<1>5. /\ end_index' \in Nat /\ end_index' <= BufLen
      /\ buf' \in [0 .. BufLen - 1 -> Int]
      /\ pos' \in Nat /\ pos' <= sent
      /\ \A i \in ReadStart .. end_index' - 1 : buf'[i] = pos' - end_index' + i
  BY <1>1, <1>3, <1>4, ReadDataExtends
<1>6. n \in Nat /\ n >= 1
  BY BufLenAssumption
<1>7. file_data_length \in Nat /\ file \in Seq(Int) /\ hashed \in Seq(Int)
  BY <1>4 DEF TypeOK
<1>8. CASE LastChunk(n)
  <2> DEFINE dataEnd == ReadStart + file_data_length
  <2>1. /\ dataEnd \in Nat /\ ReadStart <= dataEnd
        /\ dataEnd <= end_index' /\ dataEnd <= BufLen
    BY <1>1, <1>3, <1>5, <1>6, <1>7, <1>8, BufLenAssumption DEF LastChunk
  <2>2. \/ WriteAll(buf', ReadStart, dataEnd)
        \/ WriteAllFails(buf', ReadStart, dataEnd)
    BY <1>8 DEF LastChunk
  <2>3. file' \in Seq(Int) /\ hashed' \in Seq(Int)
    BY <1>3, <1>5, <1>7, <2>1, <2>2, WriteAllType
  <2>4. start_index' = dataEnd \/ start_index' = ReadStart
    BY <1>8 DEF LastChunk
  <2>5. file_data_length' \in Nat
    BY <1>7, <1>8 DEF LastChunk
  <2>6. pc' \in Pcs /\ result' \in Results /\ reply' \in {"none", "ok", "error"}
    BY <1>4, <1>8 DEF LastChunk, Continue, Panic, Fail, Finish, ErrorReply,
                      TypeOK, Pcs, HeaderPcs, Results
  <2>7. /\ start_index' \in Nat /\ ReadStart <= start_index'
        /\ start_index' <= end_index'
    BY <1>1, <1>3, <1>6, <2>1, <2>4
  <2> HIDE DEF dataEnd
  <2>8. TypeOK'
    BY <1>2, <1>4, <1>5, <2>3, <2>5, <2>6, <2>7 DEF TypeOK
  <2>9. BufferIsWindow'
    <3>1. /\ start_index' \in Int /\ end_index' \in Int
          /\ ReadStart \in Int /\ ReadStart <= start_index'
      BY <1>3, <1>5, <2>7
    <3>2. \A i \in start_index' .. end_index' - 1 : buf'[i] = pos' - end_index' + i
      <4>1. start_index' .. end_index' - 1 \subseteq ReadStart .. end_index' - 1
        BY <3>1, Subrange
      <4> QED
        BY ONLY <4>1, <1>5
    <3> QED
      BY <1>2, <1>5, <2>7, <3>2 DEF BufferIsWindow
  <2> QED
    BY <2>8, <2>9 DEF BufferInv
<1>9. CASE MiddleChunk(n)
  <2>1. n <= file_data_length
    BY <1>3, <1>6, <1>7, <1>9 DEF MiddleChunk
  <2>2. \/ WriteAll(buf', ReadStart, end_index')
        \/ WriteAllFails(buf', ReadStart, end_index')
    BY <1>1, <1>9 DEF MiddleChunk
  <2>3. ReadStart <= end_index'
    BY <1>1, <1>3, <1>6
  <2>4. file' \in Seq(Int) /\ hashed' \in Seq(Int)
    BY <1>3, <1>5, <1>7, <2>2, <2>3, WriteAllType
  <2>5. start_index' = ReadStart + n \/ start_index' = ReadStart
    BY <1>9 DEF MiddleChunk
  <2>6. file_data_length' \in Nat
    BY <1>6, <1>7, <1>9, <2>1 DEF MiddleChunk
  <2>7. pc' \in Pcs /\ result' \in Results /\ reply' \in {"none", "ok", "error"}
    BY <1>4, <1>9 DEF MiddleChunk, Continue, Panic, Finish, TypeOK, Pcs,
                      HeaderPcs, Results
  <2>8. /\ start_index' \in Nat /\ ReadStart <= start_index'
        /\ start_index' <= end_index'
    BY <1>1, <1>3, <1>6, <2>5
  <2>9. TypeOK'
    BY <1>2, <1>4, <1>5, <2>4, <2>6, <2>7, <2>8 DEF TypeOK
  <2>10. BufferIsWindow'
    <3>1. /\ start_index' \in Int /\ end_index' \in Int
          /\ ReadStart \in Int /\ ReadStart <= start_index'
      BY <1>3, <1>5, <2>8
    <3>2. \A i \in start_index' .. end_index' - 1 : buf'[i] = pos' - end_index' + i
      <4>1. start_index' .. end_index' - 1 \subseteq ReadStart .. end_index' - 1
        BY <3>1, Subrange
      <4> QED
        BY ONLY <4>1, <1>5
    <3> QED
      BY <1>2, <1>5, <2>8, <3>2 DEF BufferIsWindow
  <2> QED
    BY <2>9, <2>10 DEF BufferInv
<1> QED
  BY <1>1, <1>8, <1>9

LEMMA DataBuffer == BufferInv /\ Data => BufferInv'
<1> SUFFICES ASSUME BufferInv, Data PROVE BufferInv'
  OBVIOUS
<1>1. CASE FillDataLen
  BY <1>1, FillBuffer DEF FillDataLen, Pcs, HeaderPcs, DataLenBytes
<1>2. CASE FillDataCk
  BY <1>2, FillBuffer DEF FillDataCk, Pcs, ChecksumBytes
<1>3. CASE ReadDataLen
  <2>1. Consume("data_len", DataLenBytes) /\ DataLenBytes \in Nat
    BY <1>3 DEF ReadDataLen, DataLenBytes
  <2>2. /\ start_index' \in Nat /\ BufferIsWindow'
        /\ UNCHANGED <<req, sent, peer, buf, end_index, pos>>
    BY <2>1, ConsumeBuffer
  <2>3. file_data_length' \in Nat
    BY <1>3, FieldType, RequestPositions DEF ReadDataLen, TypeOK, BufferInv
  <2> QED
    BY <1>3, <2>2, <2>3 DEF ReadDataLen, TypeOK, Continue, Pcs, HeaderPcs, BufferInv
<1>4. CASE WriteFirst
  BY <1>4, WriteFirstBuffer
<1>5. CASE ReceiveData
  BY <1>5, ReceiveDataBuffer
<1>6. CASE ReceiveDataStops
  <2>1. /\ ReadStart \in Nat /\ ReadEnd \in Nat
        /\ ReadStart <= ReadEnd /\ ReadEnd <= BufLen
        /\ \A i \in ReadStart .. ReadEnd - 1 : buf[i] = pos - ReadEnd + i
    BY ReadStartWindow
  <2>2. /\ start_index' = ReadStart /\ end_index' = ReadEnd
        /\ UNCHANGED <<req, sent, peer, buf, pos, file_path_len, path,
                       file_data_length, file, hashed>>
    BY <1>6 DEF ReceiveDataStops, connVars, dataVars
  <2>3. pc' \in Pcs /\ result' \in Results /\ reply' \in {"none", "ok", "error"}
    BY <1>6 DEF ReceiveDataStops, Fail, Panic, Finish, ErrorReply, Pcs, Results
  <2>4. TypeOK'
    BY <2>1, <2>2, <2>3 DEF TypeOK, BufferInv
  <2>5. BufferIsWindow'
    BY <2>1, <2>2 DEF BufferIsWindow, BufferInv
  <2> QED
    BY <2>4, <2>5 DEF BufferInv
<1>7. CASE DataComplete
  BY <1>7 DEF DataComplete, BufferInv, TypeOK, BufferIsWindow, Continue, Pcs,
              HeaderPcs, connVars, bufVars, dataVars
<1>8. CASE CheckData
  <2>1. Consume("data_ck", ChecksumBytes) /\ ChecksumBytes \in Nat
    BY <1>8 DEF CheckData, ChecksumBytes
  <2>2. /\ start_index' \in Nat /\ BufferIsWindow'
        /\ UNCHANGED <<req, sent, peer, buf, end_index, pos>>
    BY <2>1, ConsumeBuffer
  <2>3. Succeed \/ Fail("bad_checksum")
    BY <1>8 DEF CheckData
  <2> QED
    BY <1>8, <2>2, <2>3 DEF CheckData, TypeOK, dataVars, Succeed, Fail, Finish,
                            ErrorReply, Pcs, Results, BufferInv
<1> QED
  BY <1>1, <1>2, <1>3, <1>4, <1>5, <1>6, <1>7, <1>8 DEF Data

LEMMA BufferInvNext == BufferInv /\ [Next]_vars => BufferInv'
<1> SUFFICES ASSUME BufferInv, [Next]_vars PROVE BufferInv'
  OBVIOUS
<1>1. CASE TaskStep
  BY <1>1, HeaderBuffer, CreateBuffer, DataBuffer DEF TaskStep
<1>2. CASE Arrive
  <2>1. PICK n \in sent + 1 .. StreamLen(req) : sent' = n
    BY <1>2 DEF Arrive
  <2>2. /\ sent \in Nat /\ StreamLen(req) \in Nat
    BY RequestPositions DEF BufferInv, TypeOK
  <2>3. sent' \in 0 .. StreamLen(req) /\ sent' >= sent
    BY <2>1, <2>2
  <2>4. UNCHANGED <<req, peer, pc, buf, start_index, end_index, pos, file_path_len,
                    path, file_data_length, file, hashed, result, reply>>
    BY <1>2 DEF Arrive, taskVars, bufVars, dataVars
  <2>5. TypeOK'
    BY <2>3, <2>4 DEF BufferInv, TypeOK
  <2>6. BufferIsWindow'
    BY <2>2, <2>3, <2>4 DEF BufferInv, TypeOK, BufferIsWindow
  <2> QED
    BY <2>5, <2>6 DEF BufferInv
<1>3. CASE PeerEnds
  BY <1>3 DEF PeerEnds, taskVars, bufVars, dataVars, BufferInv, TypeOK, BufferIsWindow
<1>4. CASE UNCHANGED vars
  BY <1>4 DEF vars, connVars, taskVars, bufVars, dataVars, BufferInv, TypeOK,
              BufferIsWindow
<1> QED
  BY <1>1, <1>2, <1>3, <1>4 DEF Next

(* For every buffer length, set of requests and set of faults the task's   *)
(* state has its type: in particular no index or length subtraction of     *)
(* server.rs goes below zero, except at line 408, where the task panics.   *)
THEOREM TypeCorrect == Spec => []TypeOK
<1>1. BufferInv => TypeOK
  BY DEF BufferInv
<1> QED
  BY <1>1, BufferInvInit, BufferInvNext, PTL DEF Spec

(* The buffer indices of server.rs never cross, never leave the buffer and *)
(* delimit exactly the unprocessed bytes, whatever the reads return.       *)
THEOREM BufferCorrect == Spec => []BufferIsWindow
<1>1. BufferInv => BufferIsWindow
  BY DEF BufferInv
<1> QED
  BY <1>1, BufferInvInit, BufferInvNext, PTL DEF Spec

-----------------------------------------------------------------------------
(* From here on: no write is short.  Then the inductive invariant says     *)
(* where in the client's stream the task is (Progress), which makes every  *)
(* field decode to what the client sent and every slice written the next   *)
(* bytes of the client's data.                                             *)
SaveInv ==
    /\ BufferInv
    /\ Progress
    /\ FileIsPrefix
    /\ OkMeansSaved
    /\ pc # "done" => reply = "none"

(* Unprocessed bytes of the buffer are a piece of the stream.              *)
LEMMA WindowSlice ==
    ASSUME BufferInv, NEW e \in Nat, start_index <= e, e <= end_index
    PROVE  Slice(buf, start_index, e)
             = Bytes(pos - (end_index - start_index), e - start_index)
<1>1. /\ start_index \in Nat /\ end_index \in Nat /\ pos \in Nat
      /\ buf \in [0 .. BufLen - 1 -> Int] /\ end_index <= BufLen
      /\ \A i \in start_index .. end_index - 1 : buf[i] = pos - end_index + i
  BY DEF BufferInv, TypeOK, BufferIsWindow
<1>2. \A i \in start_index .. e - 1 :
         buf[i] = (pos - (end_index - start_index)) + (i - start_index)
  BY <1>1
<1>3. e <= BufLen /\ pos - (end_index - start_index) \in Int
  BY <1>1, BufLenAssumption
<1> QED
  BY <1>1, <1>2, <1>3, SliceIsBytes

(* A field is decoded to what the client put there when the task is where  *)
(* the field begins.                                                       *)
LEMMA FieldExact ==
    ASSUME BufferInv, NEW at, NEW n \in Nat, end_index - start_index >= n,
           at = pos - (end_index - start_index), NEW v
    PROVE  Field(start_index, n, at, v) = {v}
<1>1. start_index \in Nat /\ end_index \in Nat
  BY DEF BufferInv, TypeOK
<1>2. /\ start_index + n \in Nat /\ start_index <= start_index + n
      /\ start_index + n <= end_index /\ (start_index + n) - start_index = n
  BY <1>1
<1>3. Slice(buf, start_index, start_index + n)
        = Bytes(pos - (end_index - start_index), (start_index + n) - start_index)
  BY <1>2, WindowSlice
<1> QED
  BY <1>2, <1>3 DEF Field

(* Appending the next bytes of the stream to a prefix gives a prefix.      *)
LEMMA AppendNext ==
    ASSUME NEW d \in Nat, NEW k \in Nat, NEW m \in Nat
    PROVE  /\ Bytes(d, k) \o Bytes(d + k, m) = Bytes(d, k + m)
           /\ Len(Bytes(d, k + m)) = k + m
<1>1. d \in Int /\ k + m \in Nat
  OBVIOUS
<1>2. Bytes(d, k) \o Bytes(d + k, m) = Bytes(d, k + m)
  BY <1>1, BytesConcat
<1>3. Len(Bytes(d, k + m)) = k + m
  BY <1>1, BytesType
<1> QED
  BY <1>2, <1>3

LEMMA SaveInvInit == Init => SaveInv
<1> SUFFICES ASSUME Init PROVE SaveInv
  OBVIOUS
<1>1. BufferInv
  BY BufferInvInit
<1>2. Progress
  BY DEF Init, TaskInit, Progress, NextField
<1>3. DataPos(req) \in Int /\ Len(file) = 0 /\ file = <<>>
  BY RequestPositions DEF Init, TaskInit
<1>4. Bytes(DataPos(req), 0) = <<>>
  BY DEF Bytes
<1>5. FileIsPrefix
  BY <1>3, <1>4 DEF FileIsPrefix
<1>6. OkMeansSaved /\ reply = "none"
  BY DEF Init, TaskInit, OkMeansSaved
<1> QED
  BY <1>1, <1>2, <1>5, <1>6 DEF SaveInv

(* Ending a request without changing the file keeps the invariant, unless  *)
(* the answer is a success.                                                *)
LEMMA FailSafe ==
    ASSUME SaveInv, BufferInv', NEW why,
           Fail(why) \/ Panic(why) \/ Finish(why, "none") \/ Finish(why, "error"),
           UNCHANGED <<req, file>>
    PROVE  SaveInv'
<1>1. pc' = "done" /\ reply' # "ok"
  BY DEF Fail, Panic, Finish, ErrorReply
<1>2. FileIsPrefix'
  BY DEF SaveInv, FileIsPrefix
<1>3. Progress' /\ OkMeansSaved'
  BY <1>1 DEF Progress, OkMeansSaved
<1> QED
  BY <1>1, <1>2, <1>3 DEF SaveInv

LEMMA FillSafe ==
    ASSUME SaveInv, BufferInv', NEW at \in Pcs \ {"done", "first_read", "data"},
           NEW need, Fill(at, need)
    PROVE  SaveInv'
<1>1. UNCHANGED <<req, sent, peer, file_path_len, path, file_data_length, file, hashed>>
  BY DEF Fill, connVars, dataVars
<1>2. CASE /\ \E n \in 1 .. BufLen :
                ReadData(end_index, n) /\ end_index' = end_index + n
           /\ UNCHANGED <<pc, result, reply, start_index>>
  <2>1. PICK n \in 1 .. BufLen : ReadData(end_index, n) /\ end_index' = end_index + n
    BY <1>2
  <2>2. /\ n \in Nat /\ end_index \in Nat /\ start_index \in Nat /\ pos \in Nat
    BY BufLenAssumption DEF SaveInv, BufferInv, TypeOK
  <2>3. pos' - (end_index' - start_index') = pos - (end_index - start_index)
    BY <1>2, <2>1, <2>2 DEF ReadData
  <2>4. pc = at /\ pc' = pc
    BY <1>2 DEF Fill
  <2>5. NextField' = NextField
    BY <1>1, <2>4 DEF NextField, PathCkPos, DataLenPos, DataPos
  <2>6. Progress'
    BY <1>1, <2>3, <2>4, <2>5 DEF SaveInv, Progress
  <2> QED
    BY <1>1, <1>2, <2>6 DEF SaveInv, FileIsPrefix, OkMeansSaved
<1>3. CASE Fail("no_data") \/ Panic("read_panic")
  BY <1>1, <1>3, FailSafe
<1> QED
  BY <1>2, <1>3 DEF Fill

(* The position in the stream moves with start_index.                      *)
LEMMA ConsumeProgress ==
    ASSUME SaveInv, NEW at, at # "done", NEW n \in Nat, Consume(at, n)
    PROVE  /\ pos - (end_index - start_index) = NextField
           /\ pos' - (end_index' - start_index') = NextField + n
           /\ UNCHANGED <<req, sent, peer, buf, end_index, pos>>
BY DEF SaveInv, BufferInv, TypeOK, Progress, Consume, connVars

LEMMA HeaderSafe == SaveInv /\ Header => SaveInv'
<1> SUFFICES ASSUME SaveInv, Header PROVE SaveInv'
  OBVIOUS
<1>1. BufferInv /\ BufferInv'
  BY HeaderBuffer DEF SaveInv
<1>2. CASE FirstRead
  <2>1. UNCHANGED <<req, sent, peer, file_path_len, path, file_data_length, file, hashed>>
    BY <1>2 DEF FirstRead, connVars, dataVars
  <2>2. CASE Finish("unknown_op", "none") \/ Finish("no_data", "error") \/ Panic("read_panic")
    BY <1>1, <2>1, <2>2, FailSafe
  <2>3. CASE /\ \E n \in 1 .. BufLen : ReadData(0, n) /\ end_index' = n
             /\ start_index' = OpBytes
             /\ Continue("path_len")
    <3>1. PICK n \in 1 .. BufLen : ReadData(0, n) /\ end_index' = n
      BY <2>3
    <3>2. n \in Nat /\ pos \in Nat /\ pos = 0
      BY <1>1, <1>2, BufLenAssumption
         DEF SaveInv, BufferInv, TypeOK, Progress, NextField, FirstRead
    <3>3. pos' - (end_index' - start_index') = OpBytes
      BY <2>3, <3>1, <3>2 DEF ReadData, OpBytes
    <3>4. pc = "first_read" /\ pc' = "path_len"
      BY <1>2, <2>3 DEF FirstRead, Continue
    <3>5. Progress'
      BY <2>1, <3>3, <3>4 DEF SaveInv, Progress, NextField
    <3> QED
      BY <1>1, <2>1, <2>3, <3>4, <3>5 DEF SaveInv, FileIsPrefix, OkMeansSaved, Continue
  <2> QED
    BY <1>2, <2>2, <2>3 DEF FirstRead
<1>3. CASE FillPathLen
  BY <1>1, <1>3, FillSafe DEF FillPathLen, Pcs, HeaderPcs
<1>4. CASE FillPath
  BY <1>1, <1>4, FillSafe DEF FillPath, Pcs, HeaderPcs
<1>5. CASE FillPathCk
  BY <1>1, <1>5, FillSafe DEF FillPathCk, Pcs, HeaderPcs
<1>6. CASE ReadPathLen
  <2>1. /\ Consume("path_len", PathLenBytes) /\ PathLenBytes \in Nat
        /\ end_index - start_index >= PathLenBytes /\ pc = "path_len"
    BY <1>6 DEF ReadPathLen, PathLenBytes, Consume
  <2>2. /\ pos - (end_index - start_index) = NextField
        /\ pos' - (end_index' - start_index') = NextField + PathLenBytes
        /\ UNCHANGED <<req, sent, peer, buf, end_index, pos>>
    BY <2>1, ConsumeProgress
  <2>3. NextField = OpBytes
    BY <2>1 DEF NextField
  <2>4. file_path_len' = req.pathLen
    BY <1>1, <1>6, <2>1, <2>2, <2>3, FieldExact DEF ReadPathLen
  <2>5. pc' = "path" /\ UNCHANGED <<path, file_data_length, file, hashed, reply, result>>
    BY <1>6 DEF ReadPathLen, Continue
  <2>6. Progress'
    BY <2>1, <2>2, <2>3, <2>4, <2>5 DEF SaveInv, Progress, NextField, PathPos
  <2> QED
    BY <1>1, <2>1, <2>2, <2>5, <2>6 DEF SaveInv, FileIsPrefix, OkMeansSaved
<1>7. CASE ReadPath /\ req.utf8
  <2>1. /\ Consume("path", file_path_len) /\ file_path_len \in Nat /\ pc = "path"
    BY <1>1, <1>7 DEF ReadPath, Consume, BufferInv, TypeOK
  <2>2. /\ pos - (end_index - start_index) = NextField
        /\ pos' - (end_index' - start_index') = NextField + file_path_len
        /\ UNCHANGED <<req, sent, peer, buf, end_index, pos>>
    BY <2>1, ConsumeProgress
  <2>3. NextField = PathPos /\ file_path_len = req.pathLen
    BY <2>1 DEF NextField, SaveInv, Progress
  <2>4. pc' = "path_ck" /\ UNCHANGED <<file_path_len, file_data_length, file, hashed, reply>>
    BY <1>7 DEF ReadPath, Continue
  <2>5. Progress'
    BY <2>1, <2>2, <2>3, <2>4 DEF SaveInv, Progress, NextField, PathCkPos
  <2> QED
    BY <1>1, <2>1, <2>2, <2>4, <2>5 DEF SaveInv, FileIsPrefix, OkMeansSaved
<1>8. CASE ReadPath /\ ~req.utf8
  BY <1>1, <1>8, FailSafe DEF ReadPath, connVars
<1>9. CASE CheckPath
  <2>1. Consume("path_ck", ChecksumBytes) /\ ChecksumBytes \in Nat /\ pc = "path_ck"
    BY <1>9 DEF CheckPath, ChecksumBytes, Consume
  <2>2. /\ pos' - (end_index' - start_index') = NextField + ChecksumBytes
        /\ UNCHANGED <<req, sent, peer, buf, end_index, pos>>
    BY <2>1, ConsumeProgress
  <2>3. UNCHANGED <<file_path_len, path, file_data_length, file, hashed>>
    BY <1>9 DEF CheckPath, dataVars
  <2>4. CASE Fail("bad_checksum")
    BY <1>1, <2>2, <2>3, <2>4, FailSafe
  <2>5. CASE Continue("create_parent")
    <3>1. pc' = "create_parent" /\ reply' = reply
      BY <2>5 DEF Continue
    <3>2. Progress'
      BY <2>1, <2>2, <2>3, <3>1 DEF SaveInv, Progress, NextField, DataLenPos
    <3> QED
      BY <1>1, <2>1, <2>2, <2>3, <3>1, <3>2 DEF SaveInv, FileIsPrefix, OkMeansSaved
  <2> QED
    BY <1>9, <2>4, <2>5 DEF CheckPath
<1> QED
  BY <1>2, <1>3, <1>4, <1>5, <1>6, <1>7, <1>8, <1>9 DEF Header

LEMMA CreateSafe == SaveInv /\ (CreateParent \/ CreateFile) => SaveInv'
<1> SUFFICES ASSUME SaveInv, CreateParent \/ CreateFile PROVE SaveInv'
  OBVIOUS
<1>1. BufferInv'
  BY CreateBuffer DEF SaveInv
<1>2. UNCHANGED <<req, sent, peer, buf, start_index, end_index, pos, file_path_len,
                  path, file_data_length, hashed>>
  BY DEF CreateParent, CreateFile, dataVars, connVars, bufVars
<1>3. pc # "done" /\ file = <<>> /\ file' = file
  BY DEF CreateParent, CreateFile, dataVars, SaveInv, Progress
<1>4. CASE Fail("io_error")
  BY <1>1, <1>2, <1>3, <1>4, FailSafe
<1>5. CASE Succeed /\ req.op = "folder"
  BY <1>1, <1>2, <1>3, <1>5
     DEF Succeed, Finish, SaveInv, Progress, FileIsPrefix, OkMeansSaved
<1>6. CASE \/ pc = "create_parent" /\ Continue("create_file")
           \/ pc = "create_file" /\ Continue("data_len")
  <2>1. Progress'
    BY <1>2, <1>3, <1>6 DEF SaveInv, Progress, NextField, Continue
  <2> QED
    BY <1>1, <1>2, <1>3, <1>6, <2>1
       DEF SaveInv, FileIsPrefix, OkMeansSaved, Continue
<1>7. CASE CreateParent
  BY <1>4, <1>5, <1>6, <1>7 DEF CreateParent
<1>8. CASE CreateFile
  BY <1>4, <1>6, <1>8 DEF CreateFile
<1> QED
  BY <1>7, <1>8

LEMMA WriteFirstSafe == "short" \notin Faults /\ SaveInv /\ WriteFirst => SaveInv'
<1> SUFFICES ASSUME "short" \notin Faults, SaveInv, WriteFirst PROVE SaveInv'
  OBVIOUS
<1>1. BufferInv /\ BufferInv'
  BY WriteFirstBuffer DEF SaveInv
<1>2. UNCHANGED <<req, sent, peer, buf, end_index, pos, file_path_len, path>>
  BY DEF WriteFirst, connVars
<1>3. CASE Panic("write_panic") /\ UNCHANGED file
  BY <1>1, <1>2, <1>3, FailSafe
<1>4. CASE /\ \E w \in Written(DataEndIndex - start_index) :
                /\ file' = file \o Slice(buf, start_index, start_index + w)
                /\ file_data_length' = file_data_length - w
           /\ hashed' = hashed \o Slice(buf, start_index, DataEndIndex)
           /\ start_index' = DataEndIndex
           /\ Continue("data")
  <2>1. /\ start_index \in Nat /\ end_index \in Nat /\ file_data_length \in Nat
        /\ pos \in Nat /\ file \in Seq(Int)
        /\ buf \in [0 .. BufLen - 1 -> Int]
        /\ start_index <= end_index /\ end_index <= BufLen
    BY <1>1 DEF BufferInv, TypeOK, BufferIsWindow
  <2>2. /\ DataEndIndex \in Nat /\ start_index <= DataEndIndex
        /\ DataEndIndex <= end_index /\ DataEndIndex <= BufLen
        /\ DataEndIndex - start_index \in Nat
        /\ DataEndIndex - start_index <= file_data_length
        /\ file_data_length > DataEndIndex - start_index => DataEndIndex = end_index
    BY <2>1, BufLenAssumption DEF DataEndIndex
  <2>3. /\ pc = "first_write" /\ pc' = "data" /\ reply' = reply
        /\ file = <<>> /\ hashed = <<>> /\ Len(file) = 0
        /\ file_data_length = req.declared
        /\ pos - (end_index - start_index) = DataPos(req) + Len(file)
        /\ reply = "none" /\ FileIsPrefix
    BY <1>4 DEF WriteFirst, SaveInv, Progress, NextField, Continue
  <2>4. /\ file' = file \o Slice(buf, start_index, DataEndIndex)
        /\ file_data_length' = file_data_length - (DataEndIndex - start_index)
    <3>1. start_index + (DataEndIndex - start_index) = DataEndIndex
      BY <2>1, <2>2
    <3>2. Written(DataEndIndex - start_index) = {DataEndIndex - start_index}
      BY DEF Written
    <3> QED
      BY <1>4, <3>1, <3>2
  <2>5. Slice(buf, start_index, DataEndIndex)
          = Bytes(DataPos(req) + Len(file), DataEndIndex - start_index)
    BY <1>1, <2>2, <2>3, WindowSlice
  <2>6. DataPos(req) \in Nat
    BY <1>1, RequestPositions DEF BufferInv, TypeOK
  <2>7. /\ Len(file') = Len(file) + (DataEndIndex - start_index)
        /\ file' = Bytes(DataPos(req), Len(file'))
    <3>1. file = Bytes(DataPos(req), Len(file))
      BY <2>3 DEF FileIsPrefix
    <3>2. Len(file) \in Nat
      BY <2>3
    <3> DEFINE k == Len(file)
               m == DataEndIndex - start_index
               D == DataPos(req)
    <3>3. D \in Nat /\ k \in Nat /\ m \in Nat
      BY <2>2, <2>6, <3>2
    <3>4. file' = file \o Bytes(D + k, m) /\ file = Bytes(D, k)
      BY <2>4, <2>5, <3>1
    <3> HIDE DEF k, m, D
    <3>5. /\ Bytes(D, k) \o Bytes(D + k, m) = Bytes(D, k + m)
          /\ Len(Bytes(D, k + m)) = k + m
      BY <3>3, AppendNext
    <3>6. file' = Bytes(D, k + m) /\ Len(file') = k + m
      BY <3>4, <3>5
    <3> QED
      BY <3>6 DEF k, m, D
  <2>8. hashed' = file'
    BY <1>4, <2>3, <2>4
  <2>9. Progress'
    <3>1. pos' - (end_index' - start_index') = DataPos(req') + Len(file')
      BY <1>2, <1>4, <2>1, <2>2, <2>3, <2>6, <2>7
    <3>2. NextField' = DataPos(req') + Len(file')
      BY <2>3 DEF NextField
    <3>3. Len(file') + file_data_length' = req'.declared
      BY <1>2, <2>1, <2>2, <2>3, <2>4, <2>7
    <3>4. file_data_length' > 0 => start_index' = end_index'
      BY <1>2, <1>4, <2>1, <2>2, <2>4
    <3> QED
      BY <2>3, <2>8, <3>1, <3>2, <3>3, <3>4 DEF Progress
  <2>10. FileIsPrefix'
    BY <1>2, <2>7 DEF FileIsPrefix
  <2> QED
    BY <1>1, <2>3, <2>9, <2>10 DEF SaveInv, OkMeansSaved
<1> QED
  BY <1>3, <1>4 DEF WriteFirst

(* While data is missing the buffer is empty, and the next byte read is    *)
(* the next byte of data.                                                  *)
LEMMA DataReadStart ==
    ASSUME SaveInv, DataUnfinished
    PROVE  /\ ReadStart = ReadEnd /\ ReadStart \in Nat /\ ReadEnd <= BufLen
           /\ pos = DataPos(req) + Len(file)
           /\ file_data_length > 0 /\ hashed = file
           /\ Len(file) + file_data_length = req.declared
<1>1. /\ start_index \in Nat /\ end_index \in Nat /\ file_data_length \in Nat
      /\ start_index <= end_index /\ pos \in Nat
  BY DEF SaveInv, BufferInv, TypeOK, BufferIsWindow
<1>2. /\ pc = "data" /\ file_data_length > 0
  BY <1>1 DEF DataUnfinished
<1>3. /\ start_index = end_index /\ hashed = file
      /\ Len(file) + file_data_length = req.declared
      /\ pos - (end_index - start_index) = DataPos(req) + Len(file)
  BY <1>2 DEF SaveInv, Progress, NextField
<1>4. /\ ReadStart \in Nat /\ ReadEnd \in Nat /\ ReadEnd <= BufLen
      /\ ReadEnd - ReadStart = end_index - start_index
  BY ReadStartWindow DEF SaveInv
<1> QED
  BY <1>1, <1>2, <1>3, <1>4

(* What the loop writes is the next piece of the client's data.            *)
LEMMA ChunkAppended ==
    ASSUME SaveInv, DataUnfinished, NEW n \in 1 .. BufLen, ReadData(ReadEnd, n),
           NEW m \in Nat, ReadStart <= m, m <= ReadEnd + n
    PROVE  /\ Len(file \o Slice(buf', ReadStart, m)) = Len(file) + (m - ReadStart)
           /\ file \o Slice(buf', ReadStart, m)
                = Bytes(DataPos(req), Len(file) + (m - ReadStart))
<1>1. /\ ReadStart = ReadEnd /\ pos = DataPos(req) + Len(file)
  BY DataReadStart
<1>2. /\ ReadStart \in Nat /\ ReadEnd \in Nat
      /\ ReadStart <= ReadEnd /\ ReadEnd <= BufLen
      /\ \A i \in ReadStart .. ReadEnd - 1 : buf[i] = pos - ReadEnd + i
  BY ReadStartWindow DEF SaveInv
<1>3. TypeOK /\ pos <= sent
  BY DEF SaveInv, BufferInv, BufferIsWindow
<1>4. /\ pos \in Nat /\ n \in Nat /\ file \in Seq(Int) /\ Len(file) \in Nat
      /\ DataPos(req) \in Nat
  BY <1>3, RequestPositions, BufLenAssumption, LenProperties DEF TypeOK
<1>5. file = Bytes(DataPos(req), Len(file))
  BY DEF SaveInv, FileIsPrefix
<1>6. /\ ReadEnd + n \in Nat /\ ReadEnd + n <= BufLen
      /\ buf' \in [0 .. BufLen - 1 -> Int] /\ pos' = pos + n
      /\ \A i \in ReadStart .. (ReadEnd + n) - 1 : buf'[i] = pos' - (ReadEnd + n) + i
  BY <1>2, <1>3, ReadDataExtends
<1>7. m <= BufLen /\ m - ReadStart \in Nat
  BY <1>2, <1>6, BufLenAssumption
<1>8. ReadStart .. m - 1 \subseteq ReadStart .. (ReadEnd + n) - 1
  BY <1>2, <1>4
<1>9. \A i \in ReadStart .. m - 1 : buf'[i] = pos' - (ReadEnd + n) + i
  BY <1>6, <1>8
<1>10. \A i \in ReadStart .. m - 1 : pos' - (ReadEnd + n) + i = pos + (i - ReadStart)
  BY <1>1, <1>2, <1>4, <1>6
<1>11. \A i \in ReadStart .. m - 1 : buf'[i] = pos + (i - ReadStart)
  BY <1>9, <1>10
<1>12. ReadStart \in Nat /\ pos \in Int
  BY <1>2, <1>4
<1>13. Slice(buf', ReadStart, m) = Bytes(pos, m - ReadStart)
  BY <1>6, <1>7, <1>11, <1>12, SliceIsBytes
<1> DEFINE k == Len(file)
           w == m - ReadStart
           D == DataPos(req)
           g == Slice(buf', ReadStart, m)
<1>14. D \in Nat /\ k \in Nat /\ w \in Nat
  BY <1>4, <1>7
<1>15. g = Bytes(D + k, w) /\ file = Bytes(D, k)
  BY <1>1, <1>5, <1>13
<1> HIDE DEF k, w, D, g
<1>16. /\ Bytes(D, k) \o Bytes(D + k, w) = Bytes(D, k + w)
       /\ Len(Bytes(D, k + w)) = k + w
  BY <1>14, AppendNext
<1>17. file \o g = Bytes(D, k + w) /\ Len(file \o g) = k + w
  BY <1>15, <1>16
<1> QED
  BY <1>17 DEF k, w, D, g

LEMMA ReceiveDataSafe == SaveInv /\ ReceiveData => SaveInv'
<1> SUFFICES ASSUME SaveInv, ReceiveData PROVE SaveInv'
  OBVIOUS
<1>1. BufferInv'
  BY ReceiveDataBuffer DEF SaveInv
<1>2. PICK n \in 1 .. BufLen :
         /\ ReadData(ReadEnd, n)
         /\ end_index' = ReadEnd + n
         /\ LastChunk(n) \/ MiddleChunk(n)
  BY DEF ReceiveData
<1>3. DataUnfinished /\ UNCHANGED <<req, sent, peer, file_path_len, path>>
  BY DEF ReceiveData, connVars
<1>4. /\ ReadStart = ReadEnd /\ ReadStart \in Nat /\ ReadEnd <= BufLen
      /\ pos = DataPos(req) + Len(file)
      /\ file_data_length > 0 /\ hashed = file
      /\ Len(file) + file_data_length = req.declared
  BY <1>3, DataReadStart
<1>5. /\ file_data_length \in Nat /\ n \in Nat /\ n >= 1 /\ pos \in Nat
      /\ pos' = pos + n /\ Len(file) \in Nat /\ DataPos(req) \in Nat
      /\ req.declared \in Nat
  BY <1>2, RequestPositions, BufLenAssumption, LenProperties
     DEF SaveInv, BufferInv, TypeOK, ReadData
<1>6. pc = "data" /\ reply = "none"
  BY <1>3 DEF DataUnfinished, SaveInv
(* Whatever is written, the file stays a prefix.                           *)
<1>7. ASSUME NEW m \in Nat, ReadStart <= m, m <= ReadEnd + n,
             file' = file \o Slice(buf', ReadStart, m)
      PROVE  FileIsPrefix' /\ Len(file') = Len(file) + (m - ReadStart)
  <2>1. /\ Len(file \o Slice(buf', ReadStart, m)) = Len(file) + (m - ReadStart)
        /\ file \o Slice(buf', ReadStart, m)
             = Bytes(DataPos(req), Len(file) + (m - ReadStart))
    BY <1>2, <1>3, <1>7, ChunkAppended
  <2>2. DataPos(req)' = DataPos(req)
    BY <1>3 DEF DataPos, DataLenPos, PathCkPos
  <2> QED
    BY <1>7, <2>1, <2>2 DEF FileIsPrefix
<1>8. ASSUME NEW e \in Nat, ReadStart <= e, e <= ReadEnd + n,
             WriteAllFails(buf', ReadStart, e), Fail("io_error") \/ Panic("write_panic")
      PROVE  SaveInv'
  <2>1. PICK m \in ReadStart .. e : file' = file \o Slice(buf', ReadStart, m)
    BY <1>8 DEF WriteAllFails
  <2>2. m \in Nat /\ ReadStart <= m /\ m <= ReadEnd + n
    BY <1>4, <1>5, <1>8
  <2>3. FileIsPrefix'
    BY <1>7, <2>1, <2>2
  <2>4. pc' = "done" /\ reply' # "ok"
    BY <1>8 DEF Fail, Panic, Finish, ErrorReply
  <2> QED
    BY <1>1, <2>3, <2>4 DEF SaveInv, Progress, OkMeansSaved
<1>9. ASSUME NEW e \in Nat, ReadStart <= e, e <= ReadEnd + n,
             WriteAll(buf', ReadStart, e), Continue("data"), start_index' = e,
             file_data_length' = file_data_length - (e - ReadStart),
             file_data_length' > 0 => e = end_index'
      PROVE  SaveInv'
  <2>1. file' = file \o Slice(buf', ReadStart, e) /\ hashed' = file'
    BY <1>4, <1>9 DEF WriteAll
  <2>2. FileIsPrefix' /\ Len(file') = Len(file) + (e - ReadStart)
    BY <1>7, <1>9, <2>1
  <2>3. pc' = "data" /\ reply' = reply
    BY <1>9 DEF Continue
  <2>4. pos' - (end_index' - start_index') = DataPos(req) + Len(file')
    <3>1. /\ pos' = DataPos(req) + Len(file) + n
          /\ end_index' = ReadStart + n /\ start_index' = e
          /\ Len(file') = Len(file) + (e - ReadStart)
      BY <1>2, <1>4, <1>5, <1>9, <2>2
    <3>2. /\ DataPos(req) \in Int /\ Len(file) \in Int /\ n \in Int
          /\ ReadStart \in Int /\ e \in Int
      BY <1>4, <1>5
    <3> QED
      BY ONLY <3>1, <3>2
  <2>5. NextField' = DataPos(req) + Len(file')
    BY <1>3, <2>3 DEF NextField, DataPos, DataLenPos, PathCkPos
  <2>6. Len(file') + file_data_length' = req'.declared
    BY <1>3, <1>4, <1>5, <1>9, <2>2
  <2>7. Progress'
    BY <1>9, <2>1, <2>3, <2>4, <2>5, <2>6 DEF Progress
  <2> QED
    BY <1>1, <1>6, <2>2, <2>3, <2>7 DEF SaveInv, OkMeansSaved
<1>10. CASE LastChunk(n)
  <2> DEFINE dataEnd == ReadStart + file_data_length
  <2>1. dataEnd \in Nat /\ ReadStart <= dataEnd /\ dataEnd <= ReadEnd + n
    BY <1>4, <1>5, <1>10 DEF LastChunk
  <2>2. CASE WriteAllFails(buf', ReadStart, dataEnd) /\ Fail("io_error")
    BY <1>8, <2>1, <2>2
  <2>3. CASE /\ WriteAll(buf', ReadStart, dataEnd)
             /\ start_index' = dataEnd
             /\ file_data_length' = 0 /\ Continue("data")
    BY <1>4, <1>5, <1>9, <2>1, <2>3
  <2>4. CASE WriteAll(buf', ReadStart, dataEnd) /\ Panic("assert_panic")
    <3>1. FileIsPrefix'
      BY <1>7, <2>1, <2>4 DEF WriteAll
    <3>2. pc' = "done" /\ reply' # "ok"
      BY <2>4 DEF Panic, Finish
    <3> QED
      BY <1>1, <3>1, <3>2 DEF SaveInv, Progress, OkMeansSaved
  <2> QED
    BY <1>10, <2>2, <2>3, <2>4 DEF LastChunk
<1>11. CASE MiddleChunk(n)
  <2>1. ReadEnd + n \in Nat /\ ReadStart <= ReadEnd + n /\ ReadEnd + n = ReadStart + n
    BY <1>4, <1>5
  <2>2. CASE WriteAllFails(buf', ReadStart, ReadEnd + n) /\ Panic("write_panic")
    BY <1>8, <2>1, <2>2
  <2>3. CASE /\ WriteAll(buf', ReadStart, ReadEnd + n)
             /\ start_index' = ReadStart + n
             /\ file_data_length' = file_data_length - n
             /\ Continue("data")
    BY <1>2, <1>4, <1>5, <1>9, <2>1, <2>3
  <2> QED
    BY <1>11, <2>2, <2>3 DEF MiddleChunk
<1> QED
  BY <1>2, <1>10, <1>11

(* Success is reported only when the hasher was fed the client's data, and *)
(* the hasher was fed what the file holds.                                 *)
LEMMA CheckDataSafe == SaveInv /\ CheckData => SaveInv'
<1> SUFFICES ASSUME SaveInv, CheckData PROVE SaveInv'
  OBVIOUS
<1>1. BufferInv'
  BY DataBuffer DEF SaveInv, Data
<1>2. /\ pc = "data_ck" /\ UNCHANGED <<req, file, file_data_length>>
  BY DEF CheckData, Consume, connVars, dataVars
<1>3. CASE Fail("bad_checksum")
  BY <1>1, <1>2, <1>3, FailSafe
<1>4. CASE /\ ChecksumMatches(DataCkPos(req), hashed, Bytes(DataPos(req), req.actual),
                              req.dataCk)
           /\ Succeed
  <2>1. file = Bytes(DataPos(req), req.actual)
    BY <1>2, <1>4 DEF ChecksumMatches, SaveInv, Progress
  <2>2. /\ Len(file) + file_data_length = req.declared /\ file_data_length = 0
    BY <1>2 DEF SaveInv, Progress
  <2>3. /\ Len(file) = req.actual /\ req.actual \in Nat
    <3>1. DataPos(req) \in Int /\ req.actual \in Nat
      BY RequestPositions DEF SaveInv, BufferInv, TypeOK
    <3>2. Len(Bytes(DataPos(req), req.actual)) = req.actual
      BY <3>1, BytesType
    <3> QED
      BY <2>1, <3>1, <3>2
  <2>4. req.declared = req.actual
    BY <2>2, <2>3
  <2>5. /\ req' = req /\ file' = file /\ DataPos(req)' = DataPos(req) /\ pc' = "done"
    BY <1>2, <1>4 DEF Succeed, Finish, DataPos, DataLenPos, PathCkPos
  <2>6. OkMeansSaved'
    BY <2>1, <2>4, <2>5 DEF OkMeansSaved
  <2>7. FileIsPrefix'
    BY <2>5 DEF SaveInv, FileIsPrefix
  <2>8. Progress'
    BY <2>5 DEF Progress
  <2> QED
    BY <1>1, <2>5, <2>6, <2>7, <2>8 DEF SaveInv
<1> QED
  BY <1>3, <1>4 DEF CheckData

LEMMA DataSafe == "short" \notin Faults /\ SaveInv /\ Data => SaveInv'
<1> SUFFICES ASSUME "short" \notin Faults, SaveInv, Data PROVE SaveInv'
  OBVIOUS
<1>1. BufferInv /\ BufferInv'
  BY DataBuffer DEF SaveInv
<1>2. CASE FillDataLen
  BY <1>1, <1>2, FillSafe DEF FillDataLen, Pcs, HeaderPcs
<1>3. CASE FillDataCk
  BY <1>1, <1>3, FillSafe DEF FillDataCk, Pcs
<1>4. CASE ReadDataLen
  <2>1. /\ Consume("data_len", DataLenBytes) /\ DataLenBytes \in Nat
        /\ end_index - start_index >= DataLenBytes /\ pc = "data_len"
    BY <1>4 DEF ReadDataLen, DataLenBytes, Consume
  <2>2. /\ pos - (end_index - start_index) = NextField
        /\ pos' - (end_index' - start_index') = NextField + DataLenBytes
        /\ UNCHANGED <<req, sent, peer, buf, end_index, pos>>
    BY <2>1, ConsumeProgress
  <2>3. NextField = DataLenPos(req)
    BY <2>1 DEF NextField
  <2>4. file_data_length' = req.declared
    BY <1>1, <1>4, <2>1, <2>2, <2>3, FieldExact DEF ReadDataLen
  <2>5. pc' = "first_write" /\ UNCHANGED <<file_path_len, path, file, hashed, reply>>
    BY <1>4 DEF ReadDataLen, Continue
  <2>6. file = <<>> /\ hashed = file
    BY <2>1 DEF SaveInv, Progress
  <2>7. NextField' = DataPos(req)
    <3>1. Len(file') = 0 /\ DataPos(req) \in Nat
      BY <1>1, <2>5, <2>6, RequestPositions DEF BufferInv, TypeOK
    <3>2. NextField' = DataPos(req) + Len(file')
      BY <2>2, <2>5 DEF NextField, DataPos, DataLenPos, PathCkPos
    <3> QED
      BY <3>1, <3>2
  <2>8. pos' - (end_index' - start_index') = DataPos(req)
    BY <2>2, <2>3 DEF DataPos
  <2>9. Progress'
    BY <2>2, <2>4, <2>5, <2>6, <2>7, <2>8 DEF Progress
  <2> QED
    BY <1>1, <2>1, <2>2, <2>5, <2>9 DEF SaveInv, FileIsPrefix, OkMeansSaved
<1>5. CASE WriteFirst
  BY <1>5, WriteFirstSafe
<1>6. CASE ReceiveData
  BY <1>6, ReceiveDataSafe
<1>7. CASE ReceiveDataStops
  BY <1>1, <1>7, FailSafe DEF ReceiveDataStops, connVars, dataVars
<1>8. CASE DataComplete
  <2>1. /\ pc = "data" /\ pc' = "data_ck" /\ reply' = reply
        /\ end_index - start_index >= file_data_length
        /\ UNCHANGED <<req, sent, peer, buf, start_index, end_index, pos, file_path_len,
                       path, file_data_length, file, hashed>>
    BY <1>8 DEF DataComplete, Continue, connVars, bufVars, dataVars
  <2>2. file_data_length = 0
    BY <1>1, <2>1 DEF SaveInv, Progress, BufferInv, TypeOK
  <2>3. Progress'
    BY <2>1, <2>2 DEF SaveInv, Progress, NextField
  <2> QED
    BY <1>1, <2>1, <2>3 DEF SaveInv, FileIsPrefix, OkMeansSaved
<1>9. CASE CheckData
  BY <1>9, CheckDataSafe
<1> QED
  BY <1>2, <1>3, <1>4, <1>5, <1>6, <1>7, <1>8, <1>9 DEF Data

LEMMA SaveInvNext == "short" \notin Faults /\ SaveInv /\ [Next]_vars => SaveInv'
<1> SUFFICES ASSUME "short" \notin Faults, SaveInv, [Next]_vars PROVE SaveInv'
  OBVIOUS
<1>1. BufferInv'
  BY BufferInvNext DEF SaveInv
<1>2. CASE TaskStep
  BY <1>2, HeaderSafe, CreateSafe, DataSafe DEF TaskStep
<1>3. CASE Arrive \/ PeerEnds \/ UNCHANGED vars
  <2>1. UNCHANGED <<req, pc, buf, start_index, end_index, pos, file_path_len, path,
                    file_data_length, file, hashed, result, reply>>
    BY <1>3 DEF Arrive, PeerEnds, vars, connVars, taskVars, bufVars, dataVars
  <2> QED
    BY <1>1, <2>1 DEF SaveInv, Progress, NextField, FileIsPrefix, OkMeansSaved
<1> QED
  BY <1>2, <1>3 DEF Next

(* The task always knows where in the client's stream it is: every field   *)
(* is read where the client put it, however the stream is cut into reads   *)
(* and however often the buffer is reused.                                 *)
THEOREM ProgressCorrect == "short" \notin Faults => (Spec => []Progress)
<1> SUFFICES ASSUME "short" \notin Faults PROVE Spec => []Progress
  OBVIOUS
<1>1. SaveInv => Progress
  BY DEF SaveInv
<1>2. SaveInv /\ [Next]_vars => SaveInv'
  BY SaveInvNext
<1> QED
  BY <1>1, <1>2, SaveInvInit, PTL DEF Spec

(* What save_file writes is a gapless prefix of the client's data, for     *)
(* every buffer length, request and failure except a short write.          *)
THEOREM PrefixCorrect == "short" \notin Faults => (Spec => []FileIsPrefix)
<1> SUFFICES ASSUME "short" \notin Faults PROVE Spec => []FileIsPrefix
  OBVIOUS
<1>1. SaveInv => FileIsPrefix
  BY DEF SaveInv
<1>2. SaveInv /\ [Next]_vars => SaveInv'
  BY SaveInvNext
<1> QED
  BY <1>1, <1>2, SaveInvInit, PTL DEF Spec

(* The reply 1 to a SaveFile request means that the whole file of the      *)
(* client, and nothing else, was written.                                  *)
THEOREM OkCorrect == "short" \notin Faults => (Spec => []OkMeansSaved)
<1> SUFFICES ASSUME "short" \notin Faults PROVE Spec => []OkMeansSaved
  OBVIOUS
<1>1. SaveInv => OkMeansSaved
  BY DEF SaveInv
<1>2. SaveInv /\ [Next]_vars => SaveInv'
  BY SaveInvNext
<1> QED
  BY <1>1, <1>2, SaveInvInit, PTL DEF Spec
=============================================================================

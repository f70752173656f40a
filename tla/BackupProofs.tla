---------------------------- MODULE BackupProofs ----------------------------
(* Proofs about Backup, for every set of runs, hosts, files and lengths.   *)
EXTENDS Backup, SequenceTheorems, TLAPS

(***************************************************************************)
(* The inductive invariant.  First what is true of one connection.         *)
(***************************************************************************)
Connection ==
    [run : Runs, path : Paths, fits : BOOLEAN, declared : 0 .. MaxLength, header : BOOLEAN,
     stream : Seq(Units), open : BOOLEAN, pc : TaskPcs, pos : Nat, rivals : SUBSET Nat,
     result : Results]

Types ==
    /\ source \in [Hosts -> [Paths -> [version : 0 .. MaxTrouble + 1, length : Nat]]]
    /\ {edits, stops, faults} \subseteq Nat /\ edits + stops + faults <= MaxTrouble
    /\ client \in [Runs -> ClientPcs]
    /\ todo \in [Runs -> SUBSET Paths]
    /\ read \in [Runs -> Nat]
    /\ conn \in Seq(Connection)
    /\ up \in BOOLEAN
    /\ \A p \in DOMAIN disk : disk[p] \in Seq(Units)

\* Nothing is read or written before the header has been sent.
HeaderFirst(m) ==
    /\ m.result = "none" <=> m.pc # "done"
    /\ m.pc = "header" => m.pos = 0
    /\ ~m.header => m.stream = <<>> /\ m.pos = 0 /\ m.pc # "data" /\ m.result # "ok"

\* What has been written of what has been sent.
InStream(m) == m.pos <= m.declared /\ m.pos <= Len(m.stream)

\* A stream is the beginning of a file, and a checksum at the end.
Ends(m) == m.stream # <<>> /\ m.stream[Len(m.stream)] = Checksum
InOrder(m) ==
    \A i \in 1 .. Len(m.stream) :
        \/ m.stream[i].host = Host[m.run] /\ m.stream[i].n = i
        \/ m.stream[i] = Checksum /\ i = Len(m.stream)

OkIsComplete(m) == m.result = "ok" => m.pos = m.declared /\ Len(m.stream) = m.pos + 1 /\ Ends(m)

\* Why a task has ended when nothing failed.
EndsForAReason(m) ==
    m.pc = "done" /\ faults + stops = 0 =>
        IF m.header THEN m.pos = m.declared \/ (m.pos = Len(m.stream) /\ ~m.open) ELSE ~m.open

\* When no file was changed.
AllSent(m) ==
    edits = 0 =>
        /\ \A i \in 1 .. Len(m.stream) : m.stream[i] = Checksum \/ m.stream[i].version = 1
        /\ Ends(m) => Len(m.stream) = Length[m.path] + 1 /\ m.declared = Length[m.path]

ConnectionInv(m) ==
    /\ HeaderFirst(m) /\ InStream(m) /\ InOrder(m) /\ OkIsComplete(m) /\ EndsForAReason(m)
    /\ AllSent(m)

Connections == \A k \in DOMAIN conn : ConnectionInv(conn[k])

(***************************************************************************)
(* The runs.                                                               *)
(***************************************************************************)
Active(r) == client[r] \in {"connected", "measured", "sending"}

Sending(r, m) ==
    /\ m.open /\ ~Ends(m)
    /\ m.header <=> client[r] = "sending"
    /\ client[r] = "sending" =>
          Len(m.stream) = read[r] /\ (edits = 0 => read[r] <= Length[m.path])
    /\ client[r] # "connected" /\ edits = 0 => m.declared = Length[m.path]

Sends(r) == Current(r) \in MadeBy(r) /\ Sending(r, conn[Current(r)])

\* A run that was not interrupted misses no file.
Covers(r) ==
    client[r] \notin {"panicked", "killed"} =>
        /\ \A p \in Tree[r] : p \in todo[r] \/ \E k \in MadeBy(r) : conn[k].path = p
        /\ client[r] = "finished" => todo[r] = {}
        /\ \A k \in MadeBy(r) :
              (Active(r) /\ k = Current(r)) \/ (edits = 0 =>
                  Length[conn[k].path] > MaxLength \/ Ends(conn[k]))

\* Nothing of a file is read before its header is sent.
Starts(r) == client[r] # "sending" => read[r] = 0

RunsInv == \A r \in Runs : (Active(r) => Sends(r)) /\ Covers(r) /\ Starts(r)

Unchanged == edits = 0 =>
    \A h \in Hosts, p \in Paths : source[h][p] = [version |-> 1, length |-> Length[p]]

(***************************************************************************)
(* The disk.  Whoever has worked on a file knows who does so now.          *)
(***************************************************************************)
Wrote(m) ==
    m.pc = "data" \/ m.result = "ok" \/ (m.pc = "done" /\ m.header /\ faults + stops = 0)

Rivalry ==
    \A k, j \in DOMAIN conn :
        /\ conn[k].rivals \subseteq DOMAIN conn \ {k}
        /\ k # j /\ conn[k].path = conn[j].path /\ conn[k].pc = "data" /\ Wrote(conn[j])
              => k \in conn[j].rivals

WrittenOut ==
    \A k \in DOMAIN conn : Wrote(conn[k]) =>
        /\ conn[k].path \in DOMAIN disk
        /\ conn[k].rivals = {} => disk[conn[k].path] = SubSeq(conn[k].stream, 1, conn[k].pos)

BackupInv == Types /\ Connections /\ RunsInv /\ Unchanged /\ Rivalry /\ WrittenOut

(***************************************************************************)
(* Connections are told apart by their places, and the current connection  *)
(* of a run is a function of the connections it has made.                  *)
(***************************************************************************)
Latest(S) == CHOOSE k \in S : \A j \in S : j <= k

LEMMA CurrentIsLatest == \A r : Current(r) = Latest(MadeBy(r))
BY DEF Current, Latest

LEMMA LatestIsLast ==
    ASSUME NEW S \in SUBSET Nat, NEW k \in S, \A j \in S : j <= k
    PROVE  Latest(S) = k
<1>1. \E i \in S : \A j \in S : j <= i  OBVIOUS
<1>2. Latest(S) \in S /\ \A j \in S : j <= Latest(S)  BY <1>1 DEF Latest
<1>3. Latest(S) <= k /\ k <= Latest(S)  BY <1>2
<1>4. Latest(S) \in Nat /\ k \in Nat  BY <1>2
<1>. QED  BY <1>3, <1>4

\* A step that leaves every connection with its run leaves every run its
\* current one.
KeepsRuns ==
    /\ DOMAIN conn' = DOMAIN conn
    /\ \A k \in DOMAIN conn : conn'[k].run = conn[k].run

LEMMA CurrentKept ==
    ASSUME KeepsRuns
    PROVE  \A r : MadeBy(r)' = MadeBy(r) /\ Current(r)' = Current(r)
<1>. SUFFICES ASSUME NEW r PROVE MadeBy(r)' = MadeBy(r) /\ Current(r)' = Current(r)
  OBVIOUS
<1>1. MadeBy(r)' = MadeBy(r)  BY DEF KeepsRuns, MadeBy
<1>2. Current(r)' = Latest(MadeBy(r)')  BY DEF Current, Latest
<1>3. Current(r) = Latest(MadeBy(r))  BY CurrentIsLatest
<1>. QED  BY <1>1, <1>2, <1>3

\* One connection is replaced.
Replaced(c, m) ==
    /\ DOMAIN conn' = DOMAIN conn
    /\ conn'[c] = m
    /\ \A j \in DOMAIN conn \ {c} : conn'[j] = conn[j]

LEMMA ReplaceOne ==
    ASSUME conn \in Seq(Connection), NEW c \in DOMAIN conn, NEW m \in Connection,
           conn' = [conn EXCEPT ![c] = m]
    PROVE  conn' \in Seq(Connection) /\ Replaced(c, m)
BY DEF Replaced

LEMMA ConnectionType ==
    ASSUME Types, NEW k \in DOMAIN conn
    PROVE  /\ conn[k] \in Connection /\ k \in Nat
           /\ conn[k].pc \in TaskPcs
           /\ conn[k].stream \in Seq(Units) /\ conn[k].pos \in Nat
           /\ conn[k].declared \in Nat /\ conn[k].rivals \in SUBSET Nat
<1>1. conn[k] \in Connection /\ k \in Nat  BY DEF Types
<1>. QED  BY <1>1, LengthsAssumption DEF Connection

LEMMA SequenceOf ==
    ASSUME NEW S, NEW s \in Seq(S), NEW t, t = [i \in DOMAIN s |-> t[i]],
           \A i \in DOMAIN s : t[i] \in S
    PROVE  t \in Seq(S)
<1>1. Len(s) \in Nat /\ DOMAIN s = 1 .. Len(s)  OBVIOUS
<1>2. t \in [1 .. Len(s) -> S]  BY <1>1
<1>. QED  BY <1>1, <1>2

(***************************************************************************)
(* The steps of the server.  They change nothing that the runs have sent   *)
(* or left to send.                                                        *)
(***************************************************************************)
SentSame(m, n) ==
    /\ m.run = n.run /\ m.path = n.path /\ m.declared = n.declared /\ m.header = n.header
    /\ m.stream = n.stream /\ m.open = n.open

KeepsSent ==
    /\ UNCHANGED <<edits, clientVars, source>>
    /\ DOMAIN conn' = DOMAIN conn
    /\ \A k \in DOMAIN conn : SentSame(conn'[k], conn[k])

LEMMA RunsInvKept ==
    ASSUME RunsInv, Unchanged, KeepsSent
    PROVE  RunsInv' /\ Unchanged'
<1>1. KeepsRuns  BY DEF KeepsSent, KeepsRuns, SentSame
<1>2. ASSUME NEW r PROVE MadeBy(r)' = MadeBy(r) /\ Current(r)' = Current(r)
  BY <1>1, CurrentKept
<1>3. ASSUME NEW r PROVE Active(r)' <=> Active(r)
  BY DEF Active, KeepsSent, clientVars
<1>4. ASSUME NEW r \in Runs, Sends(r) PROVE Sends(r)'
  <2>1. SentSame(conn'[Current(r)], conn[Current(r)])
    BY <1>4 DEF KeepsSent, Sends, MadeBy
  <2>2. PICK c : c = Current(r)  OBVIOUS
  <2>3. Current(r)' = c /\ SentSame(conn'[c], conn[c])  BY <1>2, <2>1, <2>2
  <2>4. Sending(r, conn[c])  BY <1>4, <2>2 DEF Sends
  <2>5. Sending(r, conn[c])'
    BY <2>3, <2>4 DEF Sending, Ends, SentSame, KeepsSent, clientVars
  <2>6. c \in MadeBy(r)'  BY <1>2, <1>4, <2>2 DEF Sends
  <2>. QED  BY <2>3, <2>5, <2>6 DEF Sends
<1>5. ASSUME NEW r \in Runs, Covers(r) PROVE Covers(r)'
  <2>1. \A k \in MadeBy(r) : SentSame(conn'[k], conn[k])  BY DEF KeepsSent, MadeBy
  <2>2. \A k \in MadeBy(r) : Ends(conn'[k]) <=> Ends(conn[k])  BY <2>1 DEF Ends, SentSame
  <2>. QED  BY <1>2, <1>3, <1>5, <2>1, <2>2 DEF Covers, SentSame, KeepsSent, clientVars
<1>6. Unchanged'  BY DEF Unchanged, KeepsSent
<1>7. ASSUME NEW r \in Runs, Starts(r) PROVE Starts(r)'
  BY <1>7 DEF Starts, KeepsSent, clientVars
<1>. QED  BY <1>3, <1>4, <1>5, <1>6, <1>7 DEF RunsInv

\* The invariant after a step of one task.
LEMMA TaskStepPreserves ==
    ASSUME BackupInv, NEW k \in DOMAIN conn, NEW m \in Connection, Replaced(k, m),
           UNCHANGED <<source, edits, clientVars, stops>>, faults' \in Nat, faults' >= faults,
           edits + stops + faults' <= MaxTrouble, up' \in BOOLEAN, conn' \in Seq(Connection),
           UNCHANGED disk, SentSame(m, conn[k]),
           m.pos = conn[k].pos, m.rivals = conn[k].rivals, m.pc = "done",
           Wrote(m)' => Wrote(conn[k]),
           ConnectionInv(m)'
    PROVE  BackupInv'
<1>1. Types'  BY DEF BackupInv, Types, clientVars
<1>2. KeepsSent  BY DEF KeepsSent, Replaced, SentSame, clientVars
<1>3. RunsInv' /\ Unchanged'  BY <1>2, RunsInvKept DEF BackupInv
<1>4. ASSUME NEW j \in DOMAIN conn, j # k PROVE ConnectionInv(conn[j])' /\ conn'[j] = conn[j]
  <2>1. conn'[j] = conn[j] /\ ConnectionInv(conn[j])
    BY <1>4 DEF Replaced, BackupInv, Connections
  <2>2. faults' + stops' = 0 => faults + stops = 0  BY DEF BackupInv, Types
  <2>. QED  BY <2>1, <2>2 DEF ConnectionInv, HeaderFirst, InStream, InOrder, OkIsComplete,
       EndsForAReason, AllSent
<1>5. Connections'  BY <1>4 DEF Connections, Replaced
<1>6. ASSUME NEW j \in DOMAIN conn, Wrote(conn[j])' PROVE Wrote(conn[j])
  <2>1. faults' + stops' = 0 => faults + stops = 0  BY DEF BackupInv, Types
  <2>. QED  BY <1>4, <1>6, <2>1 DEF Wrote, Replaced
<1>7. ASSUME NEW j \in DOMAIN conn
      PROVE  /\ conn'[j].path = conn[j].path /\ conn'[j].stream = conn[j].stream
             /\ conn'[j].pos = conn[j].pos /\ conn'[j].rivals = conn[j].rivals
             /\ conn'[j].pc = "data" => conn[j].pc = "data"
  BY <1>4 DEF Replaced, SentSame
<1>8. Rivalry'  BY <1>6, <1>7 DEF Rivalry, Replaced, BackupInv
<1>9. WrittenOut'  BY <1>6, <1>7 DEF WrittenOut, Replaced, BackupInv
<1>. QED  BY <1>1, <1>3, <1>5, <1>8, <1>9 DEF BackupInv

\* A task ends, for one reason or another.
LEMMA EndReplaces ==
    ASSUME Types, NEW k \in DOMAIN conn, NEW why \in Results, conn' = End(k, why)
    PROVE  /\ conn' \in Seq(Connection)
           /\ \E m \in Connection :
                /\ Replaced(k, m) /\ SentSame(m, conn[k])
                /\ m.pos = conn[k].pos /\ m.rivals = conn[k].rivals
                /\ m.pc = "done" /\ m.result = why
<1>1. conn \in Seq(Connection) /\ conn[k] \in Connection  BY DEF Types
<1>. DEFINE m == [conn[k] EXCEPT !.pc = "done", !.result = why]
<1>2. m \in Connection  BY <1>1 DEF Connection, TaskPcs, Results
<1>3. conn' = [conn EXCEPT ![k] = m]  BY <1>1 DEF End
<1>4. conn' \in Seq(Connection) /\ Replaced(k, m)  BY <1>1, <1>2, <1>3, ReplaceOne
<1>5. /\ SentSame(m, conn[k]) /\ m.pos = conn[k].pos /\ m.rivals = conn[k].rivals
      /\ m.pc = "done" /\ m.result = why
  BY <1>1 DEF SentSame, Connection
<1>. QED  BY <1>2, <1>4, <1>5

LEMMA HeaderEndsPreserves ==
    ASSUME BackupInv, NEW k, HeaderEnds(k)
    PROVE  BackupInv'
<1>1. /\ k \in DOMAIN conn /\ ~conn[k].header /\ ~conn[k].open /\ conn[k].pc = "header"
      /\ conn' = End(k, "error")
  BY DEF HeaderEnds, At
<1>2. Types /\ "error" \in Results  BY DEF BackupInv, Results
<1>3. conn' \in Seq(Connection)  BY <1>1, <1>2, EndReplaces
<1>4. PICK m \in Connection :
        /\ Replaced(k, m) /\ SentSame(m, conn[k])
        /\ m.pos = conn[k].pos /\ m.rivals = conn[k].rivals
        /\ m.pc = "done" /\ m.result = "error"
  BY <1>1, <1>2, EndReplaces
<1>5. UNCHANGED <<source, edits, clientVars, stops, faults, up, disk>>  BY DEF HeaderEnds
<1>6. ConnectionInv(conn[k])  BY <1>1 DEF BackupInv, Connections
<1>7. ConnectionInv(m)'
  BY <1>1, <1>4, <1>5, <1>6 DEF ConnectionInv, HeaderFirst, InStream, InOrder, OkIsComplete,
     EndsForAReason, AllSent, Ends, SentSame
<1>8. ~Wrote(m)'  BY <1>1, <1>4 DEF Wrote, SentSame
<1>9. faults' \in Nat /\ faults' >= faults /\ edits + stops + faults' <= MaxTrouble /\ up' \in BOOLEAN
  BY <1>2, <1>5 DEF Types
<1>. QED  BY <1>1, <1>3, <1>4, <1>5, <1>7, <1>8, <1>9, TaskStepPreserves

LEMMA DataEndsPreserves ==
    ASSUME BackupInv, NEW k, DataEnds(k)
    PROVE  BackupInv'
<1>1. /\ k \in DOMAIN conn /\ conn[k].pc = "data"
      /\ conn[k].pos = Len(conn[k].stream) /\ ~conn[k].open
      /\ conn' = End(k, "error")
  BY DEF DataEnds, At
<1>2. Types /\ "error" \in Results  BY DEF BackupInv, Results
<1>3. conn' \in Seq(Connection)  BY <1>1, <1>2, EndReplaces
<1>4. PICK m \in Connection :
        /\ Replaced(k, m) /\ SentSame(m, conn[k])
        /\ m.pos = conn[k].pos /\ m.rivals = conn[k].rivals
        /\ m.pc = "done" /\ m.result = "error"
  BY <1>1, <1>2, EndReplaces
<1>5. UNCHANGED <<source, edits, clientVars, stops, faults, up, disk>>  BY DEF DataEnds
<1>6. ConnectionInv(conn[k])  BY <1>1 DEF BackupInv, Connections
<1>7. ConnectionInv(m)'
  BY <1>1, <1>4, <1>5, <1>6 DEF ConnectionInv, HeaderFirst, InStream, InOrder, OkIsComplete,
     EndsForAReason, AllSent, Ends, SentSame
<1>8. Wrote(conn[k])  BY <1>1 DEF Wrote
<1>9. faults' \in Nat /\ faults' >= faults /\ edits + stops + faults' <= MaxTrouble /\ up' \in BOOLEAN
  BY <1>2, <1>5 DEF Types
<1>. QED  BY <1>1, <1>3, <1>4, <1>5, <1>7, <1>8, <1>9, TaskStepPreserves

\* The checksum is found where the data ends: nothing follows it.
LEMMA CheckPreserves ==
    ASSUME BackupInv, NEW k, Check(k)
    PROVE  BackupInv'
<1>1. /\ k \in DOMAIN conn /\ conn[k].pc = "data"
      /\ conn[k].pos = conn[k].declared /\ conn[k].pos < Len(conn[k].stream)
  BY DEF Check, At
<1>2. Types /\ {"ok", "error"} \subseteq Results  BY DEF BackupInv, Results
<1>3. PICK why \in {"ok", "error"} :
        conn' = End(k, why) /\ (why = "ok" => ChecksumMatches(k))
  BY DEF Check
<1>4. conn' \in Seq(Connection)  BY <1>1, <1>2, <1>3, EndReplaces
<1>5. PICK m \in Connection :
        /\ Replaced(k, m) /\ SentSame(m, conn[k])
        /\ m.pos = conn[k].pos /\ m.rivals = conn[k].rivals
        /\ m.pc = "done" /\ m.result = why
  BY <1>1, <1>2, <1>3, EndReplaces
<1>6. UNCHANGED <<source, edits, clientVars, stops, faults, up, disk>>  BY DEF Check
<1>7. ConnectionInv(conn[k]) /\ conn[k] \in Connection
  BY <1>1, <1>2 DEF BackupInv, Connections, Types
<1>8. why = "ok" => Len(conn[k].stream) = conn[k].pos + 1 /\ Ends(conn[k])
  <2>. SUFFICES ASSUME why = "ok"
                PROVE  Len(conn[k].stream) = conn[k].pos + 1 /\ Ends(conn[k])
    OBVIOUS
  <2>1. conn[k].pos \in Nat /\ conn[k].stream \in Seq(Units)  BY <1>7 DEF Connection
  <2>. DEFINE i == conn[k].pos + 1
  <2>2. i \in 1 .. Len(conn[k].stream) /\ conn[k].stream[i] = Checksum
    BY <1>1, <1>3, <2>1 DEF ChecksumMatches
  <2>3. Checksum.n # i  BY <2>1 DEF Checksum
  <2>4. i = Len(conn[k].stream)  BY <1>7, <2>2, <2>3 DEF ConnectionInv, InOrder
  <2>. QED  BY <2>1, <2>2, <2>4 DEF Ends
<1>9. ConnectionInv(m)'
  <2>1. HeaderFirst(m)' /\ InStream(m)' /\ InOrder(m)' /\ AllSent(m)'
    BY <1>1, <1>5, <1>6, <1>7 DEF ConnectionInv, HeaderFirst, InStream, InOrder, AllSent, Ends,
       SentSame
  <2>2. OkIsComplete(m)'  BY <1>1, <1>5, <1>8 DEF OkIsComplete, Ends, SentSame
  <2>3. EndsForAReason(m)'
    BY <1>1, <1>5, <1>7 DEF EndsForAReason, ConnectionInv, HeaderFirst, SentSame
  <2>. QED  BY <2>1, <2>2, <2>3 DEF ConnectionInv
<1>10. Wrote(conn[k])  BY <1>1 DEF Wrote
<1>11. faults' \in Nat /\ faults' >= faults /\ edits + stops + faults' <= MaxTrouble /\ up' \in BOOLEAN
  BY <1>2, <1>6 DEF Types
<1>. QED  BY <1>1, <1>4, <1>5, <1>6, <1>9, <1>10, <1>11, TaskStepPreserves

LEMMA FaultPreserves ==
    ASSUME BackupInv, NEW k, Fault(k)
    PROVE  BackupInv'
<1>1. k \in DOMAIN conn /\ conn[k].pc # "done" /\ conn' = End(k, "error")
      /\ faults' = faults + 1 /\ TroubleLeft
  BY DEF Fault, At
<1>2. Types /\ "error" \in Results  BY DEF BackupInv, Results
<1>3. conn' \in Seq(Connection)  BY <1>1, <1>2, EndReplaces
<1>4. PICK m \in Connection :
        /\ Replaced(k, m) /\ SentSame(m, conn[k])
        /\ m.pos = conn[k].pos /\ m.rivals = conn[k].rivals
        /\ m.pc = "done" /\ m.result = "error"
  BY <1>1, <1>2, EndReplaces
<1>5. UNCHANGED <<source, edits, clientVars, stops, up, disk>>  BY DEF Fault
<1>6. ConnectionInv(conn[k])  BY <1>1 DEF BackupInv, Connections
<1>7. faults' \in Nat /\ faults' >= faults /\ edits + stops + faults' <= MaxTrouble /\ up' \in BOOLEAN
      /\ faults' + stops' # 0
  BY <1>1, <1>2, <1>5, BoundsAssumption DEF Types, TroubleLeft
<1>8. ConnectionInv(m)'
  BY <1>1, <1>4, <1>5, <1>6, <1>7 DEF ConnectionInv, HeaderFirst, InStream, InOrder, OkIsComplete,
     EndsForAReason, AllSent, Ends, SentSame
<1>9. ~Wrote(m)'  BY <1>4, <1>7 DEF Wrote
<1>. QED  BY <1>1, <1>3, <1>4, <1>5, <1>7, <1>8, <1>9, TaskStepPreserves

LEMMA ServerStopsPreserves ==
    ASSUME BackupInv, ServerStops
    PROVE  BackupInv'
<1>1. Types /\ TroubleLeft /\ stops' = stops + 1 /\ up' = FALSE
      /\ UNCHANGED <<source, edits, faults, clientVars, disk>>
  BY DEF ServerStops, BackupInv
<1>2. stops' \in Nat /\ edits + stops' + faults <= MaxTrouble /\ faults' + stops' # 0
  BY <1>1, BoundsAssumption DEF Types, TroubleLeft
<1>3. DOMAIN conn' = DOMAIN conn /\ conn' \in Seq(Connection)
  <2>1. ASSUME NEW k \in DOMAIN conn
        PROVE  [conn[k] EXCEPT !.pc = "done", !.result = "stopped"] \in Connection
    <3>1. conn[k] \in Connection  BY <1>1, ConnectionType
    <3>. QED  BY <3>1 DEF Connection, TaskPcs, Results
  <2>2. ASSUME NEW k \in DOMAIN conn PROVE conn'[k] \in Connection
    <3>1. conn[k] \in Connection  BY <1>1, ConnectionType
    <3>. QED  BY <2>1, <3>1 DEF ServerStops
  <2>3. DOMAIN conn' = DOMAIN conn /\ conn' = [k \in DOMAIN conn |-> conn'[k]]
    BY DEF ServerStops
  <2>4. conn \in Seq(Connection)  BY <1>1 DEF Types
  <2>. QED  BY <2>2, <2>3, <2>4, SequenceOf
<1>4. ASSUME NEW k \in DOMAIN conn
      PROVE  /\ SentSame(conn'[k], conn[k])
             /\ conn'[k].pos = conn[k].pos /\ conn'[k].rivals = conn[k].rivals
             /\ conn'[k].pc = "done" /\ conn'[k].result # "none"
             /\ conn'[k].result = "ok" => conn[k].result = "ok"
  <2>1. conn[k] \in Connection /\ HeaderFirst(conn[k])
    BY <1>1 DEF Types, BackupInv, Connections, ConnectionInv
  <2>2. CASE conn[k].pc = "done"
    BY <2>1, <2>2 DEF ServerStops, SentSame, HeaderFirst
  <2>3. CASE conn[k].pc # "done"
    BY <2>1, <2>3 DEF ServerStops, SentSame, Connection
  <2>. QED  BY <2>2, <2>3
<1>5. Types'  BY <1>1, <1>2, <1>3 DEF Types, clientVars
<1>6. KeepsSent  BY <1>1, <1>3, <1>4 DEF KeepsSent
<1>7. RunsInv' /\ Unchanged'  BY <1>6, RunsInvKept DEF BackupInv
<1>8. ASSUME NEW k \in DOMAIN conn PROVE ConnectionInv(conn[k])'
  <2>1. ConnectionInv(conn[k])  BY DEF BackupInv, Connections
  <2>. QED  BY <1>1, <1>2, <1>4, <2>1 DEF ConnectionInv, HeaderFirst, InStream, InOrder, OkIsComplete,
         EndsForAReason, AllSent, Ends, SentSame
<1>9. Connections'  BY <1>3, <1>8 DEF Connections
<1>10. ASSUME NEW k \in DOMAIN conn, Wrote(conn[k])' PROVE Wrote(conn[k])
  BY <1>2, <1>4, <1>10 DEF Wrote
<1>11. Rivalry'  BY <1>3, <1>4 DEF Rivalry, BackupInv
<1>12. WrittenOut'  BY <1>1, <1>3, <1>4, <1>10 DEF WrittenOut, BackupInv, SentSame
<1>. QED  BY <1>5, <1>7, <1>9, <1>11, <1>12 DEF BackupInv

LEMMA CreateFilePreserves ==
    ASSUME BackupInv, NEW k, CreateFile(k)
    PROVE  BackupInv'
<1>1. /\ k \in DOMAIN conn /\ conn[k].pc = "header" /\ conn[k].header
      /\ conn' = Opened(k) /\ disk' = Put(conn[k].path, <<>>)
      /\ UNCHANGED <<source, edits, stops, faults, clientVars, up>> /\ Types
  BY DEF CreateFile, At, Truncated, BackupInv
<1>. DEFINE Mate(j) == j # k /\ conn[j].path = conn[k].path
<1>. DEFINE AtWork == {i \in Mates(k) : conn[i].pc = "data"}
<1>2. ASSUME NEW j \in DOMAIN conn
      PROVE  /\ j = k => conn'[j] = [conn[k] EXCEPT !.pc = "data", !.rivals = AtWork]
             /\ j # k => IF Mate(j) /\ conn[j].pc # "header"
                            THEN conn'[j] = [conn[j] EXCEPT !.rivals = conn[j].rivals \cup {k}]
                            ELSE conn'[j] = conn[j]
  <2>1. conn[j].pc \in {"header", "data", "done"}  BY <1>1, ConnectionType DEF TaskPcs
  <2>. QED  BY <1>1, <2>1 DEF Opened, Mates
<1>3. ASSUME NEW j \in DOMAIN conn
      PROVE  /\ conn[j] \in Connection /\ conn'[j] \in Connection
             /\ SentSame(conn'[j], conn[j]) /\ conn'[j].pos = conn[j].pos
             /\ conn'[j].result = conn[j].result
             /\ conn'[j].pc = IF j = k THEN "data" ELSE conn[j].pc
             /\ conn'[j].rivals =
                    IF j = k THEN AtWork
                    ELSE IF Mate(j) /\ conn[j].pc # "header" THEN conn[j].rivals \cup {k}
                    ELSE conn[j].rivals
  <2>1. conn[j] \in Connection /\ conn[k] \in Connection  BY <1>1, ConnectionType
  <2>2. AtWork \in SUBSET Nat /\ conn[j].rivals \cup {k} \in SUBSET Nat
    BY <1>1, ConnectionType DEF Mates
  <2>. HIDE DEF AtWork
  <2>3. CASE j = k
    <3>1. PICK R \in SUBSET Nat : R = AtWork  BY <2>2
    <3>2. conn'[k] = [conn[k] EXCEPT !.pc = "data", !.rivals = R]  BY <1>1, <1>2, <3>1
    <3>3. /\ conn'[k] \in Connection /\ SentSame(conn'[k], conn[k])
          /\ conn'[k].pos = conn[k].pos /\ conn'[k].result = conn[k].result
          /\ conn'[k].pc = "data" /\ conn'[k].rivals = R
      BY <2>1, <3>2 DEF Connection, TaskPcs, SentSame
    <3>. QED  BY <2>1, <2>3, <3>1, <3>3
  <2>4. CASE j # k /\ Mate(j) /\ conn[j].pc # "header"
    <3>1. PICK R \in SUBSET Nat : R = conn[j].rivals \cup {k}  BY <2>2
    <3>2. conn'[j] = [conn[j] EXCEPT !.rivals = R]  BY <1>2, <2>4, <3>1
    <3>3. /\ conn'[j] \in Connection /\ SentSame(conn'[j], conn[j])
          /\ conn'[j].pos = conn[j].pos /\ conn'[j].result = conn[j].result
          /\ conn'[j].pc = conn[j].pc /\ conn'[j].rivals = R
      BY <2>1, <3>2 DEF Connection, SentSame
    <3>. QED  BY <2>1, <2>4, <3>1, <3>3
  <2>5. CASE j # k /\ ~(Mate(j) /\ conn[j].pc # "header")
    BY <1>2, <2>1, <2>5 DEF SentSame
  <2>. QED  BY <2>3, <2>4, <2>5
<1>4. DOMAIN conn' = DOMAIN conn /\ conn' \in Seq(Connection)
  <2>1. DOMAIN conn' = DOMAIN conn /\ conn' = [j \in DOMAIN conn |-> conn'[j]]
    BY <1>1 DEF Opened
  <2>2. conn \in Seq(Connection)  BY <1>1 DEF Types
  <2>. QED  BY <1>3, <2>1, <2>2, SequenceOf
<1>5. /\ DOMAIN disk' = DOMAIN disk \cup {conn[k].path}
      /\ disk'[conn[k].path] = <<>>
      /\ \A p \in DOMAIN disk \ {conn[k].path} : disk'[p] = disk[p]
  BY <1>1 DEF Put
<1>6. Types'
  <2>1. <<>> \in Seq(Units)  OBVIOUS
  <2>2. \A p \in DOMAIN disk' : disk'[p] \in Seq(Units)  BY <1>1, <1>5, <2>1 DEF Types
  <2>. QED  BY <1>1, <1>4, <2>2 DEF Types, clientVars
<1>7. KeepsSent  BY <1>1, <1>3, <1>4 DEF KeepsSent
<1>8. RunsInv' /\ Unchanged'  BY <1>7, RunsInvKept DEF BackupInv
<1>9. ASSUME NEW j \in DOMAIN conn PROVE ConnectionInv(conn[j])'
  <2>1. ConnectionInv(conn[j])  BY DEF BackupInv, Connections
  <2>2. /\ SentSame(conn'[j], conn[j]) /\ conn'[j].pos = conn[j].pos
        /\ conn'[j].result = conn[j].result
        /\ conn'[j].pc = IF j = k THEN "data" ELSE conn[j].pc
    BY <1>3
  <2>3. CASE j = k
    BY <1>1, <2>1, <2>2, <2>3 DEF ConnectionInv, HeaderFirst, InStream, InOrder, OkIsComplete,
       EndsForAReason, AllSent, Ends, SentSame
  <2>4. CASE j # k
    BY <1>1, <2>1, <2>2, <2>4 DEF ConnectionInv, HeaderFirst, InStream, InOrder, OkIsComplete,
       EndsForAReason, AllSent, Ends, SentSame
  <2>. QED  BY <2>3, <2>4
<1>10. Connections'  BY <1>4, <1>9 DEF Connections
<1>11. ASSUME NEW j \in DOMAIN conn, j # k PROVE Wrote(conn[j])' <=> Wrote(conn[j])
  BY <1>1, <1>3, <1>11 DEF Wrote, SentSame
<1>12. ASSUME NEW j \in DOMAIN conn, Wrote(conn[j]) PROVE conn[j].pc # "header"
  <2>1. HeaderFirst(conn[j])  BY DEF BackupInv, Connections, ConnectionInv
  <2>. QED  BY <1>12, <2>1 DEF Wrote, HeaderFirst
<1>13. ASSUME NEW j \in DOMAIN conn
       PROVE  /\ conn'[j].rivals \subseteq DOMAIN conn \ {j}
              /\ j # k => conn[j].rivals \subseteq conn'[j].rivals
              /\ Mate(j) /\ Wrote(conn[j]) => k \in conn'[j].rivals
              /\ Mate(j) /\ conn[j].pc = "data" => j \in conn'[k].rivals
  <2>1. conn[j].rivals \subseteq DOMAIN conn \ {j}  BY DEF BackupInv, Rivalry
  <2>2. conn'[k].rivals = AtWork  BY <1>1, <1>3
  <2>3. conn'[j].rivals \subseteq DOMAIN conn \ {j}
    <3>1. CASE j = k
      <4>1. Mates(k) \subseteq DOMAIN conn \ {k}  BY DEF Mates
      <4>. QED  BY <2>2, <3>1, <4>1
    <3>2. CASE j # k
      <4>1. conn'[j].rivals \subseteq conn[j].rivals \cup {k}  BY <1>3, <3>2
      <4>. QED  BY <1>1, <2>1, <3>2, <4>1
    <3>. QED  BY <3>1, <3>2
  <2>. QED  BY <1>3, <1>12, <2>2, <2>3 DEF Mates
<1>14. Rivalry'
  <2>. SUFFICES ASSUME NEW i \in DOMAIN conn, NEW j \in DOMAIN conn, i # j,
                       conn'[i].path = conn'[j].path, conn'[i].pc = "data", Wrote(conn[j])'
                PROVE  i \in conn'[j].rivals
    BY <1>4, <1>13 DEF Rivalry
  <2>1. conn[i].path = conn[j].path  BY <1>3 DEF SentSame
  <2>2. CASE i = k  BY <1>11, <1>13, <2>1, <2>2
  <2>3. CASE j = k  BY <1>3, <1>13, <2>1, <2>3
  <2>4. CASE i # k /\ j # k
    BY <1>3, <1>11, <1>13, <2>1, <2>4 DEF Rivalry, BackupInv
  <2>. QED  BY <2>2, <2>3, <2>4
<1>15. WrittenOut'
  <2>. SUFFICES ASSUME NEW j \in DOMAIN conn, Wrote(conn[j])'
                PROVE  /\ conn'[j].path \in DOMAIN disk'
                       /\ conn'[j].rivals = {} =>
                            disk'[conn'[j].path] = SubSeq(conn'[j].stream, 1, conn'[j].pos)
    BY <1>4 DEF WrittenOut
  <2>1. SentSame(conn'[j], conn[j]) /\ conn'[j].pos = conn[j].pos  BY <1>3
  <2>2. CASE j = k
    <3>1. conn[k].pos = 0  BY <1>1 DEF BackupInv, Connections, ConnectionInv, HeaderFirst
    <3>2. SubSeq(conn[k].stream, 1, 0) = <<>>  OBVIOUS
    <3>. QED  BY <1>5, <2>1, <2>2, <3>1, <3>2 DEF SentSame
  <2>3. CASE j # k
    <3>1. Wrote(conn[j])  BY <1>11, <2>3
    <3>2. /\ conn[j].path \in DOMAIN disk
          /\ conn[j].rivals = {} => disk[conn[j].path] = SubSeq(conn[j].stream, 1, conn[j].pos)
      BY <3>1 DEF BackupInv, WrittenOut
    <3>3. CASE Mate(j)
      <4>1. conn'[j].rivals # {}  BY <1>13, <3>1, <3>3
      <4>. QED  BY <1>5, <2>1, <3>2, <4>1 DEF SentSame
    <3>4. CASE ~Mate(j)
      <4>1. conn[j].path # conn[k].path  BY <2>3, <3>4
      <4>2. disk'[conn[j].path] = disk[conn[j].path] /\ conn[j].path \in DOMAIN disk'
        BY <1>5, <3>2, <4>1
      <4>3. conn'[j].rivals = {} => conn[j].rivals = {}  BY <1>13, <2>3
      <4>. QED  BY <2>1, <3>2, <4>2, <4>3 DEF SentSame
    <3>. QED  BY <3>3, <3>4
  <2>. QED  BY <2>2, <2>3
<1>. QED  BY <1>6, <1>8, <1>10, <1>14, <1>15 DEF BackupInv

\* What a write leaves of a file.
LEMMA OverwrittenType ==
    ASSUME NEW f \in Seq(Units), NEW n \in Nat \ {0}, NEW u \in Units
    PROVE  Overwritten(f, n, u) \in Seq(Units)
<1>1. Hole \in Units  BY BoundsAssumption DEF Hole, Units
<1>2. PICK N \in Nat : N = IF Len(f) < n THEN n ELSE Len(f)  OBVIOUS
<1>3. \A i \in 1 .. Len(f) : f[i] \in Units  OBVIOUS
<1>. HIDE DEF Units
<1>4. Overwritten(f, n, u) = [i \in 1 .. N |->
        IF i = n THEN u ELSE IF i <= Len(f) THEN f[i] ELSE Hole]
  BY <1>2 DEF Overwritten
<1>5. [i \in 1 .. N |-> IF i = n THEN u ELSE IF i <= Len(f) THEN f[i] ELSE Hole]
        \in [1 .. N -> Units]
  BY <1>1, <1>2, <1>3
<1>. QED  BY <1>2, <1>4, <1>5

LEMMA OverwrittenNext ==
    ASSUME NEW s \in Seq(Units), NEW n \in Nat, n < Len(s)
    PROVE  Overwritten(SubSeq(s, 1, n), n + 1, s[n + 1]) = SubSeq(s, 1, n + 1)
<1>. HIDE DEF Units
<1>1. PICK f : f = SubSeq(s, 1, n)  OBVIOUS
<1>2. Len(f) = n /\ \A i \in 1 .. n : f[i] = s[i]  BY <1>1
<1>3. Overwritten(f, n + 1, s[n + 1]) =
        [i \in 1 .. n + 1 |-> IF i = n + 1 THEN s[n + 1] ELSE IF i <= n THEN f[i] ELSE Hole]
  BY <1>2 DEF Overwritten
<1>4. SubSeq(s, 1, n + 1) = [i \in 1 .. n + 1 |-> s[i]]
  <2>1. n + 1 \in Nat /\ n + 1 <= Len(s)  OBVIOUS
  <2>2. Len(SubSeq(s, 1, n + 1)) = n + 1 /\ SubSeq(s, 1, n + 1) \in Seq(Units)  BY <2>1
  <2>3. \A i \in 1 .. n + 1 : SubSeq(s, 1, n + 1)[i] = s[i]  BY <2>1
  <2>. QED  BY <2>2, <2>3
<1>. QED  BY <1>1, <1>2, <1>3, <1>4

LEMMA WriteDataPreserves ==
    ASSUME BackupInv, NEW k, WriteData(k)
    PROVE  BackupInv'
<1>1. /\ k \in DOMAIN conn /\ conn[k].pc = "data"
      /\ conn[k].pos < conn[k].declared /\ conn[k].pos < Len(conn[k].stream)
      /\ conn' = [conn EXCEPT ![k].pos = @ + 1]
      /\ UNCHANGED <<source, edits, stops, faults, clientVars, up>> /\ Types
  BY DEF WriteData, At, BackupInv
<1>. DEFINE p == conn[k].path
<1>2. disk' = Put(p, Overwritten(disk[p], conn[k].pos + 1, conn[k].stream[conn[k].pos + 1]))
  BY DEF WriteData, WritePos
<1>3. /\ conn[k] \in Connection /\ conn[k].pos \in Nat /\ conn[k].stream \in Seq(Units)
      /\ conn[k].declared \in Nat
  BY <1>1, ConnectionType
<1>. DEFINE m == [conn[k] EXCEPT !.pos = @ + 1]
<1>4. m \in Connection /\ SentSame(m, conn[k]) /\ m.pos = conn[k].pos + 1 /\ m.pc = conn[k].pc
      /\ m.result = conn[k].result /\ m.rivals = conn[k].rivals
  BY <1>3 DEF Connection, SentSame
<1>5. conn' \in Seq(Connection) /\ Replaced(k, m)
  <2>1. conn \in Seq(Connection)  BY <1>1 DEF Types
  <2>2. conn' = [conn EXCEPT ![k] = m]  BY <1>1, <2>1
  <2>. QED  BY <1>1, <1>4, <2>1, <2>2, ReplaceOne
<1>6. ASSUME NEW j \in DOMAIN conn
      PROVE  /\ SentSame(conn'[j], conn[j]) /\ conn'[j].pc = conn[j].pc
             /\ conn'[j].result = conn[j].result /\ conn'[j].rivals = conn[j].rivals
             /\ conn'[j].pos = IF j = k THEN conn[k].pos + 1 ELSE conn[j].pos
  BY <1>4, <1>5 DEF Replaced, SentSame
<1>7. DOMAIN conn' = DOMAIN conn  BY <1>5 DEF Replaced
<1>. HIDE DEF m
<1>8. p \in DOMAIN disk
  BY <1>1 DEF BackupInv, WrittenOut, Wrote
<1>9. DOMAIN disk' = DOMAIN disk /\ (\A q \in DOMAIN disk \ {p} : disk'[q] = disk[q])
      /\ disk'[p] = Overwritten(disk[p], conn[k].pos + 1, conn[k].stream[conn[k].pos + 1])
  BY <1>2, <1>8 DEF Put
<1>10. Types'
  <2>1. disk[p] \in Seq(Units)  BY <1>1, <1>8 DEF Types
  <2>2. conn[k].pos + 1 \in Nat \ {0} /\ conn[k].stream[conn[k].pos + 1] \in Units
    <3>1. conn[k].pos + 1 \in 1 .. Len(conn[k].stream)  BY <1>1, <1>3
    <3>. QED  BY <1>3, <3>1
  <2>3. disk'[p] \in Seq(Units)  BY <1>9, <2>1, <2>2, OverwrittenType
  <2>4. \A q \in DOMAIN disk' : disk'[q] \in Seq(Units)  BY <1>1, <1>9, <2>3 DEF Types
  <2>. QED  BY <1>1, <1>5, <2>4 DEF Types, clientVars
<1>11. KeepsSent  BY <1>1, <1>6, <1>7 DEF KeepsSent
<1>12. RunsInv' /\ Unchanged'  BY <1>11, RunsInvKept DEF BackupInv
<1>13. ASSUME NEW j \in DOMAIN conn PROVE ConnectionInv(conn[j])'
  <2>1. ConnectionInv(conn[j])  BY DEF BackupInv, Connections
  <2>2. CASE j = k
    <3>1. SentSame(conn'[k], conn[k]) /\ conn'[k].pos = conn[k].pos + 1
          /\ conn'[k].pc = "data" /\ conn'[k].result = conn[k].result
      BY <1>1, <1>6
    <3>2. InStream(conn[k])'  BY <1>1, <1>3, <3>1 DEF InStream, SentSame
    <3>3. HeaderFirst(conn[k])' /\ EndsForAReason(conn[k])' /\ OkIsComplete(conn[k])'
      BY <1>1, <2>1, <2>2, <3>1 DEF ConnectionInv, HeaderFirst, EndsForAReason, OkIsComplete,
         SentSame
    <3>4. InOrder(conn[k])' /\ AllSent(conn[k])'
      BY <1>1, <2>1, <2>2, <3>1 DEF ConnectionInv, InOrder, AllSent, Ends, SentSame
    <3>. QED  BY <2>2, <3>2, <3>3, <3>4 DEF ConnectionInv
  <2>3. CASE j # k
    BY <1>1, <1>6, <2>1, <2>3 DEF ConnectionInv, HeaderFirst, InStream, InOrder, OkIsComplete,
       EndsForAReason, AllSent, Ends, SentSame
  <2>. QED  BY <2>2, <2>3
<1>14. Connections'  BY <1>7, <1>13 DEF Connections
<1>15. ASSUME NEW j \in DOMAIN conn, Wrote(conn[j])' PROVE Wrote(conn[j])
  BY <1>1, <1>6, <1>15 DEF Wrote, SentSame
<1>16. Rivalry'  BY <1>6, <1>7, <1>15 DEF Rivalry, BackupInv, SentSame
<1>17. WrittenOut'
  <2>. SUFFICES ASSUME NEW j \in DOMAIN conn, Wrote(conn[j])'
                PROVE  /\ conn'[j].path \in DOMAIN disk'
                       /\ conn'[j].rivals = {} =>
                            disk'[conn'[j].path] = SubSeq(conn'[j].stream, 1, conn'[j].pos)
    BY <1>7 DEF WrittenOut
  <2>1. /\ conn[j].path \in DOMAIN disk
        /\ conn[j].rivals = {} => disk[conn[j].path] = SubSeq(conn[j].stream, 1, conn[j].pos)
    BY <1>15 DEF BackupInv, WrittenOut
  <2>2. CASE j = k
    <3>1. conn[k].rivals = {} => disk'[p] = SubSeq(conn[k].stream, 1, conn[k].pos + 1)
      BY <1>1, <1>3, <1>9, <2>1, <2>2, OverwrittenNext
    <3>. QED  BY <1>6, <1>9, <2>1, <2>2, <3>1 DEF SentSame
  <2>3. CASE j # k /\ conn[j].path = p
    <3>1. k \in conn[j].rivals  BY <1>1, <1>15, <2>3 DEF BackupInv, Rivalry
    <3>. QED  BY <1>6, <1>9, <2>1, <2>3, <3>1 DEF SentSame
  <2>4. CASE j # k /\ conn[j].path # p
    BY <1>6, <1>9, <2>1, <2>4 DEF SentSame
  <2>. QED  BY <2>2, <2>3, <2>4
<1>. QED  BY <1>10, <1>12, <1>14, <1>16, <1>17 DEF BackupInv

LEMMA StutterPreserves ==
    ASSUME BackupInv, UNCHANGED <<source, edits, stops, faults, clientVars, conn, disk>>,
           up' \in BOOLEAN
    PROVE  BackupInv'
<1>1. Types'  BY DEF BackupInv, Types, clientVars
<1>2. KeepsSent  BY DEF KeepsSent, SentSame
<1>3. RunsInv' /\ Unchanged'  BY <1>2, RunsInvKept DEF BackupInv
<1>4. Connections'  BY DEF BackupInv, Connections, ConnectionInv, HeaderFirst, InStream, InOrder,
                        OkIsComplete, EndsForAReason, AllSent
<1>5. Rivalry' /\ WrittenOut'  BY DEF BackupInv, Rivalry, WrittenOut, Wrote
<1>. QED  BY <1>1, <1>3, <1>4, <1>5 DEF BackupInv

(***************************************************************************)
(* The steps of a run.  They change its current connection, and nothing    *)
(* that a task has done.                                                   *)
(***************************************************************************)
TaskSame(m, n) ==
    /\ m.run = n.run /\ m.path = n.path /\ m.pc = n.pc /\ m.pos = n.pos
    /\ m.rivals = n.rivals /\ m.result = n.result

\* Only run r moves.
OnlyRun(r) ==
    /\ client' \in [Runs -> ClientPcs] /\ todo' \in [Runs -> SUBSET Paths] /\ read' \in [Runs -> Nat]
    /\ \A q \in Runs \ {r} : client'[q] = client[q] /\ todo'[q] = todo[q] /\ read'[q] = read[q]

\* The other runs do not notice.
LEMMA OtherRunsKept ==
    ASSUME RunsInv, NEW r \in Runs, NEW c \in MadeBy(r), NEW m, Replaced(c, m),
           m.run = conn[c].run, OnlyRun(r), edits' = edits,
           NEW q \in Runs, q # r
    PROVE  (Active(q)' => Sends(q)') /\ Covers(q)' /\ Starts(q)'
<1>1. KeepsRuns  BY DEF KeepsRuns, Replaced, MadeBy
<1>2. MadeBy(q)' = MadeBy(q) /\ Current(q)' = Current(q)  BY <1>1, CurrentKept
<1>3. client'[q] = client[q] /\ todo'[q] = todo[q] /\ read'[q] = read[q]  BY DEF OnlyRun
<1>4. \A k \in MadeBy(q) : conn'[k] = conn[k]  BY DEF MadeBy, Replaced
<1>5. Active(q)' <=> Active(q)  BY <1>3 DEF Active
<1>6. ASSUME Active(q) PROVE Sends(q)'
  <2>1. Sends(q)  BY <1>6 DEF RunsInv
  <2>2. PICK i : i = Current(q)  OBVIOUS
  <2>3. i \in MadeBy(q) /\ conn'[i] = conn[i] /\ Sending(q, conn[i])  BY <1>4, <2>1, <2>2 DEF Sends
  <2>4. Sending(q, conn[i])'  BY <1>3, <2>3 DEF Sending, Ends
  <2>. QED  BY <1>2, <2>2, <2>3, <2>4 DEF Sends
<1>7. Covers(q) /\ Starts(q)  BY DEF RunsInv
<1>8. Covers(q)'  BY <1>2, <1>3, <1>4, <1>5, <1>7 DEF Covers, Ends
<1>9. Starts(q)'  BY <1>3, <1>7 DEF Starts
<1>. QED  BY <1>5, <1>6, <1>8, <1>9

LEMMA RunStepPreserves ==
    ASSUME BackupInv, NEW r \in Runs, Active(r), NEW m \in Connection,
           Replaced(Current(r), m), conn' \in Seq(Connection), TaskSame(m, conn[Current(r)]),
           SubSeq(m.stream, 1, m.pos) = SubSeq(conn[Current(r)].stream, 1, m.pos),
           UNCHANGED <<source, edits, stops, faults, up, disk>>, OnlyRun(r),
           ConnectionInv(m), Wrote(m) => Wrote(conn[Current(r)]),
           Active(r)' => Sending(r, m)', Starts(r)',
           client'[r] \notin {"panicked", "killed"} =>
             /\ todo'[r] = todo[r] /\ client'[r] # "finished"
             /\ Active(r)' \/ (edits = 0 => Length[m.path] > MaxLength \/ Ends(m))
    PROVE  BackupInv'
<1>1. PICK c : c = Current(r)  OBVIOUS
<1>2. c \in MadeBy(r) /\ c \in DOMAIN conn /\ m.run = conn[c].run
  BY <1>1 DEF BackupInv, RunsInv, Sends, MadeBy, TaskSame
<1>3. Replaced(c, m) /\ DOMAIN conn' = DOMAIN conn /\ conn'[c] = m  BY <1>1 DEF Replaced
<1>4. KeepsRuns  BY <1>2, <1>3 DEF KeepsRuns, Replaced
<1>5. Types'  BY DEF BackupInv, Types, OnlyRun
<1>6. Unchanged'  BY DEF BackupInv, Unchanged
<1>7. ASSUME NEW j \in DOMAIN conn
      PROVE  /\ ConnectionInv(conn[j])' /\ TaskSame(conn'[j], conn[j])
             /\ SubSeq(conn'[j].stream, 1, conn'[j].pos) = SubSeq(conn[j].stream, 1, conn[j].pos)
             /\ Wrote(conn[j])' => Wrote(conn[j])
  <2>1. CASE j = c
    <3>1. ConnectionInv(conn[c])' /\ (Wrote(conn[c])' => Wrote(m))
      BY <1>3 DEF ConnectionInv, HeaderFirst, InStream, InOrder, OkIsComplete, EndsForAReason,
         AllSent, Ends, Wrote
    <3>. QED  BY <1>1, <1>3, <2>1, <3>1 DEF TaskSame
  <2>2. CASE j # c
    <3>1. conn'[j] = conn[j] /\ ConnectionInv(conn[j])
      BY <1>3, <2>2 DEF Replaced, BackupInv, Connections
    <3>. QED  BY <3>1 DEF ConnectionInv, HeaderFirst, InStream, InOrder, OkIsComplete,
           EndsForAReason, AllSent, Ends, Wrote, TaskSame
  <2>. QED  BY <2>1, <2>2
<1>8. Connections'  BY <1>3, <1>7 DEF Connections
<1>9. Rivalry'  BY <1>3, <1>7 DEF Rivalry, BackupInv, TaskSame
<1>10. WrittenOut'  BY <1>3, <1>7 DEF WrittenOut, BackupInv, TaskSame
<1>11. MadeBy(r)' = MadeBy(r) /\ Current(r)' = c  BY <1>1, <1>4, CurrentKept
<1>12. Active(r)' => Sends(r)'
  <2>1. Active(r)' => Sending(r, conn[c])'
    BY <1>3 DEF Sending, Ends
  <2>. QED  BY <1>2, <1>11, <2>1 DEF Sends
<1>13. Covers(r)'
  <2>. SUFFICES ASSUME client'[r] \notin {"panicked", "killed"} PROVE Covers(r)'
    BY DEF Covers
  <2>1. Covers(r) /\ client[r] \notin {"panicked", "killed"}
    BY DEF BackupInv, RunsInv, Active
  <2>2. \A k \in MadeBy(r) : conn'[k].path = conn[k].path /\ (k # c => conn'[k] = conn[k])
    BY <1>3, <1>7 DEF Replaced, TaskSame, MadeBy
  <2>3. \A p \in Tree[r] : p \in todo'[r] \/ \E k \in MadeBy(r) : conn'[k].path = p
    BY <2>1, <2>2 DEF Covers
  <2>4. ASSUME NEW k \in MadeBy(r)
        PROVE  (Active(r)' /\ k = c) \/ (edits = 0 => Length[conn'[k].path] > MaxLength \/ Ends(conn[k])')
    <3>1. CASE k = c  BY <1>3, <3>1 DEF Ends
    <3>2. CASE k # c
      <4>1. edits = 0 => Length[conn[k].path] > MaxLength \/ Ends(conn[k])
        BY <1>1, <2>1, <3>2 DEF Covers
      <4>. QED  BY <2>2, <3>2, <4>1 DEF Ends
    <3>. QED  BY <3>1, <3>2
  <2>. QED  BY <1>11, <2>3, <2>4 DEF Covers
<1>14. RunsInv'
  <2>1. ASSUME NEW q \in Runs, q # r
        PROVE  (Active(q)' => Sends(q)') /\ Covers(q)' /\ Starts(q)'
    BY <1>2, <1>3, <2>1, OtherRunsKept DEF BackupInv
  <2>. QED  BY <1>12, <1>13, <2>1 DEF RunsInv
<1>. QED  BY <1>5, <1>6, <1>8, <1>9, <1>10, <1>14 DEF BackupInv

\* What is known of a run at work, its connection and its file.
LEMMA ActiveRun ==
    ASSUME BackupInv, NEW r \in Runs, Active(r)
    PROVE  /\ Types /\ Current(r) \in DOMAIN conn /\ conn \in Seq(Connection)
           /\ conn[Current(r)] \in Connection /\ conn[Current(r)].run = r
           /\ Sending(r, conn[Current(r)]) /\ ConnectionInv(conn[Current(r)])
           /\ read[r] \in Nat /\ Starts(r)
           /\ File(r) \in [version : 0 .. MaxTrouble + 1, length : Nat]
           /\ edits = 0 => File(r).version = 1 /\ File(r).length = Length[conn[Current(r)].path]
<1>1. Sends(r) /\ Types  BY DEF BackupInv, RunsInv
<1>2. PICK c : c = Current(r)  OBVIOUS
<1>3. c \in DOMAIN conn /\ conn[c].run = r /\ Sending(r, conn[c])
  BY <1>1, <1>2 DEF Sends, MadeBy
<1>4. conn[c] \in Connection /\ conn \in Seq(Connection)  BY <1>1, <1>3, ConnectionType DEF Types
<1>5. ConnectionInv(conn[c])  BY <1>3 DEF BackupInv, Connections
<1>6. Host[r] \in Hosts /\ conn[c].path \in Paths  BY <1>4 DEF Hosts, Connection
<1>7. File(r) = source[Host[r]][conn[c].path]  BY <1>2 DEF File
<1>8. File(r) \in [version : 0 .. MaxTrouble + 1, length : Nat]
  BY <1>1, <1>6, <1>7 DEF Types
<1>9. edits = 0 => File(r).version = 1 /\ File(r).length = Length[conn[c].path]
  <2>. SUFFICES ASSUME edits = 0
                PROVE  File(r).version = 1 /\ File(r).length = Length[conn[c].path]
    OBVIOUS
  <2>1. source[Host[r]][conn[c].path] = [version |-> 1, length |-> Length[conn[c].path]]
    BY <1>6 DEF BackupInv, Unchanged
  <2>. QED  BY <1>7, <2>1
<1>10. read[r] \in Nat /\ Starts(r)  BY <1>1 DEF Types, BackupInv, RunsInv
<1>. QED  BY <1>1, <1>2, <1>3, <1>4, <1>5, <1>8, <1>9, <1>10

\* A task that has ended without a failure had a reason, and an open stream
\* leaves one only.
LEMMA OpenEnd ==
    ASSUME BackupInv, NEW r \in Runs, Active(r), conn[Current(r)].pc = "done", faults + stops = 0
    PROVE  conn[Current(r)].header /\ conn[Current(r)].pos = conn[Current(r)].declared
BY ActiveRun DEF Sending, ConnectionInv, EndsForAReason

LEMMA HangupReplaces ==
    ASSUME Types, NEW r, Current(r) \in DOMAIN conn, conn' = Hangup(r)
    PROVE  /\ conn' \in Seq(Connection)
           /\ \E m \in Connection :
                /\ Replaced(Current(r), m) /\ TaskSame(m, conn[Current(r)])
                /\ m.declared = conn[Current(r)].declared /\ m.header = conn[Current(r)].header
                /\ m.stream = conn[Current(r)].stream /\ m.open = FALSE
<1>1. PICK c : c = Current(r)  OBVIOUS
<1>2. conn \in Seq(Connection) /\ conn[c] \in Connection  BY <1>1, ConnectionType DEF Types
<1>. DEFINE m == [conn[c] EXCEPT !.open = FALSE]
<1>3. m \in Connection  BY <1>2 DEF Connection
<1>4. conn' = [conn EXCEPT ![c] = m]  BY <1>1, <1>2 DEF Hangup
<1>5. conn' \in Seq(Connection) /\ Replaced(c, m)  BY <1>1, <1>2, <1>3, <1>4, ReplaceOne
<1>6. /\ TaskSame(m, conn[c]) /\ m.declared = conn[c].declared /\ m.header = conn[c].header
      /\ m.stream = conn[c].stream /\ m.open = FALSE
  BY <1>2 DEF TaskSame, Connection
<1>. QED  BY <1>1, <1>3, <1>5, <1>6

\* A run panics or is interrupted while it has a connection.
LEMMA OverPreserves ==
    ASSUME BackupInv, NEW r \in Runs, Active(r), NEW how \in {"panicked", "killed"},
           Over(r, how), conn' = Hangup(r), UNCHANGED <<source, edits, stops, faults, up, disk>>
    PROVE  BackupInv'
<1>. PICK c : c = Current(r)  OBVIOUS
<1>1. /\ Types /\ c \in DOMAIN conn /\ conn[c] \in Connection /\ Sending(r, conn[c])
      /\ ConnectionInv(conn[c])
  BY ActiveRun
<1>2. conn' \in Seq(Connection)  BY <1>1, HangupReplaces
<1>3. PICK m \in Connection :
        /\ Replaced(c, m) /\ TaskSame(m, conn[c])
        /\ m.declared = conn[c].declared /\ m.header = conn[c].header
        /\ m.stream = conn[c].stream /\ m.open = FALSE
  BY <1>1, HangupReplaces
<1>4. ConnectionInv(m)
  BY <1>1, <1>3 DEF TaskSame, Sending, ConnectionInv, HeaderFirst, InStream, InOrder, OkIsComplete,
     EndsForAReason, AllSent, Ends
<1>5. OnlyRun(r)  BY <1>1 DEF OnlyRun, Types, Over, Goto, ClientPcs
<1>6. client'[r] = how /\ Starts(r)'  BY <1>1 DEF Types, Over, Goto, Starts
<1>7. ~Active(r)'  BY <1>6 DEF Active
<1>8. Wrote(m) => Wrote(conn[c])  BY <1>3 DEF Wrote, TaskSame
<1>9. SubSeq(m.stream, 1, m.pos) = SubSeq(conn[c].stream, 1, m.pos)  BY <1>3
<1>. QED  BY <1>2, <1>3, <1>4, <1>5, <1>6, <1>7, <1>8, <1>9, RunStepPreserves

LEMMA MeasurePreserves ==
    ASSUME BackupInv, NEW r \in Runs, Measure(r)
    PROVE  BackupInv'
<1>. PICK c : c = Current(r)  OBVIOUS
<1>1. Active(r) /\ client[r] = "connected"  BY DEF Measure, Active
<1>2. /\ Types /\ c \in DOMAIN conn /\ conn[c] \in Connection /\ conn \in Seq(Connection)
      /\ Sending(r, conn[c]) /\ ConnectionInv(conn[c]) /\ Starts(r)
      /\ File(r) \in [version : 0 .. MaxTrouble + 1, length : Nat]
      /\ edits = 0 => File(r).length = Length[conn[c].path]
  BY <1>1, ActiveRun
<1>3. UNCHANGED <<source, edits, stops, faults, up, disk, todo, read>>  BY DEF Measure
<1>4. ~conn[c].header /\ conn[c].open /\ conn[c].stream = <<>> /\ conn[c].pos = 0
      /\ conn[c].result # "ok" /\ ~(conn[c].pc = "done" /\ faults + stops = 0)
      /\ (conn[c].result = "none" <=> conn[c].pc # "done")
  BY <1>1, <1>2, OpenEnd DEF Sending, ConnectionInv, HeaderFirst
<1>5. CASE TooLong(r) /\ Goto(r, "walk") /\ conn' = Hangup(r)
  <2>1. conn' \in Seq(Connection)  BY <1>2, <1>5, HangupReplaces
  <2>2. PICK m \in Connection :
          /\ Replaced(c, m) /\ TaskSame(m, conn[c])
          /\ m.declared = conn[c].declared /\ m.header = conn[c].header
          /\ m.stream = conn[c].stream /\ m.open = FALSE
    BY <1>2, <1>5, HangupReplaces
  <2>3. ConnectionInv(m)
    BY <1>2, <1>4, <2>2 DEF TaskSame, ConnectionInv, HeaderFirst, InStream, InOrder, OkIsComplete,
       EndsForAReason, AllSent, Ends
  <2>4. OnlyRun(r) /\ client'[r] = "walk" /\ Starts(r)'
    BY <1>1, <1>2, <1>3, <1>5 DEF OnlyRun, Types, Goto, ClientPcs, Starts
  <2>5. ~Active(r)'  BY <2>4 DEF Active
  <2>6. edits = 0 => Length[m.path] > MaxLength  BY <1>2, <1>5, <2>2 DEF TooLong, TaskSame
  <2>7. Wrote(m) => Wrote(conn[c])  BY <2>2 DEF Wrote, TaskSame
  <2>8. SubSeq(m.stream, 1, m.pos) = SubSeq(conn[c].stream, 1, m.pos)  BY <2>2
  <2>. QED  BY <1>1, <1>3, <2>1, <2>2, <2>3, <2>4, <2>5, <2>6, <2>7, <2>8, RunStepPreserves
<1>6. CASE ~TooLong(r) /\ Goto(r, "measured") /\ conn' = [conn EXCEPT ![c].declared = File(r).length]
  <2>. PICK n \in 0 .. MaxLength : n = File(r).length
    BY <1>2, <1>6, LengthsAssumption DEF TooLong
  <2>. PICK m : m = [conn[c] EXCEPT !.declared = n]  OBVIOUS
  <2>1. m \in Connection  BY <1>2 DEF Connection
  <2>2. conn' = [conn EXCEPT ![c] = m]  BY <1>2, <1>6
  <2>3. conn' \in Seq(Connection) /\ Replaced(c, m)  BY <1>2, <2>1, <2>2, ReplaceOne
  <2>4. /\ TaskSame(m, conn[c]) /\ m.declared = n /\ m.header = conn[c].header
        /\ m.stream = conn[c].stream /\ m.open = conn[c].open
    BY <1>2 DEF TaskSame, Connection
  <2>5. ConnectionInv(m)
    BY <1>2, <1>4, <2>4 DEF TaskSame, ConnectionInv, HeaderFirst, InStream, InOrder, OkIsComplete,
       EndsForAReason, AllSent, Ends
  <2>6. OnlyRun(r) /\ client'[r] = "measured" /\ Starts(r)'
    BY <1>1, <1>2, <1>3, <1>6 DEF OnlyRun, Types, Goto, ClientPcs, Starts
  <2>7. Active(r)'  BY <2>6 DEF Active
  <2>8. Sending(r, m)'  BY <1>2, <1>3, <1>4, <2>4, <2>6 DEF Sending, Ends, TaskSame
  <2>9. Wrote(m) => Wrote(conn[c])  BY <2>4 DEF Wrote, TaskSame
  <2>10. SubSeq(m.stream, 1, m.pos) = SubSeq(conn[c].stream, 1, m.pos)  BY <2>4
  <2>. QED  BY <1>1, <1>3, <2>1, <2>3, <2>4, <2>5, <2>6, <2>7, <2>8, <2>9, <2>10, RunStepPreserves
<1>. QED  BY <1>5, <1>6 DEF Measure

LEMMA UnitType ==
    ASSUME BackupInv, NEW r \in Runs, Active(r)
    PROVE  /\ Unit(r) \in Units /\ Unit(r) # Checksum
           /\ Unit(r).host = Host[r] /\ Unit(r).n = read[r] + 1
           /\ edits = 0 => Unit(r).version = 1
<1>1. /\ read[r] \in Nat /\ File(r) \in [version : 0 .. MaxTrouble + 1, length : Nat]
      /\ edits = 0 => File(r).version = 1
  BY ActiveRun
<1>2. Host[r] \in Hosts  BY DEF Hosts
<1>3. Unit(r) \in Units  BY <1>1, <1>2 DEF Unit, Units
<1>4. Unit(r).n # Checksum.n  BY <1>1 DEF Unit, Checksum
<1>. QED  BY <1>1, <1>3, <1>4 DEF Unit

LEMMA SendFirstPreserves ==
    ASSUME BackupInv, NEW r \in Runs, SendFirst(r)
    PROVE  BackupInv'
<1>. PICK c : c = Current(r)  OBVIOUS
<1>1. Active(r) /\ client[r] = "measured"  BY DEF SendFirst, Active
<1>2. /\ Types /\ c \in DOMAIN conn /\ conn[c] \in Connection /\ conn \in Seq(Connection)
      /\ Sending(r, conn[c]) /\ ConnectionInv(conn[c]) /\ read[r] = 0 /\ conn[c].run = r
      /\ File(r) \in [version : 0 .. MaxTrouble + 1, length : Nat]
      /\ edits = 0 => File(r).length = Length[conn[c].path]
  BY <1>1, ActiveRun DEF Starts
<1>3. UNCHANGED <<source, edits, stops, faults, up, disk, todo>>  BY DEF SendFirst
<1>4. ~conn[c].header /\ conn[c].open /\ conn[c].stream = <<>> /\ conn[c].pos = 0
      /\ conn[c].result # "ok" /\ ~(conn[c].pc = "done" /\ faults + stops = 0) /\ conn[c].pc # "data"
      /\ (conn[c].result = "none" <=> conn[c].pc # "done")
  BY <1>1, <1>2, OpenEnd DEF Sending, ConnectionInv, HeaderFirst
<1>5. PICK n \in {0, 1}, s \in Seq(Units) :
        /\ n <= File(r).length /\ s = IF n = 1 THEN <<Unit(r)>> ELSE <<>>
        /\ conn' = [conn EXCEPT ![c].header = TRUE, ![c].stream = s]
        /\ read' = [read EXCEPT ![r] = n] /\ Goto(r, "sending")
  <2>1. PICK n \in {0, 1} : n = IF File(r).length > 0 THEN 1 ELSE 0  OBVIOUS
  <2>2. n <= File(r).length  BY <1>2, <2>1
  <2>3. PICK s : s = IF n = 1 THEN <<Unit(r)>> ELSE <<>>  OBVIOUS
  <2>4. s \in Seq(Units)
    <3>1. Unit(r) \in Units  BY <1>1, UnitType
    <3>. HIDE DEF Units
    <3>2. <<Unit(r)>> \in Seq(Units) /\ <<>> \in Seq(Units)  BY <3>1
    <3>. QED  BY <2>3, <3>2
  <2>5. conn' = [conn EXCEPT ![c].header = TRUE, ![c].stream = s]
    BY <2>1, <2>3 DEF SendFirst
  <2>6. read' = [read EXCEPT ![r] = n] /\ Goto(r, "sending")  BY <2>1 DEF SendFirst
  <2>. QED  BY <2>2, <2>3, <2>4, <2>5, <2>6
<1>6. PICK m : m = [conn[c] EXCEPT !.header = TRUE, !.stream = s]  OBVIOUS
<1>7. m \in Connection  BY <1>2, <1>5, <1>6 DEF Connection
<1>8. conn' = [conn EXCEPT ![c] = m]  BY <1>2, <1>5, <1>6
<1>9. conn' \in Seq(Connection) /\ Replaced(c, m)  BY <1>2, <1>7, <1>8, ReplaceOne
<1>10. /\ TaskSame(m, conn[c]) /\ m.declared = conn[c].declared /\ m.header = TRUE
       /\ m.stream = s /\ m.open = conn[c].open
  BY <1>2, <1>6 DEF TaskSame, Connection
<1>11. /\ Len(s) = n /\ ~Ends(m) /\ InOrder(m)
       /\ edits = 0 => \A i \in 1 .. Len(s) : s[i].version = 1
  <2>1. /\ Unit(r) # Checksum /\ Unit(r).host = Host[r] /\ Unit(r).n = 1
        /\ edits = 0 => Unit(r).version = 1
    BY <1>1, <1>2, UnitType
  <2>2. CASE n = 0  BY <1>5, <1>10, <2>2 DEF Ends, InOrder
  <2>3. CASE n = 1
    <3>1. s = <<Unit(r)>> /\ Len(s) = 1 /\ s[1] = Unit(r)  BY <1>5, <2>3
    <3>. QED  BY <1>2, <1>10, <2>1, <2>3, <3>1 DEF Ends, InOrder, TaskSame
  <2>. QED  BY <2>2, <2>3
<1>12. ConnectionInv(m)
  <2>1. HeaderFirst(m)  BY <1>4, <1>10 DEF HeaderFirst, TaskSame
  <2>2. InStream(m)  BY <1>2, <1>4, <1>10, <1>11 DEF InStream, TaskSame, ConnectionInv
  <2>3. OkIsComplete(m) /\ EndsForAReason(m)  BY <1>4, <1>10 DEF OkIsComplete, EndsForAReason, TaskSame
  <2>4. AllSent(m)  BY <1>10, <1>11 DEF AllSent
  <2>. QED  BY <1>11, <2>1, <2>2, <2>3, <2>4 DEF ConnectionInv
<1>13. OnlyRun(r) /\ client'[r] = "sending" /\ read'[r] = n
  BY <1>2, <1>3, <1>5 DEF OnlyRun, Types, Goto, ClientPcs
<1>14. Active(r)' /\ Starts(r)'  BY <1>13 DEF Active, Starts
<1>15. Sending(r, m)'
  <2>1. edits = 0 => m.declared = Length[m.path] /\ n <= Length[m.path]
    BY <1>1, <1>2, <1>5, <1>10 DEF Sending, TaskSame
  <2>2. ~Ends(m)'  BY <1>11 DEF Ends
  <2>. QED  BY <1>3, <1>4, <1>10, <1>11, <1>13, <2>1, <2>2 DEF Sending
<1>16. Wrote(m) => Wrote(conn[c])  BY <1>4, <1>10 DEF Wrote, TaskSame
<1>17. SubSeq(m.stream, 1, m.pos) = SubSeq(conn[c].stream, 1, m.pos)
  <2>1. m.pos = 0  BY <1>4, <1>10 DEF TaskSame
  <2>. QED  BY <2>1
<1>. QED  BY <1>1, <1>3, <1>7, <1>9, <1>10, <1>12, <1>13, <1>14, <1>15, <1>16, <1>17, RunStepPreserves

LEMMA AppendKeeps ==
    ASSUME NEW s \in Seq(Units), NEW u \in Units, NEW n \in Nat, n <= Len(s)
    PROVE  /\ Append(s, u) \in Seq(Units) /\ Len(Append(s, u)) = Len(s) + 1
           /\ Append(s, u)[Len(s) + 1] = u
           /\ \A i \in 1 .. Len(s) : Append(s, u)[i] = s[i]
           /\ SubSeq(Append(s, u), 1, n) = SubSeq(s, 1, n)
<1>. HIDE DEF Units
<1>1. PICK t : t = Append(s, u)  OBVIOUS
<1>2. t \in Seq(Units) /\ Len(t) = Len(s) + 1 /\ t[Len(s) + 1] = u
      /\ \A i \in 1 .. Len(s) : t[i] = s[i]
  BY <1>1
<1>3. /\ SubSeq(t, 1, n) = [i \in 1 .. n |-> t[i]]
      /\ SubSeq(s, 1, n) = [i \in 1 .. n |-> s[i]]
  BY <1>2
<1>4. \A i \in 1 .. n : t[i] = s[i]  BY <1>2
<1>. QED  BY <1>1, <1>2, <1>3, <1>4

\* As long as a run sends, there is no checksum in its stream.
LEMMA SentInOrder ==
    ASSUME BackupInv, NEW r \in Runs, Active(r), NEW i \in 1 .. Len(conn[Current(r)].stream)
    PROVE  conn[Current(r)].stream[i].host = Host[r] /\ conn[Current(r)].stream[i].n = i
<1>. PICK c : c = Current(r)  OBVIOUS
<1>1. /\ Types /\ c \in DOMAIN conn /\ Sending(r, conn[c]) /\ ConnectionInv(conn[c])
      /\ conn[c].run = r
  BY ActiveRun
<1>2. conn[c].stream \in Seq(Units)  BY <1>1, ConnectionType
<1>3. conn[c].stream # <<>>  BY <1>2
<1>4. ~(conn[c].stream[i] = Checksum /\ i = Len(conn[c].stream))  BY <1>1, <1>3 DEF Sending, Ends
<1>. QED  BY <1>1, <1>4 DEF ConnectionInv, InOrder

LEMMA SendMorePreserves ==
    ASSUME BackupInv, NEW r \in Runs, SendMore(r)
    PROVE  BackupInv'
<1>. PICK c : c = Current(r)  OBVIOUS
<1>1. Active(r) /\ client[r] = "sending" /\ read[r] < File(r).length
  <2>1. Active(r) /\ client[r] = "sending" /\ ~(read[r] >= File(r).length)
    BY DEF SendMore, Active, EndOfFile
  <2>. QED  BY <2>1, ActiveRun
<1>2. /\ Types /\ c \in DOMAIN conn /\ conn[c] \in Connection /\ conn \in Seq(Connection)
      /\ Sending(r, conn[c]) /\ ConnectionInv(conn[c]) /\ read[r] \in Nat /\ conn[c].run = r
      /\ File(r) \in [version : 0 .. MaxTrouble + 1, length : Nat]
      /\ edits = 0 => File(r).length = Length[conn[c].path]
  BY <1>1, ActiveRun
<1>3. UNCHANGED <<source, edits, stops, faults, up, disk, client, todo>>
      /\ read' = [read EXCEPT ![r] = @ + 1]
      /\ conn' = [conn EXCEPT ![c].stream = Append(@, Unit(r))]
  BY DEF SendMore
<1>4. /\ conn[c].stream \in Seq(Units) /\ conn[c].pos \in Nat /\ conn[c].pos <= Len(conn[c].stream)
      /\ conn[c].declared \in Nat
      /\ Len(conn[c].stream) = read[r] /\ conn[c].header /\ conn[c].open /\ conn[c].result # "ok"
      /\ (conn[c].pc = "done" /\ faults + stops = 0 => conn[c].pos = conn[c].declared)
  BY <1>1, <1>2, ConnectionType, OpenEnd DEF Sending, ConnectionInv, InStream, OkIsComplete
<1>5. PICK s : s = Append(conn[c].stream, Unit(r))  OBVIOUS
<1>6. /\ Unit(r) \in Units /\ Unit(r) # Checksum /\ Unit(r).host = Host[r] /\ Unit(r).n = read[r] + 1
      /\ edits = 0 => Unit(r).version = 1
  BY <1>1, UnitType
<1>7. /\ s \in Seq(Units) /\ Len(s) = read[r] + 1 /\ s[read[r] + 1] = Unit(r)
      /\ \A i \in 1 .. read[r] : s[i] = conn[c].stream[i]
      /\ SubSeq(s, 1, conn[c].pos) = SubSeq(conn[c].stream, 1, conn[c].pos)
  BY <1>4, <1>5, <1>6, AppendKeeps
<1>8. PICK m : m = [conn[c] EXCEPT !.stream = s]  OBVIOUS
<1>9. m \in Connection  BY <1>2, <1>7, <1>8 DEF Connection
<1>10. conn' = [conn EXCEPT ![c] = m]  BY <1>2, <1>3, <1>5, <1>8
<1>11. conn' \in Seq(Connection) /\ Replaced(c, m)  BY <1>2, <1>9, <1>10, ReplaceOne
<1>12. /\ TaskSame(m, conn[c]) /\ m.declared = conn[c].declared /\ m.header = conn[c].header
       /\ m.stream = s /\ m.open = conn[c].open
  BY <1>2, <1>8 DEF TaskSame, Connection
<1>13. ~Ends(m)  BY <1>6, <1>7, <1>12 DEF Ends
<1>14. \A i \in 1 .. Len(s) : i = read[r] + 1 \/ i \in 1 .. read[r]  BY <1>2, <1>7
<1>15. InOrder(m)
  <2>1. \A i \in 1 .. read[r] : conn[c].stream[i].host = Host[r] /\ conn[c].stream[i].n = i
    BY <1>1, <1>4, SentInOrder
  <2>2. \A i \in 1 .. Len(s) : s[i].host = Host[r] /\ s[i].n = i  BY <1>6, <1>7, <1>14, <2>1
  <2>. QED  BY <1>2, <1>12, <2>2 DEF InOrder, TaskSame
<1>16. ConnectionInv(m)
  <2>1. HeaderFirst(m)  BY <1>2, <1>4, <1>12 DEF ConnectionInv, HeaderFirst, TaskSame
  <2>2. InStream(m)  BY <1>2, <1>4, <1>7, <1>12 DEF InStream, TaskSame, ConnectionInv
  <2>3. OkIsComplete(m) /\ EndsForAReason(m)
    BY <1>4, <1>12 DEF OkIsComplete, EndsForAReason, TaskSame
  <2>4. AllSent(m)
    <3>1. edits = 0 => \A i \in 1 .. read[r] :
             conn[c].stream[i] = Checksum \/ conn[c].stream[i].version = 1
      BY <1>2, <1>4 DEF ConnectionInv, AllSent
    <3>. QED  BY <1>6, <1>7, <1>12, <1>13, <1>14, <3>1 DEF AllSent
  <2>. QED  BY <1>15, <2>1, <2>2, <2>3, <2>4 DEF ConnectionInv
<1>17. OnlyRun(r) /\ client'[r] = "sending" /\ read'[r] = read[r] + 1
  BY <1>1, <1>2, <1>3 DEF OnlyRun, Types
<1>18. Active(r)' /\ Starts(r)'  BY <1>17 DEF Active, Starts
<1>19. Sending(r, m)'
  <2>1. edits = 0 => m.declared = Length[m.path] /\ read[r] + 1 <= Length[m.path]
    BY <1>1, <1>2, <1>12 DEF Sending, TaskSame
  <2>2. ~Ends(m)'  BY <1>13 DEF Ends
  <2>. QED  BY <1>3, <1>4, <1>7, <1>12, <1>17, <2>1, <2>2 DEF Sending
<1>20. Wrote(m) => Wrote(conn[c])  BY <1>12 DEF Wrote, TaskSame
<1>21. SubSeq(m.stream, 1, m.pos) = SubSeq(conn[c].stream, 1, m.pos)  BY <1>7, <1>12 DEF TaskSame
<1>. QED  BY <1>1, <1>3, <1>9, <1>11, <1>12, <1>16, <1>17, <1>18, <1>19, <1>20, <1>21, RunStepPreserves

LEMMA SendChecksumPreserves ==
    ASSUME BackupInv, NEW r \in Runs, SendChecksum(r)
    PROVE  BackupInv'
<1>. PICK c : c = Current(r)  OBVIOUS
<1>1. Active(r) /\ client[r] = "sending" /\ read[r] >= File(r).length
  BY DEF SendChecksum, Active, EndOfFile
<1>2. /\ Types /\ c \in DOMAIN conn /\ conn[c] \in Connection /\ conn \in Seq(Connection)
      /\ Sending(r, conn[c]) /\ ConnectionInv(conn[c]) /\ read[r] \in Nat /\ conn[c].run = r
      /\ File(r) \in [version : 0 .. MaxTrouble + 1, length : Nat]
      /\ edits = 0 => File(r).length = Length[conn[c].path]
  BY <1>1, ActiveRun
<1>3. UNCHANGED <<source, edits, stops, faults, up, disk, todo>> /\ Goto(r, "walk")
      /\ read' = [read EXCEPT ![r] = 0]
      /\ conn' = [Hangup(r) EXCEPT ![c].stream = Append(@, Checksum)]
  BY DEF SendChecksum
<1>4. /\ conn[c].stream \in Seq(Units) /\ conn[c].pos \in Nat /\ conn[c].pos <= Len(conn[c].stream)
      /\ conn[c].declared \in Nat
      /\ Len(conn[c].stream) = read[r] /\ conn[c].header /\ conn[c].result # "ok"
      /\ (conn[c].pc = "done" /\ faults + stops = 0 => conn[c].pos = conn[c].declared)
  BY <1>1, <1>2, ConnectionType, OpenEnd DEF Sending, ConnectionInv, InStream, OkIsComplete
<1>5. PICK s : s = Append(conn[c].stream, Checksum)  OBVIOUS
<1>6. Checksum \in Units  BY BoundsAssumption DEF Checksum, Units
<1>7. /\ s \in Seq(Units) /\ Len(s) = read[r] + 1 /\ s[read[r] + 1] = Checksum
      /\ \A i \in 1 .. read[r] : s[i] = conn[c].stream[i]
      /\ SubSeq(s, 1, conn[c].pos) = SubSeq(conn[c].stream, 1, conn[c].pos)
  BY <1>4, <1>5, <1>6, AppendKeeps
<1>8. PICK m : m = [conn[c] EXCEPT !.open = FALSE, !.stream = s]  OBVIOUS
<1>9. m \in Connection  BY <1>2, <1>7, <1>8 DEF Connection
<1>10. conn' = [conn EXCEPT ![c] = m]
  <2>1. Hangup(r) = [conn EXCEPT ![c].open = FALSE]  BY DEF Hangup
  <2>2. [conn[c] EXCEPT !.open = FALSE].stream = conn[c].stream  BY <1>2 DEF Connection
  <2>. QED  BY <1>2, <1>3, <1>5, <1>8, <2>1, <2>2 DEF Connection
<1>11. conn' \in Seq(Connection) /\ Replaced(c, m)  BY <1>2, <1>9, <1>10, ReplaceOne
<1>12. /\ TaskSame(m, conn[c]) /\ m.declared = conn[c].declared /\ m.header = conn[c].header
       /\ m.stream = s /\ m.open = FALSE
  BY <1>2, <1>8 DEF TaskSame, Connection
<1>13. Ends(m)  BY <1>2, <1>7, <1>12 DEF Ends
<1>14. \A i \in 1 .. Len(s) : i = read[r] + 1 \/ i \in 1 .. read[r]  BY <1>2, <1>7
<1>15. InOrder(m)
  <2>1. \A i \in 1 .. read[r] : conn[c].stream[i].host = Host[r] /\ conn[c].stream[i].n = i
    BY <1>1, <1>4, SentInOrder
  <2>. QED  BY <1>2, <1>7, <1>12, <1>14, <2>1 DEF InOrder, TaskSame
<1>16. ConnectionInv(m)
  <2>1. HeaderFirst(m)  BY <1>2, <1>4, <1>12 DEF ConnectionInv, HeaderFirst, TaskSame
  <2>2. InStream(m)  BY <1>2, <1>4, <1>7, <1>12 DEF InStream, TaskSame, ConnectionInv
  <2>3. OkIsComplete(m) /\ EndsForAReason(m)
    BY <1>4, <1>12 DEF OkIsComplete, EndsForAReason, TaskSame
  <2>4. AllSent(m)
    <3>1. edits = 0 => \A i \in 1 .. read[r] :
             conn[c].stream[i] = Checksum \/ conn[c].stream[i].version = 1
      BY <1>2, <1>4 DEF ConnectionInv, AllSent
    <3>2. edits = 0 => Len(s) = Length[m.path] + 1 /\ m.declared = Length[m.path]
      BY <1>1, <1>2, <1>7, <1>12 DEF Sending, TaskSame
    <3>. QED  BY <1>7, <1>12, <1>14, <3>1, <3>2 DEF AllSent
  <2>. QED  BY <1>15, <2>1, <2>2, <2>3, <2>4 DEF ConnectionInv
<1>17. OnlyRun(r) /\ client'[r] = "walk" /\ read'[r] = 0
  BY <1>2, <1>3 DEF OnlyRun, Types, Goto, ClientPcs
<1>18. ~Active(r)' /\ Starts(r)'  BY <1>17 DEF Active, Starts
<1>19. Wrote(m) => Wrote(conn[c])  BY <1>12 DEF Wrote, TaskSame
<1>20. SubSeq(m.stream, 1, m.pos) = SubSeq(conn[c].stream, 1, m.pos)  BY <1>7, <1>12 DEF TaskSame
<1>. QED  BY <1>1, <1>3, <1>9, <1>11, <1>12, <1>13, <1>16, <1>17, <1>18, <1>19, <1>20, RunStepPreserves

\* A new connection is the last one, and the current one of its run.
LEMMA ConnectPreserves ==
    ASSUME BackupInv, NEW r \in Runs, Connect(r)
    PROVE  BackupInv'
<1>1. PICK p \in todo[r], fits \in BOOLEAN :
        /\ todo' = [todo EXCEPT ![r] = @ \ {p}]
        /\ conn' = Append(conn, NewConnection(r, p, fits))
  BY DEF Connect
<1>2. /\ client[r] = "walk" /\ Goto(r, "connected") /\ Types
      /\ UNCHANGED <<source, edits, stops, faults, read, up, disk>>
  BY DEF Connect, BackupInv
<1>3. PICK m : m = NewConnection(r, p, fits)  OBVIOUS
<1>4. p \in Paths  BY <1>2 DEF Types
<1>5. m \in Connection /\ m.run = r /\ m.path = p /\ m.declared = 0 /\ m.header = FALSE
      /\ m.stream = <<>> /\ m.open /\ m.pc = "header" /\ m.pos = 0 /\ m.rivals = {}
      /\ m.result = "none"
  <2>1. <<>> \in Seq(Units)  OBVIOUS
  <2>2. 0 \in 0 .. MaxLength  BY LengthsAssumption
  <2>. QED  BY <1>3, <1>4, <2>1, <2>2 DEF NewConnection, Connection, TaskPcs, Results
<1>6. PICK c \in Nat : c = Len(conn) + 1  BY <1>2 DEF Types
<1>7. /\ conn' \in Seq(Connection) /\ conn'[c] = m /\ DOMAIN conn' = DOMAIN conn \cup {c}
      /\ c \notin DOMAIN conn
      /\ \A k \in DOMAIN conn : conn'[k] = conn[k] /\ k \in Nat /\ k < c
  <2>1. conn \in Seq(Connection)  BY <1>2 DEF Types
  <2>. QED  BY <1>1, <1>3, <1>5, <1>6, <2>1
<1>8. MadeBy(r)' = MadeBy(r) \cup {c} /\ \A q \in Runs \ {r} : MadeBy(q)' = MadeBy(q)
  BY <1>5, <1>7 DEF MadeBy
<1>9. Current(r)' = c /\ \A q \in Runs \ {r} : Current(q)' = Current(q)
  <2>1. \A q : Current(q)' = Latest(MadeBy(q)')  BY DEF Current, Latest
  <2>2. \A j \in MadeBy(r)' : j \in Nat /\ j <= c  BY <1>6, <1>7, <1>8 DEF MadeBy
  <2>3. PICK S : S = MadeBy(r)'  OBVIOUS
  <2>4. S \in SUBSET Nat /\ c \in S /\ \A j \in S : j <= c  BY <1>8, <2>2, <2>3
  <2>5. Latest(S) = c  BY <2>4, LatestIsLast
  <2>. QED  BY <1>8, <2>1, <2>3, <2>5, CurrentIsLatest
<1>10. OnlyRun(r) /\ client'[r] = "connected" /\ todo'[r] = todo[r] \ {p}
  BY <1>1, <1>2 DEF OnlyRun, Types, Goto, ClientPcs
<1>11. Types'  BY <1>2, <1>7, <1>10 DEF Types, OnlyRun
<1>12. Unchanged'  BY <1>2 DEF BackupInv, Unchanged
<1>13. ASSUME NEW k \in DOMAIN conn PROVE ConnectionInv(conn[k])' /\ (Wrote(conn[k])' <=> Wrote(conn[k]))
  <2>1. conn'[k] = conn[k] /\ ConnectionInv(conn[k])  BY <1>7 DEF BackupInv, Connections
  <2>. QED  BY <1>2, <2>1 DEF ConnectionInv, HeaderFirst, InStream, InOrder, OkIsComplete,
         EndsForAReason, AllSent, Ends, Wrote
<1>14. ConnectionInv(conn[c])'
  <2>1. m.stream = <<>> /\ Len(m.stream) = 0  BY <1>5
  <2>. QED  BY <1>5, <1>7, <2>1 DEF ConnectionInv, HeaderFirst, InStream, InOrder, OkIsComplete,
         EndsForAReason, AllSent, Ends
<1>15. Connections'  BY <1>7, <1>13, <1>14 DEF Connections
<1>16. ~Wrote(conn[c])'  BY <1>5, <1>7 DEF Wrote
<1>17. Rivalry'
  <2>1. conn'[c].pc # "data" /\ conn'[c].rivals = {}  BY <1>5, <1>7
  <2>. QED  BY <1>7, <1>13, <1>16, <2>1 DEF Rivalry, BackupInv
<1>18. WrittenOut'  BY <1>2, <1>7, <1>13, <1>16 DEF WrittenOut, BackupInv
<1>19. ASSUME NEW q \in Runs, q # r
       PROVE  (Active(q)' => Sends(q)') /\ Covers(q)' /\ Starts(q)'
  <2>1. client'[q] = client[q] /\ todo'[q] = todo[q] /\ read'[q] = read[q]
    BY <1>10, <1>19 DEF OnlyRun
  <2>2. MadeBy(q)' = MadeBy(q) /\ Current(q)' = Current(q)  BY <1>8, <1>9, <1>19
  <2>3. \A k \in MadeBy(q) : conn'[k] = conn[k]  BY <1>7 DEF MadeBy
  <2>4. (Active(q) => Sends(q)) /\ Covers(q) /\ Starts(q)  BY DEF BackupInv, RunsInv
  <2>5. Active(q)' <=> Active(q)  BY <2>1 DEF Active
  <2>6. ASSUME Sends(q) PROVE Sends(q)'
    <3>1. PICK i : i = Current(q)  OBVIOUS
    <3>2. i \in MadeBy(q) /\ conn'[i] = conn[i] /\ Sending(q, conn[i])  BY <2>3, <2>6, <3>1 DEF Sends
    <3>3. Sending(q, conn[i])'  BY <1>2, <2>1, <3>2 DEF Sending, Ends
    <3>. QED  BY <2>2, <3>1, <3>2, <3>3 DEF Sends
  <2>7. Covers(q)'  BY <1>2, <2>1, <2>2, <2>3, <2>4, <2>5 DEF Covers, Ends
  <2>. QED  BY <2>1, <2>4, <2>5, <2>6, <2>7 DEF Starts
<1>20. Sends(r)'
  <2>1. Sending(r, conn[c])'  BY <1>5, <1>7, <1>10 DEF Sending, Ends
  <2>. QED  BY <1>8, <1>9, <2>1 DEF Sends
<1>21. Covers(r)'
  <2>1. Covers(r) /\ ~Active(r)  BY <1>2 DEF BackupInv, RunsInv, Active
  <2>2. \A k \in MadeBy(r) : conn'[k] = conn[k]  BY <1>7 DEF MadeBy
  <2>3. \A q \in Tree[r] : q \in todo'[r] \/ \E k \in MadeBy(r)' : conn'[k].path = q
    BY <1>2, <1>5, <1>7, <1>8, <1>10, <2>1, <2>2 DEF Covers
  <2>4. \A k \in MadeBy(r) : edits = 0 => Length[conn[k].path] > MaxLength \/ Ends(conn[k])
    BY <1>2, <2>1 DEF Covers
  <2>5. Active(r)' /\ client'[r] # "finished"  BY <1>10 DEF Active
  <2>. QED  BY <1>2, <1>8, <1>9, <2>2, <2>3, <2>4, <2>5 DEF Covers, Ends
<1>22. Starts(r)'  BY <1>2 DEF BackupInv, RunsInv, Starts
<1>23. RunsInv'  BY <1>19, <1>20, <1>21, <1>22 DEF RunsInv
<1>. QED  BY <1>11, <1>12, <1>15, <1>17, <1>18, <1>23 DEF BackupInv

\* A run ends between two files.
LEMMA RunEndsPreserves ==
    ASSUME BackupInv, NEW r \in Runs, ConnectFails(r) \/ WalkEnds(r)
    PROVE  BackupInv'
<1>1. Types /\ UNCHANGED <<source, edits, stops, faults, conn, up, disk>> /\ client[r] = "walk"
  BY DEF ConnectFails, WalkEnds, BackupInv
<1>2. OnlyRun(r) /\ (client'[r] = "panicked" \/ (client'[r] = "finished" /\ todo'[r] = {} /\ todo[r] = {}))
      /\ read'[r] \in {0, read[r]}
  <2>1. CASE ConnectFails(r)
    BY <1>1, <2>1 DEF ConnectFails, Over, Goto, OnlyRun, Types, ClientPcs
  <2>2. CASE WalkEnds(r)
    BY <1>1, <2>2 DEF WalkEnds, Goto, OnlyRun, Types, ClientPcs
  <2>. QED  BY <2>1, <2>2
<1>3. Types' /\ Unchanged'  BY <1>1, <1>2 DEF BackupInv, Types, OnlyRun, Unchanged
<1>4. Connections' /\ Rivalry' /\ WrittenOut'
  BY <1>1 DEF BackupInv, Connections, ConnectionInv, HeaderFirst, InStream, InOrder, OkIsComplete,
     EndsForAReason, AllSent, Ends, Rivalry, WrittenOut, Wrote
<1>5. \A q : MadeBy(q)' = MadeBy(q) /\ Current(q)' = Current(q)
  BY <1>1, CurrentKept DEF KeepsRuns
<1>6. ASSUME NEW q \in Runs, q # r
      PROVE  (Active(q)' => Sends(q)') /\ Covers(q)' /\ Starts(q)'
  <2>1. client'[q] = client[q] /\ todo'[q] = todo[q] /\ read'[q] = read[q]
    BY <1>2, <1>6 DEF OnlyRun
  <2>2. (Active(q) => Sends(q)) /\ Covers(q) /\ Starts(q)  BY DEF BackupInv, RunsInv
  <2>3. Active(q)' <=> Active(q)  BY <2>1 DEF Active
  <2>4. Sends(q) => Sends(q)'  BY <1>1, <1>5, <2>1 DEF Sends, Sending, Ends
  <2>5. Covers(q)'  BY <1>1, <1>5, <2>1, <2>2, <2>3 DEF Covers, Ends
  <2>. QED  BY <2>1, <2>2, <2>3, <2>4, <2>5 DEF Starts
<1>7. ~Active(r)' /\ Starts(r)'
  <2>1. Starts(r)  BY DEF BackupInv, RunsInv
  <2>. QED  BY <1>1, <1>2, <2>1 DEF Active, Starts
<1>8. Covers(r)'
  <2>1. Covers(r) /\ ~Active(r)  BY <1>1 DEF BackupInv, RunsInv, Active
  <2>. QED  BY <1>1, <1>2, <1>5, <2>1 DEF Covers, Ends
<1>9. RunsInv'  BY <1>6, <1>7, <1>8 DEF RunsInv
<1>. QED  BY <1>3, <1>4, <1>9 DEF BackupInv

LEMMA EditPreserves ==
    ASSUME BackupInv, NEW h \in Hosts, NEW p \in Paths, Edit(h, p)
    PROVE  BackupInv'
<1>1. Types /\ TroubleLeft /\ edits' = edits + 1 /\ UNCHANGED <<stops, faults, clientVars, conn, up, disk>>
  BY DEF BackupInv, Edit
<1>2. edits' \in Nat /\ edits' # 0 /\ edits' + stops' + faults' <= MaxTrouble /\ edits + 2 \in 0 .. MaxTrouble + 1
  BY <1>1, BoundsAssumption DEF Types, TroubleLeft
<1>3. PICK f \in [version : 0 .. MaxTrouble + 1, length : Nat] : source' = [source EXCEPT ![h][p] = f]
  <2>1. Missing \in [version : 0 .. MaxTrouble + 1, length : Nat]
    BY BoundsAssumption DEF Missing
  <2>2. \A n \in Lengths : [version |-> edits + 2, length |-> n] \in [version : 0 .. MaxTrouble + 1, length : Nat]
    BY <1>2, LengthsAssumption
  <2>. QED  BY <2>1, <2>2 DEF Edit
<1>4. source' \in [Hosts -> [Paths -> [version : 0 .. MaxTrouble + 1, length : Nat]]]
  BY <1>1, <1>3 DEF Types
<1>5. Types'  BY <1>1, <1>2, <1>4 DEF Types, clientVars
<1>6. Unchanged'  BY <1>2 DEF Unchanged
<1>7. Connections'
  BY <1>1, <1>2 DEF BackupInv, Connections, ConnectionInv, HeaderFirst, InStream, InOrder,
     OkIsComplete, EndsForAReason, AllSent, Ends
<1>8. Rivalry' /\ WrittenOut'  BY <1>1 DEF BackupInv, Rivalry, WrittenOut, Wrote
<1>9. \A q : MadeBy(q)' = MadeBy(q) /\ Current(q)' = Current(q)
  BY <1>1, CurrentKept DEF KeepsRuns
<1>10. ASSUME NEW q \in Runs
       PROVE  (Active(q)' => Sends(q)') /\ Covers(q)' /\ Starts(q)'
  <2>1. (Active(q) => Sends(q)) /\ Covers(q) /\ Starts(q)  BY DEF BackupInv, RunsInv
  <2>2. Active(q)' <=> Active(q)  BY <1>1 DEF Active, clientVars
  <2>3. Sends(q) => Sends(q)'  BY <1>1, <1>2, <1>9 DEF Sends, Sending, Ends, clientVars
  <2>4. Covers(q)'  BY <1>1, <1>2, <1>9, <2>1 DEF Covers, clientVars
  <2>. QED  BY <1>1, <2>1, <2>2, <2>3, <2>4 DEF Starts, clientVars
<1>11. RunsInv'  BY <1>10 DEF RunsInv
<1>. QED  BY <1>5, <1>6, <1>7, <1>8, <1>11 DEF BackupInv

(***************************************************************************)
(* The invariant holds initially and every step preserves it.              *)
(***************************************************************************)
LEMMA InitInv == Init => BackupInv
<1>. SUFFICES ASSUME Init PROVE BackupInv
  OBVIOUS
<1>1. Types
  <2>1. source \in [Hosts -> [Paths -> [version : 0 .. MaxTrouble + 1, length : Nat]]]
    BY LengthsAssumption, BoundsAssumption DEF Init
  <2>2. conn \in Seq(Connection) /\ DOMAIN disk = {}  BY DEF Init
  <2>. QED  BY <2>1, <2>2, FoldersAssumption, BoundsAssumption DEF Init, Types, ClientPcs
<1>2. DOMAIN conn = {} /\ DOMAIN disk = {} /\ \A r \in Runs : MadeBy(r) = {}  BY DEF Init, MadeBy
<1>3. Connections /\ Rivalry /\ WrittenOut  BY <1>2 DEF Connections, Rivalry, WrittenOut
<1>4. Unchanged  BY DEF Init, Unchanged
<1>5. RunsInv
  <2>. SUFFICES ASSUME NEW r \in Runs PROVE ~Active(r) /\ Covers(r) /\ Starts(r)
    BY DEF RunsInv
  <2>1. client[r] = "walk" /\ todo[r] = Tree[r] /\ read[r] = 0  BY DEF Init
  <2>. QED  BY <1>2, <2>1 DEF Active, Covers, Starts
<1>. QED  BY <1>1, <1>3, <1>4, <1>5 DEF BackupInv

LEMMA StepInv == BackupInv /\ [Next]_vars => BackupInv'
<1>. SUFFICES ASSUME BackupInv, [Next]_vars PROVE BackupInv'
  OBVIOUS
<1>1. ASSUME NEW r \in Runs, RunStep(r) PROVE BackupInv'
  <2>1. CASE OpenFails(r)
    <3>1. Active(r) /\ Over(r, "panicked") /\ conn' = Hangup(r)
          /\ UNCHANGED <<source, edits, stops, faults, up, disk>>
      BY <2>1 DEF OpenFails, Active
    <3>. QED  BY <3>1, OverPreserves
  <2>2. CASE HeaderOverflows(r)
    <3>1. Active(r) /\ Over(r, "panicked") /\ conn' = Hangup(r)
          /\ UNCHANGED <<source, edits, stops, faults, up, disk>>
      BY <2>2 DEF HeaderOverflows, Active
    <3>. QED  BY <3>1, OverPreserves
  <2>. QED  BY <1>1, <2>1, <2>2, ConnectPreserves, RunEndsPreserves, MeasurePreserves,
              SendFirstPreserves, SendMorePreserves, SendChecksumPreserves DEF RunStep
<1>2. ASSUME NEW r \in Runs, Kill(r) PROVE BackupInv'
  <2>1. Active(r) /\ Over(r, "killed") /\ conn' = Hangup(r)
        /\ UNCHANGED <<source, edits, stops, faults, up, disk>>
    BY <1>2 DEF Kill, Active
  <2>. QED  BY <2>1, OverPreserves
<1>3. ASSUME NEW h \in Hosts, NEW p \in Paths, Edit(h, p) PROVE BackupInv'
  BY <1>3, EditPreserves
<1>4. ASSUME NEW k \in Ks, TaskStep(k) PROVE BackupInv'
  BY <1>4, HeaderEndsPreserves, CreateFilePreserves, WriteDataPreserves, DataEndsPreserves,
     CheckPreserves DEF TaskStep
<1>5. ASSUME NEW k \in Ks, Fault(k) PROVE BackupInv'
  BY <1>5, FaultPreserves
<1>6. CASE ServerStops  BY <1>6, ServerStopsPreserves
<1>7. CASE ServerStarts  BY <1>7, StutterPreserves DEF ServerStarts
<1>8. CASE UNCHANGED vars
  <2>1. up' \in BOOLEAN  BY <1>8 DEF vars, BackupInv, Types
  <2>. QED  BY <1>8, <2>1, StutterPreserves DEF vars
<1>9. CASE AllOver  BY <1>8, <1>9 DEF AllOver
<1>. QED  BY <1>1, <1>2, <1>3, <1>4, <1>5, <1>6, <1>7, <1>8, <1>9 DEF Next

\* The inductive invariant holds in every state of every run.
THEOREM BackupInvariant == Spec => []BackupInv
BY InitInv, StepInv, PTL DEF Spec

(***************************************************************************)
(* What follows from it.                                                   *)
(***************************************************************************)
LEMMA InvTypeOK == BackupInv => TypeOK
<1>. SUFFICES ASSUME BackupInv PROVE TypeOK
  OBVIOUS
<1>1. Types  BY DEF BackupInv
<1>2. {edits, stops, faults} \subseteq 0 .. MaxTrouble  BY <1>1, BoundsAssumption DEF Types
<1>3. ASSUME NEW k \in DOMAIN conn
      PROVE  /\ conn[k].run \in Runs /\ conn[k].path \in Paths /\ conn[k].fits \in BOOLEAN
             /\ conn[k].declared \in 0 .. MaxLength
             /\ conn[k].pc \in TaskPcs /\ conn[k].result \in Results
             /\ conn[k].pos <= conn[k].declared
             /\ conn[k].rivals \subseteq DOMAIN conn \ {k}
  <2>1. conn[k] \in Connection  BY <1>1, ConnectionType
  <2>2. InStream(conn[k])  BY DEF BackupInv, Connections, ConnectionInv
  <2>3. conn[k].rivals \subseteq DOMAIN conn \ {k}  BY DEF BackupInv, Rivalry
  <2>. QED  BY <2>1, <2>2, <2>3 DEF Connection, InStream
<1>4. ASSUME NEW p \in DOMAIN disk, NEW n \in DOMAIN disk[p] PROVE disk[p][n] \in Units
  <2>1. disk[p] \in Seq(Units)  BY <1>1 DEF Types
  <2>. HIDE DEF Units
  <2>. QED  BY <2>1
<1>. QED  BY <1>1, <1>2, <1>3, <1>4 DEF TypeOK, Types

\* An upload answered with 1 has written all it was sent but the checksum.
LEMMA OkData ==
    ASSUME BackupInv, NEW k \in DOMAIN conn, Ok(k)
    PROVE  /\ Data(k) = SubSeq(conn[k].stream, 1, conn[k].pos)
           /\ conn[k].pos = conn[k].declared /\ conn[k].pos \in Nat
           /\ conn[k].stream \in Seq(Units) /\ Len(conn[k].stream) = conn[k].pos + 1
           /\ Ends(conn[k])
<1>1. OkIsComplete(conn[k])  BY DEF BackupInv, Connections, ConnectionInv
<1>2. conn[k].pos \in Nat /\ conn[k].stream \in Seq(Units)
  BY ConnectionType DEF BackupInv
<1>3. conn[k].pos = conn[k].declared /\ Len(conn[k].stream) = conn[k].pos + 1 /\ Ends(conn[k])
  BY <1>1 DEF OkIsComplete, Ok
<1>4. Complete(k)  BY <1>3 DEF Ends, Complete
<1>5. Len(conn[k].stream) - 1 = conn[k].pos  BY <1>2, <1>3
<1>. QED  BY <1>2, <1>3, <1>4, <1>5 DEF Data

LEMMA InvStoredIfAlone == BackupInv => StoredIfAlone
<1>. SUFFICES ASSUME BackupInv, NEW k \in DOMAIN conn, Ok(k), conn[k].rivals = {}
              PROVE  disk[conn[k].path] = Data(k)
  BY DEF StoredIfAlone
<1>1. Wrote(conn[k])  BY DEF Wrote, Ok
<1>2. disk[conn[k].path] = SubSeq(conn[k].stream, 1, conn[k].pos)
  BY <1>1 DEF BackupInv, WrittenOut
<1>. QED  BY <1>2, OkData

\* A stream that was sent to its end, from a file nobody changed, is the file.
LEMMA WholeStream ==
    ASSUME BackupInv, edits = 0, NEW k \in DOMAIN conn, Ends(conn[k])
    PROVE  /\ Length[conn[k].path] \in Nat /\ conn[k].declared = Length[conn[k].path]
           /\ Len(conn[k].stream) = Length[conn[k].path] + 1
           /\ SubSeq(conn[k].stream, 1, Length[conn[k].path]) = Whole(conn[k].run, conn[k].path)
<1>1. Types /\ ConnectionInv(conn[k])  BY DEF BackupInv, Connections
<1>2. PICK s : s = conn[k].stream  OBVIOUS
<1>3. s \in Seq(Units) /\ conn[k].path \in Paths
  BY <1>1, <1>2, ConnectionType DEF Connection
<1>4. PICK n \in Nat : n = Length[conn[k].path]  BY <1>3, LengthsAssumption
<1>5. Len(s) = n + 1 /\ conn[k].declared = n  BY <1>1, <1>2, <1>4 DEF ConnectionInv, AllSent
<1>6. ASSUME NEW i \in 1 .. n
      PROVE  s[i] = [host |-> Host[conn[k].run], version |-> 1, n |-> i]
  <2>1. i \in 1 .. Len(s) /\ i # Len(s)  BY <1>5
  <2>2. s[i].host = Host[conn[k].run] /\ s[i].n = i  BY <1>1, <1>2, <2>1 DEF ConnectionInv, InOrder
  <2>3. s[i] # Checksum  BY <2>2 DEF Checksum
  <2>4. s[i].version = 1  BY <1>1, <1>2, <2>1, <2>3 DEF ConnectionInv, AllSent
  <2>5. s[i] \in Units
    <3>. HIDE DEF Units
    <3>. QED  BY <1>3, <2>1
  <2>. QED  BY <2>2, <2>4, <2>5 DEF Units
<1>7. SubSeq(s, 1, n) = [i \in 1 .. n |-> s[i]]
  <2>. HIDE DEF Units
  <2>. QED  BY <1>3, <1>5
<1>. QED  BY <1>2, <1>4, <1>5, <1>6, <1>7 DEF Whole

LEMMA InvOkIsWholeFile == BackupInv => OkIsWholeFile
<1>. SUFFICES ASSUME BackupInv, NEW k \in DOMAIN conn, Ok(k)
              PROVE  /\ Len(Data(k)) = conn[k].declared
                     /\ \A n \in 1 .. Len(Data(k)) : Data(k)[n].n = n
                     /\ edits = 0 => Data(k) = Whole(conn[k].run, conn[k].path)
  BY DEF OkIsWholeFile
<1>1. PICK s : s = conn[k].stream  OBVIOUS
<1>2. PICK d \in Nat : d = conn[k].pos  BY OkData
<1>3. /\ Data(k) = SubSeq(s, 1, d) /\ d = conn[k].declared /\ s \in Seq(Units) /\ Len(s) = d + 1
      /\ Ends(conn[k])
  BY <1>1, <1>2, OkData
<1>4. Len(Data(k)) = d /\ \A n \in 1 .. d : Data(k)[n] = s[n]
  <2>. HIDE DEF Units
  <2>. QED  BY <1>3
<1>5. \A n \in 1 .. d : s[n].n = n
  <2>1. InOrder(conn[k])  BY DEF BackupInv, Connections, ConnectionInv
  <2>2. \A n \in 1 .. d : n \in 1 .. Len(s) /\ n # Len(s)  BY <1>3
  <2>. QED  BY <1>1, <2>1, <2>2 DEF InOrder
<1>6. edits = 0 => Data(k) = Whole(conn[k].run, conn[k].path)
  <2>. SUFFICES ASSUME edits = 0 PROVE Data(k) = Whole(conn[k].run, conn[k].path)
    OBVIOUS
  <2>1. /\ conn[k].declared = Length[conn[k].path]
        /\ SubSeq(s, 1, Length[conn[k].path]) = Whole(conn[k].run, conn[k].path)
    BY <1>1, <1>3, WholeStream
  <2>. QED  BY <1>3, <2>1
<1>. QED  BY <1>3, <1>4, <1>5, <1>6

LEMMA InvFinishedIsStored == BackupInv => FinishedIsStored
<1>. SUFFICES ASSUME BackupInv, NEW r \in Runs, client[r] = "finished", edits + stops + faults = 0,
                     \A k \in MadeBy(r) : conn[k].pc = "done",
                     NEW p \in Tree[r], ~(Length[p] > MaxLength)
              PROVE  \E k \in MadeBy(r) :
                       /\ conn[k].path = p
                       /\ conn[k].rivals = {} => disk[p] = Whole(r, p)
  BY DEF FinishedIsStored
<1>1. Types /\ edits = 0 /\ stops = 0 /\ faults = 0  BY DEF BackupInv, Types
<1>2. Covers(r) /\ ~Active(r)  BY DEF BackupInv, RunsInv, Active
<1>3. PICK k \in MadeBy(r) : conn[k].path = p  BY <1>2 DEF Covers
<1>4. k \in DOMAIN conn /\ conn[k].run = r /\ conn[k].pc = "done"  BY <1>3 DEF MadeBy
<1>5. Ends(conn[k])  BY <1>1, <1>2, <1>3 DEF Covers
<1>6. /\ Length[p] \in Nat /\ conn[k].declared = Length[p] /\ Len(conn[k].stream) = Length[p] + 1
      /\ SubSeq(conn[k].stream, 1, Length[p]) = Whole(r, p)
  BY <1>1, <1>3, <1>4, <1>5, WholeStream
<1>7. ConnectionInv(conn[k]) /\ conn[k].pos \in Nat
  BY <1>1, <1>4, ConnectionType DEF BackupInv, Connections
<1>8. conn[k].header  BY <1>5, <1>7 DEF ConnectionInv, HeaderFirst, Ends
<1>9. conn[k].pos = Length[p]
  <2>1. conn[k].pos <= Length[p]  BY <1>6, <1>7 DEF ConnectionInv, InStream
  <2>. QED  BY <1>1, <1>4, <1>6, <1>7, <1>8, <2>1 DEF ConnectionInv, EndsForAReason
<1>10. Wrote(conn[k])  BY <1>1, <1>4, <1>8 DEF Wrote
<1>11. conn[k].rivals = {} => disk[p] = SubSeq(conn[k].stream, 1, Length[p])
  BY <1>3, <1>4, <1>9, <1>10 DEF BackupInv, WrittenOut
<1>. QED  BY <1>3, <1>6, <1>11

\* Every variable keeps its type, a task never writes more than was declared,
\* and the rivals of a connection are other connections.
THEOREM BackupTypeCorrect == Spec => []TypeOK
BY BackupInvariant, InvTypeOK, PTL

\* An upload answered with 1 is on disk as it was sent, if no other connection
\* worked on the file meanwhile or later: whatever was killed, changed, stopped
\* or failed around it (server.rs:484-534, client.rs:61-117).
THEOREM StoredIfAloneCorrect == Spec => []StoredIfAlone
BY BackupInvariant, InvStoredIfAlone, PTL

\* Only a file that was sent from its beginning to the length it was measured
\* with is answered with 1 (client.rs:61-115, server.rs:484-534).
THEOREM OkIsWholeFileCorrect == Spec => []OkIsWholeFile
BY BackupInvariant, InvOkIsWholeFile, PTL

\* A run that came to its end, with nothing failing around it, has left every
\* file on disk that no other connection worked on (client.rs:30-38, 61-117).
THEOREM FinishedIsStoredCorrect == Spec => []FinishedIsStored
BY BackupInvariant, InvFinishedIsStored, PTL
=============================================================================

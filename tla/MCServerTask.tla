---------------------------- MODULE MCServerTask ----------------------------
(* Requests for TLC.  With BufLen = 14 a one-byte path leaves 2 bytes of   *)
(* the first buffer for data, a three-byte path none, and a four-byte path *)
(* makes a header that does not fit.                                       *)
EXTENDS ServerTask

Save(p, d, a) ==
    [op |-> "file", pathLen |-> p, utf8 |-> TRUE, pathCk |-> TRUE,
     declared |-> d, actual |-> a, dataCk |-> TRUE]

\* What the repository's client sends for an unchanging file.  Sizes 13, 15
\* and 16 end 3, 1 and 0 bytes before the end of a reused buffer; 29 and 31
\* make the buffer be reused twice.
Uploads ==
    {Save(1, d, d) : d \in {0, 2, 3, 13, 15, 16, 17, 29}} \cup {Save(3, d, d) : d \in {0, 1, 31}}

\* The file shrank or grew between metadata() and read().
Resized == {Save(1, d, a) : d \in {0, 4, 16}, a \in {0, 3, 5, 18}}

Malformed ==
    {[Save(1, 5, 5) EXCEPT !.utf8 = FALSE],
     [Save(1, 5, 5) EXCEPT !.pathCk = FALSE],
     [Save(1, 5, 5) EXCEPT !.dataCk = FALSE],
     Save(0, 2, 2), Save(4, 2, 2), Save(12, 2, 2)}

Folders ==
    {[Save(p, 0, 0) EXCEPT !.op = "folder", !.pathCk = c] : p \in {1, 7, 8}, c \in BOOLEAN}

Unknown == {[Save(1, 0, 0) EXCEPT !.op = "unknown"]}

AllRequests == Uploads \cup Resized \cup Malformed \cup Folders \cup Unknown
=============================================================================

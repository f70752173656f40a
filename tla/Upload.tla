------------------------------- MODULE Upload -------------------------------
(***************************************************************************)
(* What the backup server promises about one upload, whatever the buffer,  *)
(* the pieces the network delivers and the faults on the way: the file on  *)
(* disk only ever grows, by the next bytes of the client's stream, and the *)
(* upload is reported stored only when the file is exactly the client's.   *)
(***************************************************************************)
EXTENDS Naturals, Sequences

VARIABLES
    wire,     \* the bytes the client sends after the header
    want,     \* the client's file
    got,      \* the file on disk
    status    \* "running", "stored" or "failed"

vars == <<wire, want, got, status>>

\* got may grow to any longer prefix of what the client sends.
Grow == \E k \in Len(got) .. Len(wire) : got' = SubSeq(wire, 1, k)

Init ==
    /\ got = <<>>
    /\ status = "running"

Receive ==
    /\ status = "running"
    /\ Grow
    /\ UNCHANGED <<wire, want, status>>

Store ==
    /\ status = "running"
    /\ got = want
    /\ status' = "stored"
    /\ UNCHANGED <<wire, want, got>>

\* An upload may fail while its last bytes are being written.
Fail ==
    /\ status = "running"
    /\ Grow
    /\ status' = "failed"
    /\ UNCHANGED <<wire, want>>

Next == Receive \/ Store \/ Fail

SafeSpec == Init /\ [][Next]_vars
=============================================================================

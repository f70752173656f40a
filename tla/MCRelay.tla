------------------------------ MODULE MCRelay ------------------------------
(***************************************************************************)
(* Instances of Relay for TLC: two peers and a Sender, where the Sender    *)
(* shares its peer's id so that entries are replaced.                      *)
(***************************************************************************)
EXTENDS Relay, TLC

CONSTANTS p, q, s, a, b

MCConns   == {p, q, s}
MCSenders == {s}
MCIds     == {a, b}
MCOwn     == (p :> a) @@ (q :> b) @@ (s :> a)
MCShard   == [i \in MCIds |-> 0]
=============================================================================

------------------------------ MODULE MCBackup ------------------------------
(***************************************************************************)
(* Instances of Backup for TLC: two runs on hosts of their own that both   *)
(* hold the file f; the first run has a second file.                       *)
(***************************************************************************)
EXTENDS Backup, TLC

CONSTANTS r1, r2, h1, h2, f, g

MCRuns == {r1, r2}
MCHost == (r1 :> h1) @@ (r2 :> h2)
MCTree == (r1 :> {f, g}) @@ (r2 :> {f})
MCLength == (f :> 2) @@ (g :> 0)
MCLongPaths == {g}
=============================================================================

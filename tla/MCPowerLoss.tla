----------------------------- MODULE MCPowerLoss -----------------------------
(* Small disks for TLC. *)
EXTENDS PowerLoss, TLC

CONSTANTS p1, p2, c1, c2

\* All objects are in one directory.
MCPrefix == (c1 :> "ab") @@ (c2 :> "ab")

\* A source of one chunk, and one that shares it.
MCContents == {<<c1>>, <<c2, c1>>}

Symmetry == Permutations(Procs)
=============================================================================

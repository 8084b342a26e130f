--------------------------- MODULE MCBackupEngine ---------------------------
(* Small repositories for TLC: two processes, two chunks. *)
EXTENDS BackupEngine, TLC

CONSTANTS p1, p2, c1, c2

\* A source of one chunk, one that shares it, and a directory without files.
MCSources == {<<c1>>, <<c2, c1>>}
MCSourcesAndEmpty == MCSources \cup {<<>>}

\* Two contents of the same length.
MCShortSources == {<<c1>>, <<c2>>}

Symmetry == Permutations(Procs)
=============================================================================

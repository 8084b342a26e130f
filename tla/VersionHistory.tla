--------------------------- MODULE VersionHistory ---------------------------
(***************************************************************************)
(* What a repository promises its users: a history of backups that only    *)
(* grows at its end.  Version v is the v-th backup.  A command that        *)
(* reports a version names one that is in the history, and what it holds.  *)
(***************************************************************************)
EXTENDS Naturals, Sequences

CONSTANT Backups   \* the contents a backup can have

VARIABLES
    history,       \* the backups, oldest first
    reported       \* the versions users have been told of, and their contents

Init ==
    /\ history = <<>>
    /\ reported = {}

Commit ==
    /\ history' \in Seq(Backups)
    /\ Len(history') = Len(history) + 1
    /\ \A v \in DOMAIN history : history'[v] = history[v]
    /\ UNCHANGED reported

Report ==
    /\ \E v \in DOMAIN history : reported' = reported \cup {<<v, history[v]>>}
    /\ UNCHANGED history

Next == Commit \/ Report

Spec == Init /\ [][Next]_<<history, reported>>
=============================================================================

--------------------------------- MODULE Log ---------------------------------
(***************************************************************************)
(* What wal.log is to the commands: records in the order in which they     *)
(* were appended, and whether the log can be read at all.  An append may   *)
(* be lost, or leave a piece of a record that makes the log unreadable;    *)
(* only a compaction takes records away, and makes it readable again.      *)
(***************************************************************************)
EXTENDS Naturals, Sequences

CONSTANTS Records, Compacted    \* Compacted: what a compaction leaves

VARIABLES
    records,
    readable

Init == records = <<>> /\ readable = TRUE

Add == \E r \in Records : records' = Append(records, r) /\ UNCHANGED readable

Tear == readable' = FALSE /\ UNCHANGED records

Compact == records' = Compacted /\ readable' = TRUE

Next == Add \/ Tear \/ Compact

Spec == Init /\ [][Next]_<<records, readable>>
=============================================================================

------------------------------- MODULE Channel -------------------------------
(***************************************************************************)
(* What a connection promises the two that use it: whole packets, in the   *)
(* order they were sent, none twice and none left out.  Some of the last   *)
(* ones may never arrive.                                                  *)
(***************************************************************************)
EXTENDS Naturals, Sequences

CONSTANT Packets

VARIABLES
    sent,
    received

Init ==
    /\ sent = <<>>
    /\ received = <<>>

Send ==
    /\ \E p \in Packets : sent' = Append(sent, p)
    /\ UNCHANGED received

Receive ==
    /\ Len(received) < Len(sent)
    /\ received' = Append(received, sent[Len(received) + 1])
    /\ UNCHANGED sent

Next == Send \/ Receive

Spec == Init /\ [][Next]_<<sent, received>>
=============================================================================

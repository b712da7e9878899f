------------------------------- MODULE Inbox --------------------------------
(***************************************************************************)
(* What prompt() and steer() promise whoever calls them: an input that was *)
(* accepted is handed to the conversation once, in the order in which the  *)
(* inputs were accepted, and is never taken back.  Only a restart of the   *)
(* process may forget inputs, and only those not yet handed over.          *)
(***************************************************************************)
EXTENDS Integers, SequencesExt

CONSTANT Message

VARIABLES accepted, delivered, restarts

Init == accepted = <<>> /\ delivered = <<>> /\ restarts = 0

Accept == \E m \in Message : accepted' = Append(accepted, m)

\* Nothing, or the oldest inputs not yet delivered.
Deliver ==
    \E n \in Len(delivered) .. Len(accepted') : delivered' = SubSeq(accepted', 1, n)

Step == (Accept \/ UNCHANGED accepted) /\ Deliver /\ UNCHANGED restarts

Restart == restarts' = restarts + 1 /\ UNCHANGED delivered /\ accepted' = delivered

Next == Step \/ Restart

Spec == Init /\ [][Next]_<<accepted, delivered, restarts>>
=============================================================================

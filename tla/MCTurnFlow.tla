----------------------------- MODULE MCTurnFlow -----------------------------
(* Two turns, the second of which may begin while a cancelled worker of the *)
(* first still winds down.                                                  *)
EXTENDS TurnFlow

\* Bound: the first turn is as long as its budget allows while it is alone; two turns share
\* two steps with a call each.
Short ==
    \/ turnId < 2
    \/ /\ worker[1].step + worker[2].step <= 2
       /\ \A t \in Turns : worker[t].calls <= 1
=============================================================================

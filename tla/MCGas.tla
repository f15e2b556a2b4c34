------------------------------- MODULE MCGas --------------------------------
(* Amounts so small that every order between them that matters occurs: a   *)
(* frame can be unable to pay for each of the charges of a call in turn,   *)
(* and the stipend is more than a call costs, as it is since Berlin.       *)
EXTENDS Gas

MCCallCost == [f \in Forks |-> 1]
=============================================================================

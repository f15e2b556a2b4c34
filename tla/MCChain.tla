------------------------------ MODULE MCChain -------------------------------
(***************************************************************************)
(* A tree of six blocks for the model checker: a chain of three, a fork in *)
(* its middle, a second child of the base, and a block whose parent is     *)
(* never added.                                                            *)
(***************************************************************************)
EXTENDS Chain

CONSTANTS genesis, a1, a2, a3, b2, c1, x2, lost

MCHash   == {genesis, a1, a2, a3, b2, c1, x2, lost}
MCBlock  == {a1, a2, a3, b2, c1, x2}
MCParent ==
  [b \in MCBlock |-> CASE b \in {a1, c1} -> genesis
                       [] b \in {a2, b2} -> a1
                       [] b = a3 -> a2
                       [] b = x2 -> lost]
=============================================================================

------------------------------ MODULE ChainAbs ------------------------------
(***************************************************************************)
(* What the block tree promises its callers (the doc comments of           *)
(* chain.rs): blocks may be added in any order, each one is kept once, and *)
(* a block is attached exactly when it is connected to the base through    *)
(* known blocks.  Every operation is one atomic step.                      *)
(***************************************************************************)
EXTENDS BlockTree

VARIABLES
  attached, \* hashes of the blocks connected to the base
  orphans   \* hashes of the known blocks that are not

Init == attached = {Base} /\ orphans = {}

AddBlock(b) ==
  LET known == attached \cup orphans \cup {b} IN
    /\ attached' = Connected(known)
    /\ orphans'  = known \ Connected(known)

RemoveOrphans == attached' = attached /\ orphans' = {}

Next == (\E b \in Block : AddBlock(b)) \/ RemoveOrphans

Spec == Init /\ [][Next]_<<attached, orphans>>
=============================================================================

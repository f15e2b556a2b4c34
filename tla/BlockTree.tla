------------------------------ MODULE BlockTree -----------------------------
(***************************************************************************)
(* The data of the block tree (chain.rs): blocks named by their hashes,    *)
(* the parent hash each one carries, and which of a set of known blocks    *)
(* are transitively attached to the base.                                  *)
(***************************************************************************)
CONSTANTS
  Hash,     \* the hashes a block can have or name as its parent
  Block,    \* the hashes of the blocks that may be added
  Base,     \* the hash of the base block
  Parent    \* the parent hash each block carries

ASSUME ChainAssumption ==
  /\ Block \subseteq Hash
  /\ Base \in Hash \ Block
  /\ Parent \in [Block -> Hash]

(* S holds the base and, of the known blocks, every child of a member. *)
ClosedIn(known, S) ==
  /\ Base \in S
  /\ S \subseteq known
  /\ \A b \in known \cap Block : Parent[b] \in S => b \in S

(* The known blocks with an unbroken line of known ancestors down to the   *)
(* base: the least closed set.                                             *)
Connected(known) ==
  {h \in known : \A S \in SUBSET known : ClosedIn(known, S) => h \in S}
=============================================================================

-------------------------------- MODULE Chain -------------------------------
(***************************************************************************)
(* The block tree of chain.rs: blocks are added in any order, a block      *)
(* whose parent is not attached waits in orphan_on under the parent's      *)
(* hash, and attaching a block sweeps its waiting descendants breadth      *)
(* first.  add_block is modelled with its loop unfolded, one iteration of  *)
(* `while let Some(u) = q.pop_front()` per step; the caller holds          *)
(* `&mut self`, so no other operation is enabled while the queue is not    *)
(* empty.  A block is represented by its hash.                             *)
(***************************************************************************)
EXTENDS BlockTree, Sequences

VARIABLES
  attached,  \* keys of the `attached` map
  orphans,   \* keys of the `orphans` map
  orphan_on, \* the waiting list of each hash, << >> when the map has no entry
  q          \* the queue of add_block's sweep, << >> outside add_block

vars == <<attached, orphans, orphan_on, q>>

Elems(s) == {s[i] : i \in DOMAIN s}

Init ==
  /\ attached  = {Base}
  /\ orphans   = {}
  /\ orphan_on = [h \in Hash |-> << >>]
  /\ q         = << >>

(* The blocks add_block returns early for: it has them already. *)
IsKnownAttachedOnly(b) == b \in attached  \* mutant: no look-up in `orphans`
IsKnown(b) == b \in attached \cup orphans

(* The waiting list of b's parent after b joined it. *)
WaitingOfParent(b) == Append(orphan_on[Parent[b]], Parent[b])  \* mutant
Waiting(b) == Append(orphan_on[Parent[b]], b)

(* The queue after one iteration of the sweep: u is popped, what waited on *)
(* it is pushed.                                                           *)
RequeueNothing(u) == Tail(q)           \* mutant: one level is swept only
RequeuePeeked(u) == q \o orphan_on[u]  \* mutant: u is read but not popped
Requeue(u) == Tail(q) \o orphan_on[u]

(* add_block for a block it has: no state change. *)
AddKnown(b) ==
  /\ q = << >>
  /\ IsKnown(b)
  /\ UNCHANGED vars

(* The `None` arm: the parent is not attached. *)
AddOrphan(b) ==
  /\ q = << >>
  /\ ~IsKnown(b)
  /\ Parent[b] \notin attached
  /\ orphan_on' = [orphan_on EXCEPT ![Parent[b]] = Waiting(b)]
  /\ orphans'   = orphans \cup {b}
  /\ UNCHANGED <<attached, q>>

(* The `Some(_)` arm up to the loop. *)
AddAttached(b) ==
  /\ q = << >>
  /\ ~IsKnown(b)
  /\ Parent[b] \in attached
  /\ attached' = attached \cup {b}
  /\ q'        = <<b>>
  /\ UNCHANGED <<orphans, orphan_on>>

(* One iteration of the loop: everything that waits on the popped hash is  *)
(* moved to `attached` and queued in the order of the waiting list.        *)
Sweep ==
  /\ q # << >>
  /\ LET u == Head(q) IN
       /\ orphan_on' = [orphan_on EXCEPT ![u] = << >>]
       /\ orphans'   = orphans \ Elems(orphan_on[u])
       /\ attached'  = attached \cup Elems(orphan_on[u])
       /\ q'         = Requeue(u)

(* Mutant: the attached blocks go with the orphans. *)
RemoveAll ==
  /\ q = << >>
  /\ attached'  = {Base}
  /\ orphans'   = {}
  /\ orphan_on' = [h \in Hash |-> << >>]
  /\ UNCHANGED q

RemoveOrphans ==
  /\ q = << >>
  /\ orphans'   = {}
  /\ orphan_on' = [h \in Hash |-> << >>]
  /\ UNCHANGED <<attached, q>>

Next ==
  \/ \E b \in Block : AddKnown(b) \/ AddOrphan(b) \/ AddAttached(b)
  \/ Sweep
  \/ RemoveOrphans

Spec == Init /\ [][Next]_vars

(* add_block is a sequential function: once entered, its loop keeps running. *)
FairSpec == Spec /\ WF_vars(Sweep)

-----------------------------------------------------------------------------
(* Properties.                                                             *)

Known == attached \cup orphans

(* The maps hold hashes, the lists hold blocks. *)
TypeOK ==
  /\ attached \subseteq Hash
  /\ orphans \subseteq Block
  /\ orphan_on \in [Hash -> Seq(Block)]
  /\ q \in Seq(Block)

(* The parts of the inductive invariant.                                   *)
(* A block is attached or an orphan, never both; the base is attached.     *)
OneMap == Base \in attached /\ attached \cap orphans = {}

(* The waiting lists index the orphans by parent: every orphan is in the   *)
(* list of its parent, once, and nothing else is in any list.              *)
ListsIndexOrphans ==
  /\ \A h \in Hash : Elems(orphan_on[h]) = {o \in orphans : Parent[o] = h}
  /\ \A h \in Hash : \A i, j \in DOMAIN orphan_on[h] :
       orphan_on[h][i] = orphan_on[h][j] => i = j

(* An orphan whose parent is already attached is about to be swept: its    *)
(* parent is still in the queue.  What is queued is attached.              *)
SweepPending ==
  /\ Elems(q) \subseteq attached
  /\ \A o \in orphans : Parent[o] \in attached => Parent[o] \in Elems(q)

(* Attached blocks hang from attached blocks, all the way down to the base. *)
Rooted ==
  /\ \A b \in attached \cap Block : Parent[b] \in attached
  /\ attached \subseteq Connected(Known)

(* The invariant that the proofs of ChainProofs carry through every step:  *)
(* chain.rs keeps its three maps consistent even between two iterations of *)
(* the sweep.                                                              *)
Inv == TypeOK /\ OneMap /\ ListsIndexOrphans /\ SweepPending /\ Rooted

(* `self.orphans.remove(&orphan).unwrap()` (chain.rs:79) never panics:     *)
(* every hash in the waiting list being cleared is still an orphan and     *)
(* stands in the list only once.                                           *)
UnwrapNeverFails ==
  q # << >> =>
    LET waiting == orphan_on[Head(q)] IN
      /\ Elems(waiting) \subseteq orphans
      /\ \A i, j \in DOMAIN waiting : waiting[i] = waiting[j] => i = j

(* When add_block has returned, is_attached is exactly "transitively       *)
(* attached to the base" (chain.rs:30), whatever the order in which the    *)
(* blocks arrived and whichever orphans were dropped in between.           *)
AttachedExact == q = << >> => attached = Connected(Known)

(* The tree implements ChainAbs: with its sweep, add_block looks like one  *)
(* atomic step that recomputes which blocks are connected.                 *)
Abs == INSTANCE ChainAbs WITH
         attached <- Connected(Known),
         orphans  <- Known \ Connected(Known)
ImplementsAbs == Abs!Spec

(* The sweep of add_block terminates, so add_block returns.                *)
SweepTerminates == (q # << >>) ~> (q = << >>)
=============================================================================

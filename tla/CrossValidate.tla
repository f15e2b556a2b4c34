---------------------------- MODULE CrossValidate ---------------------------
(***************************************************************************)
(* The in-memory world state and the flat reference store driven by the    *)
(* same calls, as tests/state.rs:147 (test_random_cross_validate) does     *)
(* with random writes and snapshots; here every sequence of calls up to    *)
(* the bounds is tried, with account creation, logs, rollback and          *)
(* consolidation at any point as well.  Deletion is left out, as the test  *)
(* leaves it out: the two disagree on it (WritesAreLocal).                 *)
(***************************************************************************)
EXTENDS MemState

VARIABLE store  \* the reference stores, one per handle

Flat == INSTANCE FlatState

CVInit == Init /\ Flat!Init

CVNext ==
  \E h \in Handle :
    \/ \E a \in Addr :
         \/ \E f \in Field, v \in Val : SetField(h, a, f, v) /\ Flat!SetField(h, a, f, v)
         \/ CreateAccount(h, a) /\ Flat!CreateAccount(h, a)
         \/ AddLog(h, a) /\ Flat!AddLog(h, a)
    \/ AddLogPanics(h) /\ UNCHANGED store
    \/ \E g \in Handle :
         \/ Snapshot(h, g) /\ Flat!Copy(h, g)
         \/ Rollback(h, g) /\ Flat!Rollback(h, g)
         \/ \E steps \in 0 .. MaxRev : Consolidate(h, g, steps) /\ Flat!Copy(h, g)
    \/ Drop(h) /\ Flat!Drop(h)

CVSpec == CVInit /\ [][CVNext]_<<vars, store>>

(* check_same (tests/state.rs:128): whatever the calls were, every object  *)
(* reads exactly as its flat copy does.  So the chains of revisions cannot *)
(* be told from full copies: snapshot, rollback and consolidation with any *)
(* number of back steps included.                                          *)
CheckSame == \A h \in Handle : Held(h) => View(h) = store[h]
=============================================================================

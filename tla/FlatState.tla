------------------------------ MODULE FlatState -----------------------------
(***************************************************************************)
(* What a world state promises (the traits WorldStateR, WorldStateW and    *)
(* WorldState of core/mod.rs), as the reference store DummyStateStore of   *)
(* tools/src/dummy.rs implements it: an account is one flat record, a      *)
(* snapshot is a copy of the whole store, a rollback swaps the copy back.  *)
(* An account that does not exist reads as zero in every field.  The log   *)
(* records, which that store only prints, are kept here, so that losing or *)
(* reordering one would be noticed.                                        *)
(***************************************************************************)
EXTENDS Sequences

CONSTANTS
  Addr,      \* account addresses
  Scalar,    \* the single-valued fields of an account: balance, nonce, code
  Key,       \* storage keys
  Val,       \* values of a field
  Zero,      \* the zero value: no balance, nonce 0, empty code, zero word
  Handle,    \* the names of the world state objects a client may hold
  Initial,   \* the object the client starts with
  Origin,    \* the accounts the external source holds at the start
  OriginVal  \* their fields

Field == Scalar \cup Key

VARIABLE store   \* what each handle holds, Dropped when it is not in use

CONSTANT Dropped

Blank == [f \in Field |-> Zero]

Init ==
  store = [h \in Handle |->
             IF h = Initial
             THEN [exist |-> Origin,
                   val   |-> [a \in Addr |-> IF a \in Origin THEN OriginVal ELSE Blank],
                   logs  |-> << >>]
             ELSE Dropped]

Held(h) == store[h] # Dropped

SetField(h, a, f, v) ==
  /\ Held(h)
  /\ store' = [store EXCEPT ![h].exist = @ \cup {a}, ![h].val[a][f] = v]

CreateAccount(h, a) ==
  /\ Held(h)
  /\ store' = [store EXCEPT
                 ![h].exist  = @ \cup {a},
                 ![h].val[a] = [Blank EXCEPT !["balance"] = store[h].val[a]["balance"]]]

AddLog(h, a) ==
  /\ Held(h)
  /\ store' = [store EXCEPT ![h].logs = Append(@, a)]

(* A snapshot, like a consolidated shared copy, holds what h holds. *)
Copy(h, g) ==
  /\ Held(h) /\ ~Held(g)
  /\ store' = [store EXCEPT ![g] = store[h]]

Rollback(h, g) ==
  /\ Held(h) /\ Held(g) /\ g # h
  /\ store' = [store EXCEPT ![h] = store[g], ![g] = Dropped]

Drop(g) ==
  /\ Held(g)
  /\ store' = [store EXCEPT ![g] = Dropped]
=============================================================================

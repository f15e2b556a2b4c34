-------------------------------- MODULE World -------------------------------
(***************************************************************************)
(* World states as the interpreter uses them: a value with the operations  *)
(* of the traits WorldStateR and WorldStateW (core/mod.rs) and of          *)
(* Transferable and WorldStateExtra (core/exec.rs).  A snapshot is a copy  *)
(* of the value, which is what module MemState is shown to provide.  An    *)
(* account has one storage slot; its code is present or not; of the logs   *)
(* only their number is kept.                                              *)
(***************************************************************************)
EXTENDS Naturals, FiniteSetsExt

CONSTANT Addr    \* account addresses

ASSUME AddrAssumption == IsFiniteSet(Addr)

SetBalance(w, a, v) == [w EXCEPT !.balance[a] = v, !.exist = @ \cup {a}]
SetNonce(w, a, n)   == [w EXCEPT !.nonce[a] = n,   !.exist = @ \cup {a}]
SetCode(w, a, c)    == [w EXCEPT !.code[a] = c,    !.exist = @ \cup {a}]
SetState(w, a, v)   == [w EXCEPT !.slot[a] = v,    !.exist = @ \cup {a}]
AddLog(w)           == [w EXCEPT !.logs = @ + 1]

(* A fresh account keeps the balance the address already had. *)
CreateAccount(w, a) ==
  [w EXCEPT !.nonce[a] = 0, !.code[a] = FALSE, !.slot[a] = 0, !.exist = @ \cup {a}]

DeleteAccounts(w, S) ==
  [balance |-> [a \in Addr |-> IF a \in S THEN 0 ELSE w.balance[a]],
   nonce   |-> [a \in Addr |-> IF a \in S THEN 0 ELSE w.nonce[a]],
   code    |-> [a \in Addr |-> a \notin S /\ w.code[a]],
   slot    |-> [a \in Addr |-> IF a \in S THEN 0 ELSE w.slot[a]],
   exist   |-> w.exist \ S,
   logs    |-> w.logs]

(* transfer_balance: sub_balance, then add_balance on what that left. *)
TransferStale(w, from, to, v) ==         \* mutant: both balances read first
  SetBalance(SetBalance(w, from, w.balance[from] - v), to, w.balance[to] + v)
Transfer(w, from, to, v) ==
  LET paid == SetBalance(w, from, w.balance[from] - v)
  IN  SetBalance(paid, to, paid.balance[to] + v)

IsEmpty(w, a) == w.nonce[a] = 0 /\ w.balance[a] = 0 /\ ~w.code[a]

(* What a contract can find out: everything but whether an account that is *)
(* empty in all respects exists (EIP-161).                                 *)
Observable(w) == <<w.balance, w.nonce, w.code, w.slot, w.logs>>

Total(w) == MapThenSumSet(LAMBDA a : w.balance[a], Addr)
=============================================================================

----------------------------- MODULE Signature ------------------------------
(***************************************************************************)
(* Which signatures a transaction is accepted with (tx.rs): what the field *)
(* v says of the chain the transaction is for, and of the recovery id that *)
(* recovers the sender.  The elliptic curve is left out; so is the range   *)
(* of r and s.                                                             *)
(*                                                                         *)
(* Widths: a byte, u64 and U256 have ByteMod, U64Mod and WordMod values.   *)
(* u64 arithmetic panics on overflow in a build with checks and wraps      *)
(* around in one without; U256 arithmetic always panics.                   *)
(***************************************************************************)
EXTENDS Integers

CONSTANTS ByteMod, U64Mod, WordMod

ASSUME SignatureAssumption ==
  /\ ByteMod \in Nat /\ U64Mod \in Nat /\ WordMod \in Nat
  /\ 35 < ByteMod /\ ByteMod <= U64Mod /\ U64Mod <= WordMod

Rejected == -1
Panicked == -2

SubU64(a, b, checked) ==
  IF a >= b THEN a - b ELSE IF checked THEN Panicked ELSE (a - b) % U64Mod

SubWord(a, b) == IF a >= b THEN a - b ELSE Panicked

(* TxLegacy::derive_chain_id. *)
DeriveChainId(v, checked) ==
  IF v < U64Mod
  THEN IF v \in {27, 28} THEN 0
       ELSE LET d == SubU64(v, 35, checked) IN IF d = Panicked THEN d ELSE d \div 2
  ELSE SubWord(v, 35) \div 2

(* TxLegacy::protected. *)
Protected(v) == ~(v < ByteMod /\ v \in {0, 1, 27, 28})

(* recover_plain: the recovery id. *)
RecoverPlain(vb, checked) ==
  IF vb >= ByteMod THEN Rejected
  ELSE LET id == SubU64(vb, 27, checked)
       IN  IF id = Panicked THEN id ELSE IF id \in {0, 1} THEN id ELSE Rejected

(* recover_sender: the recovery id, and whether the chain id is part of    *)
(* what was signed.                                                        *)
LegacyPlainV(v, chainId) == SubWord(v, (2 * chainId) % WordMod)     \* mutant: not 8
LegacyV(v, chainId) ==
  LET w == SubWord(v, (2 * chainId) % WordMod)
  IN  IF w = Panicked THEN w ELSE SubWord(w, 8)

RecoverLegacy(v, chainId, checked) ==
  LET own == DeriveChainId(v, checked) IN
  IF own = Panicked THEN Panicked
  ELSE IF own # chainId THEN Rejected
  ELSE IF ~Protected(v) THEN RecoverPlain(v, checked)
  ELSE IF LegacyV(v, chainId) = Panicked THEN Panicked
  ELSE RecoverPlain(LegacyV(v, chainId), checked)

RecoverTypedAnywhere(v, own, chainId, checked) ==        \* mutant: for any chain
  IF v + 27 >= WordMod THEN Panicked ELSE RecoverPlain(v + 27, checked)
RecoverTyped(v, own, chainId, checked) ==
  IF own # chainId THEN Rejected
  ELSE IF v + 27 >= WordMod THEN Panicked
  ELSE RecoverPlain(v + 27, checked)
=============================================================================

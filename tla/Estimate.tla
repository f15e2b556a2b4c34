------------------------------ MODULE Estimate ------------------------------
(***************************************************************************)
(* eth_estimateGas (do_estimate_gas in examples/demo.rs): the search for   *)
(* the least gas with which a call succeeds.  The calls are made on the    *)
(* same state each time, so whether one succeeds depends on the gas alone; *)
(* `ok` is the set of amounts for which it does.                           *)
(***************************************************************************)
EXTENDS Integers

CONSTANTS
  GasTx,       \* GAS_TX: what any transaction costs
  MaxLimit     \* bound on the gas

ASSUME EstimateAssumption == GasTx \in Nat \ {0} /\ MaxLimit \in Nat

GasRange == 0 .. MaxLimit
NoGas    == -1           \* `None`

Capped(high, cap) == IF high > cap THEN cap ELSE high

(* Where the search starts from: the gas of the request if it is enough    *)
(* for any transaction, else that of the block, within what the sender can *)
(* pay for and what the node allows (0: no limit).                         *)
HighStart(asked, limit, allowed, cap) ==
  LET high == Capped(IF asked >= GasTx THEN asked ELSE limit, allowed)
  IN  IF cap # 0 THEN Capped(high, cap) ELSE high

(* The binary search: it goes on while there is an amount in between, and  *)
(* tries the one in the middle.                                            *)
LowStartLate == GasTx        \* mutant: GasTx itself is never tried
LowStart     == GasTx - 1

Wide(low, high) == low + 1 < high
Mid(low, high)  == (low + high) \div 2

NewLow(ok, low, high)  == IF Mid(low, high) \in ok THEN low ELSE Mid(low, high)
NewHigh(ok, low, high) == IF Mid(low, high) \in ok THEN Mid(low, high) ELSE high

(* The end of the range has not been tried when the search ends there. *)
ConfirmNever(ok, high0, high) == high        \* mutant
Confirm(ok, high0, high) == IF high = high0 /\ high \notin ok THEN NoGas ELSE high
=============================================================================

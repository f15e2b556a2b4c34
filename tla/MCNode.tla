------------------------------- MODULE MCNode -------------------------------
(* Two transactions the account can pay for, of which the second spends    *)
(* the rest, and one for which the fee overflows.                          *)
EXTENDS Node

CONSTANTS payer, burn, con, t1, t2, t3

MCFee == [t \in Tx |-> IF t = t2 THEN 2 ELSE 1]
=============================================================================

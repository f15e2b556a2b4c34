------------------------------ MODULE MCTxExec ------------------------------
(* The sender, a contract with something stored, a precompiled contract    *)
(* that has no account, and an address where a contract may be created.    *)
EXTENDS TxExec

CONSTANTS sender, con, pre, fresh

MCWorld0 ==
  [balance |-> [a \in Addr |-> IF a = sender THEN 2 ELSE IF a = con THEN 1 ELSE 0],
   nonce   |-> [a \in Addr |-> IF a \in {sender, con} THEN 1 ELSE 0],
   code    |-> [a \in Addr |-> a = con],
   slot    |-> [a \in Addr |-> IF a = con THEN 1 ELSE 0],
   exist   |-> {sender, con},
   logs    |-> 0]
=============================================================================

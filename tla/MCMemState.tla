----------------------------- MODULE MCMemState -----------------------------
(***************************************************************************)
(* Two accounts, one of which the external source already holds, with one  *)
(* storage key; `code` stands for code and nonce, which the deltas treat   *)
(* alike.                                                                  *)
(***************************************************************************)
EXTENDS CrossValidate

CONSTANTS old, fresh, k, h1, h2

MCScalar    == {"balance", "code"}
MCOriginVal == [f \in MCScalar \cup {k} |-> 1]
=============================================================================

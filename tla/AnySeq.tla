------------------------------- MODULE AnySeq -------------------------------
(* Sequences of whatever they are sequences of. *)
EXTENDS Sequences

IsSeq(H) == H \in Seq({H[r] : r \in DOMAIN H})
=============================================================================

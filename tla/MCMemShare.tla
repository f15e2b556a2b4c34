----------------------------- MODULE MCMemShare -----------------------------
(* The sharing of revisions alone, with deletion and re-creation of        *)
(* accounts at any time; the external source holds the account `old`.      *)
EXTENDS MemState

CONSTANTS old, fresh, k, h1, h2, h3

MCScalar    == {"balance"}
MCOriginVal == [f \in {"balance", k} |-> 1]
Symmetry    == Permutations({h2, h3})
=============================================================================

----------------------------- MODULE MCPrivsep -----------------------------
(* Privsep for TLC: more requests than failures are allowed. *)
EXTENDS Privsep
=============================================================================

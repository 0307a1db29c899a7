--------------------------- MODULE MCHandleTable ---------------------------
(* HandleTable for TLC: descriptors and names are interchangeable. *)
EXTENDS HandleTable, TLC

Symmetry == Permutations(Fds) \cup Permutations(Names)
=============================================================================

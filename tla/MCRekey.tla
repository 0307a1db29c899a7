------------------------------ MODULE MCRekey ------------------------------
(* Rekey for TLC: three packets each way, three exchanges after the first. *)
EXTENDS Rekey
=============================================================================

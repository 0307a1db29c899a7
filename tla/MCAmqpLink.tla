----------------------------- MODULE MCAmqpLink -----------------------------
(* AmqpLink for TLC: with and without heartbeats. *)
EXTENDS AmqpLink
=============================================================================

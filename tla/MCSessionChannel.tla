-------------------------- MODULE MCSessionChannel --------------------------
(* SessionChannel for TLC: a window and pipes that are smaller than what   *)
(* is sent through them.                                                   *)
EXTENDS SessionChannel
=============================================================================

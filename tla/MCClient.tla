------------------------------ MODULE MCClient ------------------------------
(* One page and the sessions it starts, small enough for TLC. *)
EXTENDS Client
=============================================================================

----------------------------- MODULE MCGateway -----------------------------
(* One gateway call, small enough for TLC. *)
EXTENDS Gateway
=============================================================================

---------------------------- MODULE MCNetServers ----------------------------
(* NetServers for TLC. *)
EXTENDS NetServers
=============================================================================

--------------------------- MODULE MCPropertyLock ---------------------------
(* PropertyLock for TLC. *)
EXTENDS PropertyLock
=============================================================================

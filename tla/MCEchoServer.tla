---------------------------- MODULE MCEchoServer ----------------------------
(* EchoServer for TLC. *)
EXTENDS EchoServer
=============================================================================

---------------------------- MODULE MCSocketTimers ----------------------------
(* SocketTimers for TLC. *)
EXTENDS SocketTimers
=============================================================================

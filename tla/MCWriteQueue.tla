----------------------------- MODULE MCWriteQueue -----------------------------
(* WriteQueue for TLC. *)
EXTENDS WriteQueue
=============================================================================

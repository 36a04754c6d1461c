---------------------------- MODULE MCMixedWrites ----------------------------
(* MixedWrites for TLC. *)
EXTENDS MixedWrites
=============================================================================

------------------------ MODULE MCBoostSessionManager ------------------------
(* BoostSessionManager for TLC. *)
EXTENDS BoostSessionManager
=============================================================================

------------------------------ MODULE MCLifetime ------------------------------
(* Lifetime for TLC. *)
EXTENDS Lifetime
=============================================================================

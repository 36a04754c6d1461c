--------------------------- MODULE MCSessionManager ---------------------------
(* SessionManager for TLC. *)
EXTENDS SessionManager, TLC

Symmetry == Permutations(Sessions) \cup Permutations(IPs)
=============================================================================

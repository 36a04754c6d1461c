------------------------------ MODULE MCLocking ------------------------------
(* Locking for TLC.  Threads are interchangeable. *)
EXTENDS Locking, TLC

ThreadSymmetry == Permutations(Threads)
=============================================================================

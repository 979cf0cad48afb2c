-------------------------------- MODULE MCLockout --------------------------------
(* Logins on a small instance; requests are interchangeable. *)
EXTENDS Lockout, TLC

Symmetry == Permutations(Callers)
=============================================================================

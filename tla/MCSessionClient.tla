---------------------------- MODULE MCSessionClient ----------------------------
(* Instances of SessionClient for TLC. *)
EXTENDS SessionClient, TLC

Symmetry == Permutations(Requests)
=============================================================================

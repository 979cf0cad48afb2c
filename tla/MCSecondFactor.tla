----------------------------- MODULE MCSecondFactor -----------------------------
(* The second factor on a small instance; requests are interchangeable. *)
EXTENDS SecondFactor, TLC

Symmetry == Permutations(Callers)

\* What follows a second race is not explored.
OneRace == Cardinality(mishaps) <= 1
=============================================================================

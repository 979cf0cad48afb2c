---------------------------- MODULE MCRollbackSync ----------------------------
(* Instances of RollbackSync for TLC. *)
EXTENDS RollbackSync, TLC

Symmetry ==
  Permutations(Devices) \cup Permutations(Items) \cup Permutations(Contents)

\* Identifiers and envelopes are interchangeable until they are used: taken in order.
InOrder ==
  /\ \A i \in (minted' \ minted) \cap Items : i = CHOOSE j \in Items \ minted : TRUE
  /\ \A c \in (minted' \ minted) \cap Contents : c = CHOOSE e \in Contents \ minted : TRUE

\* The bounds of edits and of failures, taken together.
Budget == edits + failures <= 3

\* What Record records no action reads, and convergence is not about it.
Unrecorded ==
  <<serverVars, deviceVars, editor, countVars, committed, guardVars, keyVars,
    disasterVars, unpublished>>
=============================================================================

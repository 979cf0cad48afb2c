---------------------------- MODULE MCSyncHistory -----------------------------
(* Instance of SyncHistory for TLC. *)
EXTENDS SyncHistory, TLC

Symmetry ==
  Permutations(Devices) \cup Permutations(Items) \cup Permutations(Contents)

\* The bounds of edits and of failures, taken together.
Budget == edits + failures <= 4
=============================================================================

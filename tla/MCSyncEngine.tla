----------------------------- MODULE MCSyncEngine -----------------------------
(* Instances of SyncEngine for TLC. *)
EXTENDS SyncEngine, TLC

Symmetry ==
  Permutations(Devices) \cup Permutations(Items) \cup Permutations(Contents)
=============================================================================

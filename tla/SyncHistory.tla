------------------------------ MODULE SyncHistory ------------------------------
(***************************************************************************)
(* The devices of SyncEngine over an item store that remembers every vault *)
(* it ever held (VaultHistory), so that the promise of the delta listing   *)
(* is checked on the tables that devices, purges and failures really lead  *)
(* to.                                                                     *)
(***************************************************************************)
EXTENDS SyncEngine, VaultHistory

\* The sync counter tells a write of an item.
Remember == IF sync_seq' > sync_seq THEN RecordWrite ELSE UNCHANGED history

SyncHistoryVars == <<vars, history>>

SyncHistoryInit ==
  /\ SyncInit
  /\ history = [s \in {0} |-> Snapshot]

SyncHistorySpec ==
  /\ SyncHistoryInit
  /\ [][SyncNext /\ Remember]_SyncHistoryVars
=============================================================================

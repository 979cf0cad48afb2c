----------------------------- MODULE VaultHistory -----------------------------
(***************************************************************************)
(* VaultItems with a history variable: the vault as it stood after every   *)
(* write.  It lets the promise of the delta listing be stated: a client    *)
(* that holds the vault of any earlier sequence number and applies one     *)
(* listing holds the vault of now.                                         *)
(***************************************************************************)
EXTENDS VaultItems

VARIABLE history   \* history[s]: the vault after the write that took s

vaultVars == <<serverVars, history>>

\* The vault a user sees: tombstones count as absent.
Snapshot == [i \in Items |-> IF rows[i].deleted THEN NoRow ELSE rows[i]]

HInit == Init /\ history = [s \in {0} |-> Snapshot]

RecordWrite ==
  history' = [s \in 0..sync_seq' |->
                IF s = sync_seq' THEN Snapshot' ELSE history[s]]

HPut ==
  /\ \E i \in Items, r \in 1..(MaxSeq + 1), c \in Contents : PutItem(i, r, c)
  /\ RecordWrite

HDelete ==
  /\ \E i \in Items, r \in 0..MaxSeq : DeleteItem(i, r)
  /\ RecordWrite

HQuiet ==
  /\ \/ \E old \in SUBSET Tombstones : Purge(old)
     \/ \E s \in 0..sync_seq, t \in Tags : PutCheckpoint(s, t)
  /\ UNCHANGED history

HNext == HPut \/ HDelete \/ HQuiet

HSpec == HInit /\ [][HNext]_vaultVars

-----------------------------------------------------------------------------
\* The vault of a client that held history[s] and applied the listing since s:
\* on a full resync it starts from nothing.
CaughtUp(s) ==
  [i \in Items |->
     IF i \in Listed(rows, purged_before_seq, s) THEN Snapshot[i]
     ELSE IF FullResync(purged_before_seq, s) THEN NoRow
     ELSE history[s][i]]

\* The delta listing is complete whatever the client's cursor, however old:
\* no update, deletion or purge is ever missing from it (items.rs:119-124).
DeltaComplete == \A s \in 0..sync_seq : CaughtUp(s) = Snapshot

\* The inductive form: where a snapshot of the past differs from the present,
\* the item's row is newer than it, or the row has been purged and the horizon
\* has passed the snapshot.
DifferenceListed ==
  \A s \in 0..sync_seq, i \in Items :
    history[s][i] # Snapshot[i] =>
      \/ rows[i].seq > s
      \/ rows[i] = NoRow /\ s < purged_before_seq

HistoryShape ==
  /\ history \in [0..sync_seq -> [Items -> Row]]
  /\ history[0] = [i \in Items |-> NoRow]

DeltaInv == TypeOK /\ TableShape /\ HistoryShape /\ DifferenceListed
=============================================================================

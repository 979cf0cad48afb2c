------------------------------ MODULE VaultItems ------------------------------
(***************************************************************************)
(* The item store of one account, as server/vault-server keeps it          *)
(* (routes/items.rs): one row per item under a per-account sequence        *)
(* number, optimistic writes, tombstones, the lazy purge of old tombstones *)
(* with its horizon, and the rollback checkpoint.                          *)
(*                                                                         *)
(* Every handler is one SQLite transaction and is one action here;         *)
(* VaultItemsTx splits the transactions into their statements and shows    *)
(* that this is what they amount to.  A request that changes nothing (a    *)
(* conflict, a missing item, a repeated delete) is a predicate that the    *)
(* clients' modules use as the reply they get.                             *)
(***************************************************************************)
EXTENDS Integers

CONSTANTS
  Items,      \* item identifiers of the account
  Contents,   \* encrypted envelopes, told apart but never looked into
  NoContent,  \* the NULL content of a tombstone
  Tags,       \* checkpoint MACs, told apart but never looked into
  NoTag,      \* the NULL tag of an account without a checkpoint
  MaxSeq      \* bound on sync_seq: how many writes the account may see

ASSUME VaultItemsAssumption ==
  /\ NoContent \notin Contents
  /\ NoTag \notin Tags
  /\ MaxSeq \in Nat

VARIABLES
  rows,               \* vault_items: the row of every item
  sync_seq,           \* accounts.sync_seq: the last sequence number given out
  purged_before_seq,  \* accounts.purged_before_seq: the purge horizon
  checkpoint          \* accounts.checkpoint_seq and checkpoint_tag

serverVars == <<rows, sync_seq, purged_before_seq, checkpoint>>

\* An item the table holds no row for: "unwrap_or(0)" gives it revision 0.
NoRow == [revision |-> 0, seq |-> 0, deleted |-> FALSE, content |-> NoContent]

LiveRow == [revision : Nat \ {0}, seq : Nat \ {0}, deleted : {FALSE},
            content : Contents]

Tombstone == [revision : Nat \ {0}, seq : Nat \ {0}, deleted : {TRUE},
              content : {NoContent}]

Row == LiveRow \cup Tombstone \cup {NoRow}

\* checkpoint_seq IS NULL.
NoCheckpoint == [seq |-> -1, tag |-> NoTag]

Exists(i) == rows[i].revision > 0
Live(i) == Exists(i) /\ ~rows[i].deleted

-----------------------------------------------------------------------------
(* Writes. *)

\* A write takes the next sequence number.
next_seq == sync_seq + 1

WriteRow(i, row) ==
  /\ sync_seq < MaxSeq
  /\ sync_seq' = next_seq
  /\ rows' = [rows EXCEPT ![i] = row]
  /\ UNCHANGED <<purged_before_seq, checkpoint>>

\* Mutant: the last writer wins.
PutMatchesAlways(i, new_revision) == new_revision > 0

\* The optimistic check of an upsert: it produces the successor revision.
PutMatches(i, new_revision) == new_revision = rows[i].revision + 1

PutItem(i, new_revision, content) ==
  /\ PutMatches(i, new_revision)
  /\ WriteRow(i, [revision |-> new_revision, seq |-> next_seq,
                  deleted |-> FALSE, content |-> content])

\* The three answers to a delete that change nothing are: 404 for an item
\* without a row, success for a tombstone, a conflict for another revision.
DeleteMatches(i, base_revision) ==
  Live(i) /\ base_revision = rows[i].revision

\* Mutant: a delete that reuses the last sequence number.
DeleteItemInPlace(i, base_revision) ==
  /\ DeleteMatches(i, base_revision)
  /\ rows' = [rows EXCEPT ![i] = [revision |-> rows[i].revision + 1,
                seq |-> sync_seq, deleted |-> TRUE, content |-> NoContent]]
  /\ UNCHANGED <<sync_seq, purged_before_seq, checkpoint>>

DeleteItem(i, base_revision) ==
  /\ DeleteMatches(i, base_revision)
  /\ WriteRow(i, [revision |-> rows[i].revision + 1, seq |-> next_seq,
                  deleted |-> TRUE, content |-> NoContent])

-----------------------------------------------------------------------------
(* Tombstones. *)

Tombstones == {i \in Items : rows[i].deleted}

\* Mutant: the tombstones go and the horizon stays.
PurgeSilently(old) ==
  /\ old \subseteq Tombstones
  /\ rows' = [i \in Items |-> IF i \in old THEN NoRow ELSE rows[i]]
  /\ UNCHANGED <<sync_seq, purged_before_seq, checkpoint>>

\* Every listing first drops the tombstones whose updated_at is past
\* TOMBSTONE_TTL_SECS by its own clock, which may be any of them, and raises
\* the horizon to the largest sequence number among them.
Purge(old) ==
  /\ old \subseteq Tombstones
  /\ rows' = [i \in Items |-> IF i \in old THEN NoRow ELSE rows[i]]
  /\ \E horizon \in {purged_before_seq} \cup {rows[i].seq : i \in old} :
       /\ purged_before_seq <= horizon
       /\ \A i \in old : rows[i].seq <= horizon
       /\ purged_before_seq' = horizon
  /\ UNCHANGED <<sync_seq, checkpoint>>

\* Mutant: off by one at the horizon.
FullResyncLate(horizon, since) == since > 0 /\ since + 1 < horizon

\* What a listing answers, over the table and the horizon the purge leaves.
FullResync(horizon, since) == since > 0 /\ since < horizon

Listed(table, horizon, since) ==
  IF FullResync(horizon, since)
    THEN {i \in Items : table[i].revision > 0 /\ ~table[i].deleted}
    ELSE {i \in Items : table[i].seq > since}

-----------------------------------------------------------------------------
(* The rollback checkpoint: raised, never lowered. *)

PutCheckpoint(seq, tag) ==
  /\ checkpoint.seq < seq
  /\ checkpoint' = [seq |-> seq, tag |-> tag]
  /\ UNCHANGED <<rows, sync_seq, purged_before_seq>>

-----------------------------------------------------------------------------
Init ==
  /\ rows = [i \in Items |-> NoRow]
  /\ sync_seq = 0
  /\ purged_before_seq = 0
  /\ checkpoint = NoCheckpoint

\* A client may send any revision and any checkpoint up to what it has seen.
Next ==
  \/ \E i \in Items, r \in 1..(MaxSeq + 1), c \in Contents : PutItem(i, r, c)
  \/ \E i \in Items, r \in 0..MaxSeq : DeleteItem(i, r)
  \/ \E old \in SUBSET Tombstones : Purge(old)
  \/ \E s \in 0..sync_seq, t \in Tags : PutCheckpoint(s, t)

Spec == Init /\ [][Next]_serverVars

-----------------------------------------------------------------------------
(* Properties. *)

\* Type invariant of the account's row and of its items' table.  A row has a
\* revision and a sequence number from its first write on, and keeps a content
\* exactly as long as it is not a tombstone.
TypeOK ==
  /\ rows \in [Items -> Row]
  /\ sync_seq \in Nat
  /\ purged_before_seq \in Nat
  /\ checkpoint \in [seq : Nat, tag : Tags] \cup {NoCheckpoint}

\* Neither a row nor the horizon outruns the counter.
TableShape ==
  /\ \A i \in Items : rows[i].seq <= sync_seq
  /\ purged_before_seq <= sync_seq

\* No two rows carry the same sequence number: "ORDER BY seq" is a total order
\* and a client's cursor separates what it has from what it lacks.
SeqsDistinct ==
  \A i, j \in Items : Exists(i) /\ rows[i].seq = rows[j].seq => i = j

\* A row leaves the table only as a tombstone, and only under a horizon that
\* reaches it: a client that has not heard of the delete is told to resync.
RowsLeaveUnderHorizon ==
  [][\A i \in Items : Exists(i) /\ ~Exists(i)' =>
       rows[i].deleted /\ rows[i].seq <= purged_before_seq']_serverVars
=============================================================================

---------------------------- MODULE ItemStoreProofs ----------------------------
(***************************************************************************)
(* Theorems about the item store (VaultItems) seen from two sides, for any *)
(* number of requests, items, connections and writes.  From a client's:    *)
(* one listing takes the vault of any earlier sequence number to the vault *)
(* of now (VaultHistory).  From the database's: the handlers' transactions *)
(* implement the one-step handlers, since the write lock with the refusal  *)
(* of stale snapshots makes what a transaction read still true when it     *)
(* commits (VaultItemsTx).                                                 *)
(***************************************************************************)
EXTENDS VaultHistory, VaultItemsTx, VaultItemsProofs

-----------------------------------------------------------------------------
(* Listings are complete.                                                    *)

\* A step of HSpec is a step of VaultItems, so what is proved of one is
\* proved of the other.
LEMMA HistorySteps == HNext => Next
  BY DEF HNext, HPut, HDelete, HQuiet, Next

\* DeltaInv with the sequence numbers' invariant it needs.
FullInv == SeqInv /\ HistoryShape /\ DifferenceListed

LEMMA InitFullInv == HInit => FullInv
<1> SUFFICES ASSUME HInit PROVE FullInv
  OBVIOUS
<1>1. SeqInv
  BY InitSeqInv DEF HInit
<1>2. /\ sync_seq = 0
      /\ Snapshot = [i \in Items |-> NoRow]
      /\ history = [s \in {0} |-> Snapshot]
  BY DEF HInit, Init, Snapshot, NoRow
<1>3. NoRow \in Row
  BY DEF Row
<1>4. 0..0 = {0}
  OBVIOUS
<1>5. HistoryShape
  BY <1>2, <1>3, <1>4 DEF HistoryShape
<1>6. DifferenceListed
  BY <1>2, <1>4 DEF DifferenceListed
<1> QED
  BY <1>1, <1>5, <1>6 DEF FullInv

\* The vault a user sees has rows only.
LEMMA SnapshotType == TypeOK => Snapshot \in [Items -> Row]
  BY DEF TypeOK, Snapshot, Row

\* A write of one item: the item gets a new sequence number, the others stay.
LEMMA WriteFullInv ==
  ASSUME FullInv, SeqInv', RecordWrite, NEW i \in Items,
         sync_seq' = sync_seq + 1,
         rows'[i].seq = sync_seq + 1,
         \A j \in Items \ {i} : rows'[j] = rows[j],
         purged_before_seq' = purged_before_seq
  PROVE  FullInv'
<1>0. /\ sync_seq \in Nat
      /\ 0 \in 0..sync_seq
      /\ sync_seq' \in 0..sync_seq'
  BY DEF FullInv, SeqInv, TypeOK
<1>1. Snapshot' \in [Items -> Row]
  BY DEF SeqInv, TypeOK, Snapshot, Row
<1>2. HistoryShape'
  BY <1>0, <1>1 DEF FullInv, HistoryShape, RecordWrite
<1>3. ASSUME NEW s \in 0..sync_seq', NEW j \in Items,
             history'[s][j] # Snapshot'[j]
      PROVE  \/ rows'[j].seq > s
             \/ rows'[j] = NoRow /\ s < purged_before_seq'
  <2>1. s # sync_seq'
    BY <1>0, <1>3 DEF RecordWrite
  <2>2. s \in 0..sync_seq /\ history'[s] = history[s]
    BY <1>0, <2>1 DEF RecordWrite
  <2>3. CASE j = i
    BY <1>0, <2>2, <2>3
  <2>4. CASE j # i
    <3>1. Snapshot'[j] = Snapshot[j]
      BY <2>4 DEF Snapshot
    <3> QED
      BY <1>3, <2>2, <2>4, <3>1 DEF FullInv, DifferenceListed
  <2> QED BY <2>3, <2>4
<1> QED
  BY <1>2, <1>3 DEF FullInv, DifferenceListed

LEMMA NextFullInv == FullInv /\ [HNext]_vaultVars => FullInv'
<1> SUFFICES ASSUME FullInv, [HNext]_vaultVars
             PROVE  FullInv'
  OBVIOUS
<1>1. SeqInv /\ TypeOK
  BY DEF FullInv, SeqInv
<1>2. SeqInv'
  BY <1>1, NextSeqInv, HistorySteps DEF vaultVars
<1>3. ASSUME HPut PROVE FullInv'
  <2>1. PICK i \in Items, r \in 1..(MaxSeq + 1), c \in Contents : PutItem(i, r, c)
    BY <1>3 DEF HPut
  <2>2. /\ sync_seq' = sync_seq + 1
        /\ rows'[i].seq = sync_seq + 1
        /\ \A j \in Items \ {i} : rows'[j] = rows[j]
        /\ purged_before_seq' = purged_before_seq
    BY <1>1, <2>1, PutItemRows DEF TypeOK
  <2> QED
    BY <1>2, <1>3, <2>2, WriteFullInv DEF HPut
<1>4. ASSUME HDelete PROVE FullInv'
  <2>1. PICK i \in Items, r \in 0..MaxSeq : DeleteItem(i, r)
    BY <1>4 DEF HDelete
  <2>2. /\ sync_seq' = sync_seq + 1
        /\ rows'[i].seq = sync_seq + 1
        /\ \A j \in Items \ {i} : rows'[j] = rows[j]
        /\ purged_before_seq' = purged_before_seq
    BY <1>1, <2>1, DeleteItemRows DEF TypeOK
  <2> QED
    BY <1>2, <1>4, <2>2, WriteFullInv DEF HDelete
<1>5. ASSUME NEW old \in SUBSET Tombstones, Purge(old), UNCHANGED history
      PROVE  FullInv'
  <2>1. /\ rows' = [i \in Items |-> IF i \in old THEN NoRow ELSE rows[i]]
        /\ purged_before_seq' \in Nat
        /\ purged_before_seq <= purged_before_seq'
        /\ \A i \in old : rows[i].seq <= purged_before_seq'
        /\ sync_seq' = sync_seq
    BY <1>1, <1>5, PurgeRows
  <2>2. Snapshot' = Snapshot
    BY <2>1 DEF Snapshot, Tombstones, NoRow
  <2>3. HistoryShape'
    BY <1>5, <2>1 DEF FullInv, HistoryShape
  <2>4. ASSUME NEW s \in 0..sync_seq, NEW i \in Items,
               history[s][i] # Snapshot[i]
        PROVE  \/ rows'[i].seq > s
               \/ rows'[i] = NoRow /\ s < purged_before_seq'
    <3>1. /\ s \in Nat
          /\ purged_before_seq \in Nat
          /\ rows[i].seq \in Nat
      BY <1>1, RowFields DEF TypeOK
    <3>2. \/ rows[i].seq > s
          \/ rows[i] = NoRow /\ s < purged_before_seq
      BY <2>4 DEF FullInv, DifferenceListed
    <3>3. CASE i \in old
      <4>1. rows[i].seq > s => s < purged_before_seq'
        BY <2>1, <3>1, <3>3
      <4>2. s < purged_before_seq => s < purged_before_seq'
        BY <2>1, <3>1
      <4>3. rows'[i] = NoRow
        BY <2>1, <3>3
      <4> QED BY <3>2, <4>1, <4>2, <4>3
    <3>4. CASE i \notin old
      <4>1. rows'[i] = rows[i]
        BY <2>1, <3>4
      <4>2. s < purged_before_seq => s < purged_before_seq'
        BY <2>1, <3>1
      <4> QED BY <3>2, <4>1, <4>2
    <3> QED BY <3>3, <3>4
  <2>5. DifferenceListed'
    BY <1>5, <2>1, <2>2, <2>4 DEF DifferenceListed
  <2> QED BY <1>2, <2>3, <2>5 DEF FullInv
<1>6. CASE /\ UNCHANGED <<rows, sync_seq, purged_before_seq>>
           /\ UNCHANGED history
  BY <1>2, <1>6 DEF FullInv, HistoryShape, DifferenceListed, Snapshot
<1>7. ASSUME NEW s \in 0..sync_seq, NEW t \in Tags, PutCheckpoint(s, t),
             UNCHANGED history
      PROVE  FullInv'
  BY <1>6, <1>7 DEF PutCheckpoint
<1>8. CASE HQuiet
  BY <1>5, <1>7, <1>8 DEF HQuiet
<1>9. CASE UNCHANGED vaultVars
  BY <1>6, <1>9 DEF vaultVars, serverVars
<1> QED
  BY <1>3, <1>4, <1>8, <1>9 DEF HNext

\* The inductive invariant implies the promise of the listing: an item that is
\* not listed has not changed since the client's cursor.
LEMMA FullInvDelta == FullInv => DeltaComplete
<1> SUFFICES ASSUME FullInv, NEW s \in 0..sync_seq
             PROVE  CaughtUp(s) = Snapshot
  BY DEF DeltaComplete
<1>1. /\ s \in Nat
      /\ sync_seq \in Nat
      /\ purged_before_seq \in Nat
      /\ rows \in [Items -> Row]
  BY DEF FullInv, SeqInv, TypeOK
<1>2. ASSUME NEW i \in Items
      PROVE  CaughtUp(s)[i] = Snapshot[i]
  <2>0. rows[i].seq \in Nat /\ rows[i].revision \in Nat /\ rows[i].deleted \in BOOLEAN
    BY <1>1, RowFields
  <2>1. CASE i \in Listed(rows, purged_before_seq, s)
    BY <2>1 DEF CaughtUp
  <2>2. CASE /\ i \notin Listed(rows, purged_before_seq, s)
             /\ FullResync(purged_before_seq, s)
    <3>1. ~(rows[i].revision > 0 /\ ~rows[i].deleted)
      BY <2>2 DEF Listed
    <3>2. Snapshot[i] = NoRow
      <4>1. CASE rows[i].deleted
        BY <4>1 DEF Snapshot
      <4>2. CASE ~rows[i].deleted
        <5>1. rows[i].revision = 0
          BY <2>0, <3>1, <4>2
        <5>2. rows[i] = NoRow
          BY <1>1, <5>1, WrittenRow DEF Row
        <5> QED BY <4>2, <5>2 DEF Snapshot
      <4> QED BY <4>1, <4>2
    <3>3. CaughtUp(s)[i] = NoRow
      BY <2>2 DEF CaughtUp
    <3> QED BY <3>2, <3>3
  <2>3. CASE /\ i \notin Listed(rows, purged_before_seq, s)
             /\ ~FullResync(purged_before_seq, s)
    <3>1. ~(rows[i].seq > s)
      BY <2>3 DEF Listed
    <3>2. CaughtUp(s)[i] = history[s][i]
      BY <2>3 DEF CaughtUp
    <3>3. s = 0 => history[s][i] = Snapshot[i]
      <4>1. SUFFICES ASSUME s = 0 PROVE Snapshot[i] = NoRow
        BY <4>1 DEF FullInv, HistoryShape
      <4>2. rows[i].revision = 0
        BY <1>1, <2>0, <3>1, <4>1, RowFields
      <4>3. rows[i] = NoRow
        BY <1>1, <4>2, WrittenRow DEF Row
      <4> QED BY <4>3 DEF Snapshot, NoRow
    <3>4. s # 0 => history[s][i] = Snapshot[i]
      BY <1>1, <2>3, <3>1 DEF FullInv, DifferenceListed, FullResync
    <3> QED BY <3>2, <3>3, <3>4
  <2> QED BY <2>1, <2>2, <2>3
<1> QED
  BY <1>2 DEF CaughtUp, Snapshot

\* The inductive invariant of the runs holds of every reachable state.
THEOREM DeltaInvariant == HSpec => []DeltaInv
<1>1. FullInv => DeltaInv
  BY DEF FullInv, SeqInv, DeltaInv
<1> QED
  BY InitFullInv, NextFullInv, <1>1, PTL DEF HSpec

\* A listing since any cursor brings a client to the vault of now: no update,
\* deletion or purge is ever missing from it.
THEOREM ListingsComplete == HSpec => []DeltaComplete
  BY InitFullInv, NextFullInv, FullInvDelta, PTL DEF HSpec

-----------------------------------------------------------------------------
(* Transactions implement the store.                                         *)

\* What a listing found when it began is there in the table.
OldFound(r) ==
  /\ op[r].old \subseteq Tombstones
  /\ \A i \in op[r].old : rows[i].seq <= op[r].purged_max
  /\ op[r].old # {} => \E i \in op[r].old : rows[i].seq = op[r].purged_max

\* The check a writer passed on its snapshot holds of the database.
Granted(r) ==
  /\ op[r].kind # "checkpoint"
  /\ op[r].kind = "put" =>
       PutMatches(op[r].item, op[r].revision) /\ sync_seq < MaxSeq
  /\ op[r].kind = "delete" =>
       DeleteMatches(op[r].item, op[r].revision) /\ sync_seq < MaxSeq
  /\ op[r].kind = "list" => OldFound(r) /\ op[r].old # {}

RowsPurged(r) == [i \in Items |-> IF i \in op[r].old THEN NoRow ELSE rows[i]]

HorizonRaised(r) ==
  IF purged_before_seq < op[r].purged_max
    THEN op[r].purged_max ELSE purged_before_seq

RowWritten(r) ==
  IF op[r].kind = "put"
    THEN [revision |-> op[r].revision, seq |-> sync_seq + 1,
          deleted |-> FALSE, content |-> op[r].content]
    ELSE [revision |-> rows[op[r].item].revision + 1, seq |-> sync_seq + 1,
          deleted |-> TRUE, content |-> NoContent]

\* The database with the first, and with both writes of a request.
AfterFirst(r) ==
  IF op[r].kind = "list"
    THEN [rows |-> RowsPurged(r), sync_seq |-> sync_seq,
          purged_before_seq |-> purged_before_seq]
    ELSE [rows |-> rows, sync_seq |-> sync_seq + 1,
          purged_before_seq |-> purged_before_seq]

AfterSecond(r) ==
  IF op[r].kind = "list"
    THEN [rows |-> RowsPurged(r), sync_seq |-> sync_seq,
          purged_before_seq |-> HorizonRaised(r)]
    ELSE [rows |-> [rows EXCEPT ![op[r].item] = RowWritten(r)],
          sync_seq |-> sync_seq + 1,
          purged_before_seq |-> purged_before_seq]

\* What clients send.
Sent(o) ==
  /\ o.kind = "put" => o.revision \in 1..(MaxSeq + 1)
  /\ o.kind = "delete" => o.revision \in 0..MaxSeq
  /\ o.kind = "checkpoint" => o.seq \in 0..sync_seq

\* The part of the inductive invariant that is about one request.
RequestInv(r) ==
  /\ Sent(op[r])
  /\ writer = r <=> pc[r] \in {"writing", "written"}
  /\ pc[r] = "open" =>
       view[r] = Committed /\ (op[r].kind = "list" => OldFound(r))
  /\ pc[r] = "writing" => Granted(r) /\ view[r] = AfterFirst(r)
  /\ pc[r] = "written" => Granted(r) /\ view[r] = AfterSecond(r)

TxInv == TxTypeOK /\ \A r \in Requests : RequestInv(r)

-----------------------------------------------------------------------------
(* The four kinds of requests. *)

LEMMA OpKinds ==
  ASSUME NEW o \in Ops
  PROVE  /\ o.kind \in {"put", "delete", "list", "checkpoint"}
         /\ o.kind = "put" => o \in PutOps
         /\ o.kind = "delete" => o \in DeleteOps
         /\ o.kind = "list" => o \in ListOps
         /\ o.kind = "checkpoint" => o \in CheckpointOps
<1>1. CASE o \in PutOps
  BY <1>1 DEF PutOps
<1>2. CASE o \in DeleteOps
  BY <1>2 DEF DeleteOps
<1>3. CASE o \in ListOps
  BY <1>3 DEF ListOps
<1>4. CASE o \in CheckpointOps
  BY <1>4 DEF CheckpointOps
<1> QED
  BY <1>1, <1>2, <1>3, <1>4 DEF Ops

\* The row a write produces is a row.
LEMMA RowWrittenType ==
  ASSUME TxTypeOK, NEW r \in Requests, op[r].kind \in {"put", "delete"},
         op[r].kind = "put" => op[r].revision \in 1..(MaxSeq + 1)
  PROVE  op[r].item \in Items /\ RowWritten(r) \in Row
<1>0. op[r] \in Ops /\ sync_seq \in Nat /\ rows \in [Items -> Row]
  BY DEF TxTypeOK, TypeOK
<1>1. CASE op[r].kind = "put"
  <2>1. /\ op[r].item \in Items
        /\ op[r].revision \in Nat \ {0}
        /\ op[r].content \in Contents
    BY <1>0, <1>1, OpKinds, VaultItemsAssumption DEF PutOps
  <2>2. RowWritten(r) \in LiveRow
    BY <1>0, <1>1, <2>1 DEF RowWritten, LiveRow
  <2> QED BY <2>1, <2>2 DEF Row
<1>2. CASE op[r].kind = "delete"
  <2>1. op[r].item \in Items
    BY <1>0, <1>2, OpKinds DEF DeleteOps
  <2>2. rows[op[r].item].revision \in Nat
    BY <1>0, <2>1, RowFields
  <2>3. RowWritten(r) \in Tombstone
    BY <1>0, <1>2, <2>2 DEF RowWritten, Tombstone
  <2> QED BY <2>1, <2>3 DEF Row
<1> QED
  BY <1>1, <1>2

LEMMA CommittedType == TypeOK => Committed \in View
  BY DEF TypeOK, Committed, View

-----------------------------------------------------------------------------
(* Steps of one request that leave the database alone. *)

LEMMA LocalStep ==
  ASSUME TxInv, NEW r \in Requests, UNCHANGED serverVars,
         NEW o \in Ops, NEW label \in InFlight \cup Replies, NEW v \in View,
         op' = [op EXCEPT ![r] = o],
         pc' = [pc EXCEPT ![r] = label],
         view' = [view EXCEPT ![r] = v],
         writer' \in Requests \cup {NoRequest},
         \A q \in Requests \ {r} : writer' = q <=> writer = q,
         RequestInv(r)'
  PROVE  TxInv'
<1>1. TxTypeOK'
  BY DEF TxInv, TxTypeOK, TypeOK, serverVars
<1>2. ASSUME NEW q \in Requests, q # r
      PROVE  RequestInv(q)'
  <2>1. /\ op'[q] = op[q]
        /\ pc'[q] = pc[q]
        /\ view'[q] = view[q]
        /\ writer' = q <=> writer = q
    BY <1>2 DEF TxInv, TxTypeOK
  <2>2. RequestInv(q)
    BY DEF TxInv
  <2>3. UNCHANGED <<rows, sync_seq, purged_before_seq>>
    BY DEF serverVars
  <2>4. OldFound(q)' <=> OldFound(q)
    BY <2>1, <2>3 DEF OldFound, Tombstones
  <2>5. Granted(q)' <=> Granted(q)
    BY <2>1, <2>3, <2>4 DEF Granted, PutMatches, DeleteMatches, Live, Exists
  <2>6. AfterFirst(q)' = AfterFirst(q)
    BY <2>1, <2>3 DEF AfterFirst, RowsPurged
  <2>7. AfterSecond(q)' = AfterSecond(q)
    BY <2>1, <2>3 DEF AfterSecond, RowsPurged, HorizonRaised, RowWritten
  <2>8. Committed' = Committed
    BY <2>3 DEF Committed
  <2>9. Sent(op[q])' <=> Sent(op[q])
    BY <2>1, <2>3 DEF Sent
  <2> QED
    BY <2>1, <2>2, <2>4, <2>5, <2>6, <2>7, <2>8, <2>9 DEF RequestInv
<1> QED
  BY <1>1, <1>2 DEF TxInv

\* A request that is not in a transaction afterwards.
LEMMA QuietStep ==
  ASSUME TxInv, NEW r \in Requests, UNCHANGED serverVars,
         NEW o \in Ops, Sent(o),
         NEW label \in InFlight \cup Replies, NEW v \in View,
         label \notin {"open", "writing", "written"},
         op' = [op EXCEPT ![r] = o],
         pc' = [pc EXCEPT ![r] = label],
         view' = [view EXCEPT ![r] = v],
         writer' = IF writer = r THEN NoRequest ELSE writer
  PROVE  TxInv'
<1>1. /\ op'[r] = o
      /\ pc'[r] = label
      /\ writer' \in Requests \cup {NoRequest}
      /\ writer' # r
      /\ \A q \in Requests \ {r} : writer' = q <=> writer = q
  BY VaultItemsTxAssumption DEF TxInv, TxTypeOK
<1>2. Sent(o)'
  BY DEF Sent, serverVars
<1>3. RequestInv(r)'
  BY <1>1, <1>2 DEF RequestInv
<1> QED
  BY <1>1, <1>3, LocalStep

-----------------------------------------------------------------------------
(* One lemma per action.                                                     *)

LEMMA ReceivesInv ==
  ASSUME TxInv, NEW r \in Requests, Receives(r)
  PROVE  TxInv'
<1>1. PICK o \in Ops : Sent(o) /\ Receive(r, o)
  <2>0. sync_seq \in Nat /\ MaxSeq \in Nat
    BY VaultItemsAssumption DEF TxInv, TxTypeOK, TypeOK
  <2>1. ASSUME NEW i \in Items, NEW n \in 1..(MaxSeq + 1), NEW c \in Contents
        PROVE  LET o == [kind |-> "put", item |-> i, revision |-> n,
                         content |-> c]
               IN  o \in Ops /\ Sent(o)
    BY <2>0 DEF Ops, PutOps, Sent
  <2>2. ASSUME NEW i \in Items, NEW n \in 0..MaxSeq
        PROVE  LET o == [kind |-> "delete", item |-> i, revision |-> n]
               IN  o \in Ops /\ Sent(o)
    BY <2>0 DEF Ops, DeleteOps, Sent
  <2>3. ASSUME NEW s \in 0..sync_seq
        PROVE  ListSince(s) \in Ops /\ Sent(ListSince(s))
    BY <2>0 DEF Ops, ListOps, Sent, ListSince
  <2>4. ASSUME NEW s \in 0..sync_seq, NEW t \in Tags
        PROVE  LET o == [kind |-> "checkpoint", seq |-> s, tag |-> t]
               IN  o \in Ops /\ Sent(o)
    BY <2>0 DEF Ops, CheckpointOps, Sent
  <2> QED
    BY <2>1, <2>2, <2>3, <2>4 DEF Receives
<1>2. EmptyView \in View
  BY DEF EmptyView, View, Row
<1>3. writer # r
  BY <1>1 DEF TxInv, RequestInv, Receive, Replies
<1> QED
  BY <1>1, <1>2, <1>3, QuietStep DEF Receive, Goto, InFlight

LEMMA BeginInv ==
  ASSUME TxInv, NEW r \in Requests, Begin(r)
  PROVE  TxInv'
<1>0. /\ TypeOK
      /\ op[r] \in Ops
      /\ op \in [Requests -> Ops]
      /\ pc \in [Requests -> InFlight \cup Replies]
      /\ view \in [Requests -> View]
      /\ RequestInv(r)
  BY DEF TxInv, TxTypeOK
<1>1. PICK o \in Ops : /\ op' = [op EXCEPT ![r] = o]
                       /\ Sent(o)
                       /\ o.kind = "list" =>
                            /\ o.old \subseteq Tombstones
                            /\ \A i \in o.old : rows[i].seq <= o.purged_max
                            /\ o.old # {} =>
                                 \E i \in o.old : rows[i].seq = o.purged_max
  <2>1. CASE op[r].kind = "list"
    <3>1. PICK old \in SUBSET Tombstones : FindsOld(r, old)
      BY <2>1 DEF Begin
    <3>2. PICK max \in IF old = {} THEN {0} ELSE {rows[i].seq : i \in old} :
            /\ \A i \in old : rows[i].seq <= max
            /\ op' = [op EXCEPT ![r].old = old, ![r].purged_max = max]
      BY <3>1 DEF FindsOld
    <3>3. old \subseteq Items /\ max \in Nat
      BY <1>0, <3>2, RowFields DEF Tombstones, TypeOK
    <3>4. op[r] \in ListOps
      BY <1>0, <2>1, OpKinds
    <3> DEFINE o == [op[r] EXCEPT !.old = old, !.purged_max = max]
    <3>5. /\ o \in ListOps
          /\ o.kind = "list"
          /\ o.old = old
          /\ o.purged_max = max
      BY <3>3, <3>4 DEF ListOps
    <3>6. op' = [op EXCEPT ![r] = o]
      BY <1>0, <3>2
    <3>7. o \in Ops /\ Sent(o)
      BY <3>5 DEF Ops, Sent
    <3> HIDE DEF o
    <3> QED
      BY <3>2, <3>5, <3>6, <3>7
  <2>2. CASE op[r].kind # "list"
    <3>1. op' = [op EXCEPT ![r] = op[r]]
      BY <1>0, <2>2 DEF Begin
    <3> QED
      BY <1>0, <2>2, <3>1 DEF RequestInv
  <2> QED BY <2>1, <2>2
<1>2. /\ UNCHANGED serverVars
      /\ writer' = writer
      /\ view' = [view EXCEPT ![r] = Committed]
      /\ pc' = [pc EXCEPT ![r] = "open"]
      /\ pc[r] = "received"
  BY DEF Begin, Goto
<1>3. Committed \in View
  BY <1>0, CommittedType
<1>4. /\ op'[r] = o
      /\ pc'[r] = "open"
      /\ view'[r] = Committed
      /\ Committed' = Committed
  BY <1>0, <1>1, <1>2 DEF Committed, serverVars
<1>5. OldFound(r)' <=> /\ o.old \subseteq Tombstones
                       /\ \A i \in o.old : rows[i].seq <= o.purged_max
                       /\ o.old # {} =>
                            \E i \in o.old : rows[i].seq = o.purged_max
  BY <1>2, <1>4 DEF OldFound, Tombstones, serverVars
<1>6. Sent(o)'
  BY <1>1, <1>2 DEF Sent, serverVars
<1>7. RequestInv(r)'
  BY <1>0, <1>1, <1>2, <1>4, <1>5, <1>6 DEF RequestInv
<1>8. /\ "open" \in InFlight \cup Replies
      /\ writer' \in Requests \cup {NoRequest}
      /\ \A q \in Requests \ {r} : writer' = q <=> writer = q
  BY <1>2 DEF InFlight, InTransaction, TxInv, TxTypeOK
<1> QED
  BY <1>1, <1>2, <1>3, <1>7, <1>8, LocalStep

\* The answers that do not write, and failures.
LEMMA AnswerInv ==
  ASSUME TxInv, NEW r \in Requests,
         \/ Decide(r) \/ ReadConflict(r) \/ RefuseWrite(r)
         \/ BusyTimeout(r) \/ Fail(r)
  PROVE  TxInv'
<1>0. /\ TypeOK
      /\ op[r] \in Ops /\ Sent(op[r])
      /\ view[r] \in View
      /\ op = [op EXCEPT ![r] = op[r]]
      /\ view = [view EXCEPT ![r] = view[r]]
      /\ Committed \in View
      /\ writer = r <=> pc[r] \in {"writing", "written"}
  BY CommittedType DEF TxInv, TxTypeOK, RequestInv
<1>1. CASE Decide(r)
  <2>1. Verdict(r) \in {"listed", "missing", "unchanged", "rejected"}
    BY DEF Verdict
  <2>2. pc[r] \notin {"writing", "written"}
    BY <1>1 DEF Decide
  <2> QED
    BY <1>0, <1>1, <2>1, <2>2, QuietStep
       DEF Decide, Goto, InFlight, Replies
<1>2. CASE ReadConflict(r)
  BY <1>0, <1>2, QuietStep DEF ReadConflict, Goto, InFlight, Replies
<1>3. CASE RefuseWrite(r) \/ BusyTimeout(r)
  BY <1>0, <1>3, QuietStep
     DEF RefuseWrite, BusyTimeout, Goto, InFlight, Replies
<1>4. CASE Fail(r)
  <2>1. /\ "failed" \in InFlight \cup Replies
        /\ UNCHANGED <<serverVars, op, view>>
        /\ pc' = [pc EXCEPT ![r] = "failed"]
        /\ writer' = IF writer = r THEN NoRequest ELSE writer
    BY <1>4 DEF Fail, Goto, InFlight, Replies
  <2> QED
    BY <1>0, <2>1, QuietStep
<1> QED
  BY <1>1, <1>2, <1>3, <1>4

\* The check a handler passed on a snapshot that is still current.
LEMMA WritesGranted ==
  ASSUME TxInv, NEW r \in Requests, pc[r] = "open", Writes(r),
         op[r].kind # "list" => sync_seq < MaxSeq
  PROVE  /\ Granted(r)
         /\ FirstStatement(r) = AfterFirst(r)
         /\ AfterFirst(r) \in View
<1>0. /\ TypeOK
      /\ op[r] \in Ops
      /\ view[r] = Committed
      /\ op[r].kind = "list" => OldFound(r)
  BY DEF TxInv, TxTypeOK, RequestInv
<1>1. /\ view[r].rows = rows
      /\ view[r].sync_seq = sync_seq
      /\ view[r].purged_before_seq = purged_before_seq
  BY <1>0 DEF Committed
<1>2. CASE op[r].kind = "put"
  <2>1. Granted(r)
    BY <1>1, <1>2 DEF Granted, Writes, MayPut, MayDelete, Seen, PutMatches
  <2>2. FirstStatement(r) = AfterFirst(r)
    BY <1>0, <1>2 DEF FirstStatement, AfterFirst, Committed
  <2>3. AfterFirst(r) \in View
    BY <1>0, <1>2 DEF AfterFirst, View, TypeOK
  <2> QED BY <1>2, <2>1, <2>2, <2>3
<1>3. CASE op[r].kind = "delete"
  <2>1. Granted(r)
    BY <1>1, <1>3
       DEF Granted, Writes, MayPut, MayDelete, Seen, DeleteMatches, Live, Exists
  <2>2. FirstStatement(r) = AfterFirst(r)
    BY <1>0, <1>3 DEF FirstStatement, AfterFirst, Committed
  <2>3. AfterFirst(r) \in View
    BY <1>0, <1>3 DEF AfterFirst, View, TypeOK
  <2> QED BY <1>3, <2>1, <2>2, <2>3
<1>4. CASE op[r].kind = "list"
  <2>1. Granted(r)
    BY <1>0, <1>4 DEF Granted, Writes, MayPut, MayDelete
  <2>2. FirstStatement(r) = AfterFirst(r)
    BY <1>0, <1>4 DEF FirstStatement, AfterFirst, RowsPurged, Committed
  <2>3. RowsPurged(r) \in [Items -> Row]
    BY <1>0 DEF RowsPurged, TypeOK, Row
  <2>4. AfterFirst(r) \in View
    BY <1>0, <1>4, <2>3 DEF AfterFirst, View, TypeOK
  <2> QED BY <1>4, <2>1, <2>2, <2>4
<1>5. op[r].kind # "checkpoint"
  BY DEF Writes, MayPut, MayDelete
<1> QED
  BY <1>0, <1>2, <1>3, <1>4, <1>5, OpKinds

\* The expressions of the invariant read the committed database and the
\* request, neither of which a request's own statements change.
LEMMA OwnStatement ==
  ASSUME NEW r \in Requests, UNCHANGED serverVars, op' = op
  PROVE  /\ Granted(r)' <=> Granted(r)
         /\ AfterFirst(r)' = AfterFirst(r)
         /\ AfterSecond(r)' = AfterSecond(r)
         /\ Sent(op[r])' <=> Sent(op[r])
<1>1. UNCHANGED <<rows, sync_seq, purged_before_seq>>
  BY DEF serverVars
<1>2. OldFound(r)' <=> OldFound(r)
  BY <1>1 DEF OldFound, Tombstones
<1>3. Granted(r)' <=> Granted(r)
  BY <1>1, <1>2 DEF Granted, PutMatches, DeleteMatches, Live, Exists
<1>4. AfterFirst(r)' = AfterFirst(r)
  BY <1>1 DEF AfterFirst, RowsPurged
<1>5. AfterSecond(r)' = AfterSecond(r)
  BY <1>1 DEF AfterSecond, RowsPurged, HorizonRaised, RowWritten
<1>6. Sent(op[r])' <=> Sent(op[r])
  BY <1>1 DEF Sent
<1> QED
  BY <1>3, <1>4, <1>5, <1>6

LEMMA FirstWriteInv ==
  ASSUME TxInv, NEW r \in Requests, FirstWrite(r)
  PROVE  TxInv'
<1>1. /\ pc[r] = "open"
      /\ Writes(r)
      /\ writer = NoRequest
      /\ op[r].kind # "list" => sync_seq < MaxSeq
      /\ writer' = r
      /\ view' = [view EXCEPT ![r] = FirstStatement(r)]
      /\ pc' = [pc EXCEPT ![r] = "writing"]
      /\ op' = op
      /\ UNCHANGED serverVars
  BY DEF FirstWrite, Goto
<1>2. /\ Granted(r)
      /\ FirstStatement(r) = AfterFirst(r)
      /\ AfterFirst(r) \in View
  BY <1>1, WritesGranted
<1>3. /\ op[r] \in Ops
      /\ op' = [op EXCEPT ![r] = op[r]]
      /\ pc'[r] = "writing"
      /\ view'[r] = AfterFirst(r)
      /\ Sent(op[r])
  BY <1>1, <1>2 DEF TxInv, TxTypeOK, RequestInv
<1>4. RequestInv(r)'
  BY <1>1, <1>2, <1>3, OwnStatement DEF RequestInv
<1>5. \A q \in Requests \ {r} : writer' = q <=> writer = q
  BY <1>1, VaultItemsTxAssumption
<1> QED
  BY <1>1, <1>2, <1>3, <1>4, <1>5, LocalStep
     DEF InFlight, InTransaction

LEMMA SecondWriteInv ==
  ASSUME TxInv, NEW r \in Requests, SecondWrite(r)
  PROVE  TxInv'
<1>0. /\ TxTypeOK
      /\ TypeOK
      /\ op[r] \in Ops
      /\ view \in [Requests -> View]
      /\ pc[r] = "writing"
      /\ Sent(op[r])
      /\ writer = r
      /\ Granted(r)
      /\ view[r] = AfterFirst(r)
  BY DEF TxInv, TxTypeOK, RequestInv, SecondWrite
<1>1. /\ UNCHANGED serverVars
      /\ pc' = [pc EXCEPT ![r] = "written"]
      /\ op' = op
      /\ writer' = writer
  BY DEF SecondWrite, Goto
<1>2. /\ view' = [view EXCEPT ![r] = AfterSecond(r)]
      /\ AfterSecond(r) \in View
  <2>1. CASE op[r].kind = "list"
    <3>1. RaisedHorizon(r) = HorizonRaised(r)
      BY <1>0, <2>1 DEF RaisedHorizon, HorizonRaised, AfterFirst
    <3>2. [view[r] EXCEPT !.purged_before_seq = RaisedHorizon(r)]
            = AfterSecond(r)
      BY <1>0, <2>1, <3>1 DEF AfterFirst, AfterSecond
    <3>3. view' = [view EXCEPT ![r] =
                     [view[r] EXCEPT !.purged_before_seq = RaisedHorizon(r)]]
      BY <1>0, <2>1 DEF SecondWrite
    <3>4. op[r].purged_max \in Nat
      BY <1>0, <2>1, OpKinds DEF ListOps
    <3>5. HorizonRaised(r) \in Nat
      BY <1>0, <3>4 DEF HorizonRaised, TypeOK
    <3>6. RowsPurged(r) \in [Items -> Row]
      BY <1>0 DEF RowsPurged, TypeOK, Row
    <3>7. AfterSecond(r) \in View
      BY <1>0, <2>1, <3>5, <3>6 DEF AfterSecond, View, TypeOK
    <3> QED BY <3>2, <3>3, <3>7
  <2>2. CASE op[r].kind # "list"
    <3>0. op[r].kind \in {"put", "delete"}
      BY <1>0, <2>2, OpKinds DEF Granted
    <3>1. op[r].item \in Items /\ RowWritten(r) \in Row
      BY <1>0, <3>0, RowWrittenType DEF Sent
    <3>2. NewRow(r) = RowWritten(r)
      BY <1>0, <2>2 DEF NewRow, RowWritten, AfterFirst, Seen
    <3>3. [view[r] EXCEPT !.rows[op[r].item] = NewRow(r)] = AfterSecond(r)
      BY <1>0, <2>2, <3>2 DEF AfterFirst, AfterSecond
    <3>4. view' = [view EXCEPT ![r] =
                     [view[r] EXCEPT !.rows[op[r].item] = NewRow(r)]]
      BY <1>0, <2>2 DEF SecondWrite
    <3>5. AfterSecond(r) \in View
      BY <1>0, <2>2, <3>1 DEF AfterSecond, View, TypeOK
    <3> QED BY <3>3, <3>4, <3>5
  <2> QED BY <2>1, <2>2
<1>3. /\ op' = [op EXCEPT ![r] = op[r]]
      /\ pc'[r] = "written"
      /\ view'[r] = AfterSecond(r)
  BY <1>0, <1>1, <1>2 DEF TxTypeOK
<1>4. RequestInv(r)'
  BY <1>0, <1>1, <1>3, OwnStatement DEF RequestInv
<1>5. writer' \in Requests \cup {NoRequest}
  BY <1>0, <1>1
<1> QED
  BY <1>0, <1>1, <1>2, <1>3, <1>4, <1>5, LocalStep
     DEF InFlight, InTransaction

-----------------------------------------------------------------------------
(* Steps after which no transaction is open on a current snapshot.           *)

LEMMA SettledStep ==
  ASSUME TxInv, op' = op, UNCHANGED view, writer' = NoRequest,
         pc' \in [Requests -> InFlight \cup Replies],
         \A q \in Requests : pc'[q] \notin {"open", "writing", "written"},
         TypeOK', sync_seq <= sync_seq'
  PROVE  TxInv'
<1>1. TxTypeOK'
  BY DEF TxInv, TxTypeOK
<1>2. ASSUME NEW q \in Requests
      PROVE  RequestInv(q)'
  <2>1. Sent(op[q])'
    <3>1. Sent(op[q]) /\ sync_seq \in Nat /\ sync_seq' \in Nat
      BY DEF TxInv, TxTypeOK, TypeOK, RequestInv
    <3> QED BY <3>1 DEF Sent
  <2>2. writer' # q
    BY VaultItemsTxAssumption
  <2> QED BY <2>1, <2>2 DEF RequestInv
<1> QED
  BY <1>1, <1>2 DEF TxInv

\* While nobody holds the lock, outdating the snapshots settles everybody.
LEMMA OutdatedSettles ==
  ASSUME TxInv, NEW r \in Requests \cup {NoRequest},
         writer \in {r, NoRequest}
  PROVE  /\ Outdated \in [Requests -> InFlight \cup Replies]
         /\ \A q \in Requests \ {r} :
              Outdated[q] \notin {"open", "writing", "written"}
<1>1. pc \in [Requests -> InFlight \cup Replies]
  BY DEF TxInv, TxTypeOK
<1>2. \A q \in Requests \ {r} : pc[q] \notin {"writing", "written"}
  BY VaultItemsTxAssumption DEF TxInv, RequestInv
<1> QED
  BY <1>1, <1>2 DEF Outdated, InFlight, InTransaction

\* The commit of a granted request is the step of VaultItems it stands for.
LEMMA CommitRefines ==
  ASSUME TxInv, NEW r \in Requests, Commit(r)
  PROVE  Next
<1>0. /\ TxTypeOK
      /\ TypeOK
      /\ op[r] \in Ops
      /\ Sent(op[r])
      /\ Granted(r)
      /\ view[r] = AfterSecond(r)
  BY DEF TxInv, TxTypeOK, RequestInv, Commit
<1>1. /\ rows' = AfterSecond(r).rows
      /\ sync_seq' = AfterSecond(r).sync_seq
      /\ purged_before_seq' = AfterSecond(r).purged_before_seq
      /\ checkpoint' = checkpoint
  BY <1>0 DEF Commit
<1>2. CASE op[r].kind = "put"
  <2>1. /\ op[r].item \in Items
        /\ op[r].revision \in 1..(MaxSeq + 1)
        /\ op[r].content \in Contents
    BY <1>0, <1>2, OpKinds DEF PutOps, Sent
  <2>2. PutItem(op[r].item, op[r].revision, op[r].content)
    BY <1>0, <1>1, <1>2
       DEF PutItem, WriteRow, next_seq, Granted, AfterSecond, RowWritten
  <2> QED BY <2>1, <2>2 DEF Next
<1>3. CASE op[r].kind = "delete"
  <2>1. op[r].item \in Items /\ op[r].revision \in 0..MaxSeq
    BY <1>0, <1>3, OpKinds DEF DeleteOps, Sent
  <2>2. DeleteItem(op[r].item, op[r].revision)
    BY <1>0, <1>1, <1>3
       DEF DeleteItem, WriteRow, next_seq, Granted, AfterSecond, RowWritten
  <2> QED BY <2>1, <2>2 DEF Next
<1>4. CASE op[r].kind = "list"
  <2>1. OldFound(r) /\ op[r].old # {}
    BY <1>0, <1>4 DEF Granted
  <2>2. /\ rows' = RowsPurged(r)
        /\ sync_seq' = sync_seq
        /\ purged_before_seq' = HorizonRaised(r)
    BY <1>1, <1>4 DEF AfterSecond
  <2>3. /\ purged_before_seq \in Nat
        /\ op[r].purged_max \in Nat
        /\ \A i \in op[r].old : rows[i].seq \in Nat
    BY <1>0, <1>4, <2>1, OpKinds, RowFields
       DEF ListOps, OldFound, Tombstones, TypeOK
  <2>4. /\ purged_before_seq <= HorizonRaised(r)
        /\ \A i \in op[r].old : rows[i].seq <= HorizonRaised(r)
    BY <2>1, <2>3 DEF HorizonRaised, OldFound
  <2>5. HorizonRaised(r) \in
          {purged_before_seq} \cup {rows[i].seq : i \in op[r].old}
    BY <2>1 DEF HorizonRaised, OldFound
  <2>6. Purge(op[r].old)
    BY <1>1, <2>1, <2>2, <2>4, <2>5 DEF Purge, OldFound, RowsPurged
  <2> QED BY <2>1, <2>6 DEF Next, OldFound
<1> QED
  BY <1>0, <1>2, <1>3, <1>4, OpKinds DEF Granted

LEMMA CommitInv ==
  ASSUME TxInv, NEW r \in Requests, Commit(r)
  PROVE  TxInv'
<1>0. /\ writer = r
      /\ view[r] \in View
      /\ TypeOK
      /\ view[r] = AfterSecond(r)
  BY DEF TxInv, TxTypeOK, RequestInv, Commit
<1>1. TypeOK'
  BY <1>0 DEF Commit, TypeOK, View
<1>2. sync_seq <= sync_seq'
  BY <1>0 DEF Commit, AfterSecond, TypeOK
<1> DEFINE label == IF op[r].kind = "list" THEN "listed" ELSE "accepted"
<1>3. pc' = [Outdated EXCEPT ![r] = label]
  BY DEF Commit
<1>4. label \in Replies
  BY DEF Replies
<1>5. /\ pc' \in [Requests -> InFlight \cup Replies]
      /\ \A q \in Requests : pc'[q] \notin {"open", "writing", "written"}
  BY <1>0, <1>3, <1>4, OutdatedSettles DEF Replies
<1> QED
  BY <1>1, <1>2, <1>5, SettledStep DEF Commit

LEMMA StoreCheckpointInv ==
  ASSUME TxInv, NEW r \in Requests, StoreCheckpoint(r)
  PROVE  TxInv' /\ [Next]_serverVars
<1>0. /\ op[r] \in CheckpointOps
      /\ op[r].seq \in 0..sync_seq
      /\ op[r].tag \in Tags
      /\ TypeOK
      /\ sync_seq \in Nat
  BY OpKinds
     DEF TxInv, TxTypeOK, TypeOK, RequestInv, Sent, StoreCheckpoint, CheckpointOps
<1>1. CASE /\ PutCheckpoint(op[r].seq, op[r].tag)
           /\ pc' = [Outdated EXCEPT ![r] = "accepted"]
  <2>1. Next
    BY <1>0, <1>1 DEF Next
  <2>2. TypeOK'
    BY <1>0, <1>1 DEF TypeOK, PutCheckpoint
  <2>3. /\ pc' \in [Requests -> InFlight \cup Replies]
        /\ \A q \in Requests : pc'[q] \notin {"open", "writing", "written"}
    BY <1>1, OutdatedSettles DEF StoreCheckpoint, Replies
  <2>4. TxInv'
    BY <1>0, <1>1, <2>2, <2>3, SettledStep DEF StoreCheckpoint, PutCheckpoint
  <2> QED BY <2>1, <2>4
<1>2. CASE UNCHANGED serverVars /\ Goto(r, "accepted")
  <2>1. /\ op[r] \in Ops /\ Sent(op[r])
        /\ view[r] \in View
        /\ op' = [op EXCEPT ![r] = op[r]]
        /\ view' = [view EXCEPT ![r] = view[r]]
        /\ writer' = IF writer = r THEN NoRequest ELSE writer
    BY DEF TxInv, TxTypeOK, RequestInv, StoreCheckpoint
  <2> QED
    BY <1>2, <2>1, QuietStep DEF Goto, Replies
<1> QED
  BY <1>1, <1>2 DEF StoreCheckpoint

LEMMA CrashInv == TxInv /\ Crash => TxInv'
<1> SUFFICES ASSUME TxInv, Crash PROVE TxInv'
  OBVIOUS
<1>1. TypeOK' /\ sync_seq <= sync_seq'
  BY DEF TxInv, TxTypeOK, TypeOK, Crash, serverVars
<1>2. /\ pc' \in [Requests -> InFlight \cup Replies]
      /\ \A q \in Requests : pc'[q] \notin {"open", "writing", "written"}
  BY DEF Crash, TxInv, TxTypeOK, InFlight, InTransaction, Replies
<1> QED
  BY <1>1, <1>2, SettledStep DEF Crash

LEMMA OtherCommitInv == TxInv /\ OtherCommit => TxInv'
<1> SUFFICES ASSUME TxInv, OtherCommit PROVE TxInv'
  OBVIOUS
<1>1. TypeOK' /\ sync_seq <= sync_seq'
  BY DEF TxInv, TxTypeOK, TypeOK, OtherCommit, serverVars
<1>2. /\ pc' \in [Requests -> InFlight \cup Replies]
      /\ \A q \in Requests : pc'[q] \notin {"open", "writing", "written"}
  BY OutdatedSettles, VaultItemsTxAssumption DEF OtherCommit
<1> QED
  BY <1>1, <1>2, SettledStep DEF OtherCommit

-----------------------------------------------------------------------------
LEMMA TxInitInv == TxInit => TxInv
<1> SUFFICES ASSUME TxInit PROVE TxInv
  OBVIOUS
<1>1. ListSince(0) \in Ops /\ Sent(ListSince(0))
  BY DEF ListSince, Ops, ListOps, Sent
<1>2. EmptyView \in View
  BY DEF EmptyView, View, Row
<1>3. TypeOK
  BY InitSeqInv DEF TxInit, SeqInv
<1>4. TxTypeOK
  BY <1>1, <1>2, <1>3 DEF TxInit, TxTypeOK, Replies
<1>5. \A r \in Requests : RequestInv(r)
  BY <1>1, VaultItemsTxAssumption DEF TxInit, RequestInv
<1> QED
  BY <1>4, <1>5 DEF TxInv

\* Every step keeps the invariant and is a step of VaultItems or none at all.
LEMMA TxStep == TxInv /\ [TxNext]_allVars => TxInv' /\ [Next]_serverVars
<1> SUFFICES ASSUME TxInv, [TxNext]_allVars
             PROVE  TxInv' /\ [Next]_serverVars
  OBVIOUS
<1>1. ASSUME NEW r \in Requests, Receives(r)
      PROVE  TxInv' /\ [Next]_serverVars
  BY <1>1, ReceivesInv DEF Receives, Receive
<1>2. ASSUME NEW r \in Requests, Connects(r)
      PROVE  TxInv' /\ [Next]_serverVars
  <2>1. CASE Begin(r)
    BY <2>1, BeginInv DEF Begin
  <2>2. CASE ReadConflict(r)
    BY <2>2, AnswerInv DEF ReadConflict
  <2>3. CASE StoreCheckpoint(r)
    BY <2>3, StoreCheckpointInv
  <2> QED BY <1>2, <2>1, <2>2, <2>3 DEF Connects
<1>3. ASSUME NEW r \in Requests, Proceeds(r)
      PROVE  TxInv' /\ [Next]_serverVars
  <2>1. CASE Decide(r) \/ RefuseWrite(r) \/ BusyTimeout(r)
    BY <2>1, AnswerInv DEF Decide, RefuseWrite, BusyTimeout
  <2>2. CASE FirstWrite(r)
    BY <2>2, FirstWriteInv DEF FirstWrite
  <2>3. CASE SecondWrite(r)
    BY <2>3, SecondWriteInv DEF SecondWrite
  <2>4. CASE Commit(r)
    BY <2>4, CommitInv, CommitRefines
  <2> QED BY <1>3, <2>1, <2>2, <2>3, <2>4 DEF Proceeds
<1>4. ASSUME NEW r \in Requests, Fail(r)
      PROVE  TxInv' /\ [Next]_serverVars
  BY <1>4, AnswerInv DEF Fail
<1>5. CASE Crash
  BY <1>5, CrashInv DEF Crash
<1>6. CASE OtherCommit
  BY <1>6, OtherCommitInv DEF OtherCommit
<1>7. CASE UNCHANGED ownVars
  <2>1. /\ UNCHANGED serverVars
        /\ op' = op /\ pc' = pc /\ view' = view /\ writer' = writer
    BY <1>7 DEF ownVars, txVars
  <2>2. TxTypeOK'
    BY <2>1 DEF TxInv, TxTypeOK, TypeOK, serverVars
  <2>3. ASSUME NEW r \in Requests PROVE RequestInv(r)'
    <3>1. RequestInv(r)
      BY DEF TxInv
    <3>2. Committed' = Committed /\ (OldFound(r)' <=> OldFound(r))
      BY <2>1 DEF serverVars, Committed, OldFound, Tombstones
    <3> QED
      BY <2>1, <3>1, <3>2, OwnStatement DEF RequestInv
  <2> QED BY <2>1, <2>2, <2>3 DEF TxInv
<1> QED
  BY <1>1, <1>2, <1>3, <1>4, <1>5, <1>6, <1>7
     DEF TxNext, Handles, OtherConnects, OtherReleases, allVars

LEMMA TxSpecInv == TxSpec => []TxInv
  BY TxInitInv, TxStep, PTL DEF TxSpec

\* Any number of concurrent transactions behave like handlers that run one
\* after the other: no lost update, no half-done write, no torn purge.
THEOREM TransactionsImplementStore == TxSpec => Spec
<1>1. TxInit => Init
  BY DEF TxInit
<1> QED
  BY <1>1, TxSpecInv, TxInitInv, TxStep, PTL DEF TxSpec, Spec

\* The write lock is held exactly between a request's first write and its end.
THEOREM WriteLock == TxSpec => []LockHeld
<1>1. TxInv => LockHeld
  BY DEF TxInv, RequestInv, LockHeld
<1> QED
  BY <1>1, TxSpecInv, PTL

\* Nobody commits between the snapshot of a writer and its commit.
THEOREM WritersFresh == TxSpec => []ViewsFresh
<1>1. TxInv => ViewsFresh
  <2> SUFFICES ASSUME TxInv, NEW r \in Requests
               PROVE  ViewsFresh!(r)
    BY DEF ViewsFresh
  <2>1. RequestInv(r)
    BY DEF TxInv
  <2>2. op[r].kind = "list" => AfterFirst(r) =
          [Committed EXCEPT !.rows =
             [i \in Items |-> IF i \in op[r].old THEN NoRow ELSE @[i]]]
    BY DEF AfterFirst, RowsPurged, Committed
  <2>3. op[r].kind # "list" =>
          AfterFirst(r) = [Committed EXCEPT !.sync_seq = @ + 1]
    BY DEF AfterFirst, Committed
  <2> QED
    BY <2>1, <2>2, <2>3 DEF RequestInv
<1> QED
  BY <1>1, TxSpecInv, PTL

-----------------------------------------------------------------------------
(* Listings among transactions: what a listing has seen of the live rows up  *)
(* to its counter stays true after its snapshot is old.                      *)

LiveRows(table) == {i \in Items : table[i].revision > 0 /\ ~table[i].deleted}

\* View v is right about every live row of the table up to its own counter.
SeesLive(v, table) ==
  \A i \in LiveRows(table) : table[i].seq <= v.sync_seq => v.rows[i] = table[i]

Listing(r) ==
  op[r].kind = "list" /\ pc[r] \in {"open", "stale", "writing", "written", "listed"}

\* Only a listing is answered with one.
ListingSound(r) ==
  /\ pc[r] = "listed" => op[r].kind = "list"
  /\ Listing(r) => view[r].sync_seq <= sync_seq /\ SeesLive(view[r], rows)

ListInv == TxInv /\ \A r \in Requests : ListingSound(r)

\* A live row is new in the table only with a new sequence number.
LEMMA LiveRowsKept ==
  ASSUME TypeOK, [Next]_serverVars
  PROVE  /\ sync_seq <= sync_seq'
         /\ \A i \in LiveRows(rows') : rows'[i].seq <= sync_seq => rows'[i] = rows[i]
<1>1. sync_seq \in Nat /\ rows \in [Items -> Row]
  BY DEF TypeOK
<1>2. ASSUME NEW i \in Items, NEW r \in 1..(MaxSeq + 1), NEW c \in Contents, PutItem(i, r, c)
      PROVE  /\ sync_seq' = sync_seq + 1 /\ rows'[i].seq = sync_seq + 1
             /\ \A j \in Items \ {i} : rows'[j] = rows[j]
  BY <1>1, <1>2, PutItemRows
<1>3. ASSUME NEW i \in Items, NEW r \in 0..MaxSeq, DeleteItem(i, r)
      PROVE  /\ sync_seq' = sync_seq + 1 /\ rows'[i].seq = sync_seq + 1
             /\ \A j \in Items \ {i} : rows'[j] = rows[j]
  <2>1. rows' = [rows EXCEPT ![i] =
                   [revision |-> rows[i].revision + 1, seq |-> sync_seq + 1,
                    deleted |-> TRUE, content |-> NoContent]]
        /\ sync_seq' = sync_seq + 1
    BY <1>3, DeleteItemRows
  <2> QED
    BY <1>1, <2>1
<1>4. ASSUME NEW old \in SUBSET Tombstones, Purge(old)
      PROVE  sync_seq' = sync_seq /\ \A i \in LiveRows(rows') : rows'[i] = rows[i]
  BY <1>4, PurgeRows DEF LiveRows, NoRow
<1>5. ASSUME NEW s \in 0..sync_seq, NEW t \in Tags, PutCheckpoint(s, t)
      PROVE  sync_seq' = sync_seq /\ rows' = rows
  BY <1>5 DEF PutCheckpoint
<1>6. CASE UNCHANGED serverVars
  BY <1>1, <1>6 DEF serverVars
<1> QED
  BY <1>1, <1>2, <1>3, <1>4, <1>5, <1>6 DEF Next, LiveRows

\* A view that a step leaves alone stays right.
LEMMA OldViewSound ==
  ASSUME TxInv, [Next]_serverVars, NEW r \in Requests, view[r].sync_seq <= sync_seq,
         SeesLive(view[r], rows), view'[r] = view[r], TypeOK'
  PROVE  view'[r].sync_seq <= sync_seq' /\ SeesLive(view'[r], rows')
<1>1. sync_seq \in Nat /\ sync_seq' \in Nat /\ view[r].sync_seq \in Nat
  BY DEF TxInv, TxTypeOK, TypeOK, View
<1>2. \A i \in Items : rows'[i].seq \in Nat
  BY RowFields DEF TypeOK
<1>3. /\ sync_seq <= sync_seq'
      /\ \A i \in LiveRows(rows') : rows'[i].seq <= sync_seq => rows'[i] = rows[i]
  BY LiveRowsKept DEF TxInv, TxTypeOK
<1> QED
  BY <1>1, <1>2, <1>3 DEF SeesLive, LiveRows

LEMMA CarriedSound ==
  ASSUME ListInv, TypeOK', [Next]_serverVars, NEW q \in Requests,
         view'[q] = view[q], op'[q].kind = op[q].kind, Listing(q)' => Listing(q),
         pc'[q] = "listed" => op[q].kind = "list"
  PROVE  ListingSound(q)'
BY OldViewSound DEF ListInv, ListingSound

\* The requests a step does not serve: their transactions become stale, or fail.
Bystander(q) ==
  /\ view'[q] = view[q] /\ op'[q] = op[q]
  /\ pc'[q] \in {pc[q], "failed"} \/ (pc[q] = "open" /\ pc'[q] = "stale")

LEMMA BystanderSound ==
  ASSUME ListInv, TypeOK', [Next]_serverVars, NEW q \in Requests, Bystander(q)
  PROVE  ListingSound(q)'
<1>1. ListingSound(q)
  BY DEF ListInv
<1>2. (Listing(q)' => Listing(q)) /\ (pc'[q] = "listed" => pc[q] = "listed")
  BY DEF Bystander, Listing
<1> QED
  BY <1>1, <1>2, CarriedSound DEF Bystander, ListingSound

LEMMA BeginSound ==
  ASSUME ListInv, NEW r \in Requests, Begin(r)
  PROVE  ListingSound(r)'
<1>1. /\ view \in [Requests -> View] /\ pc \in [Requests -> InFlight \cup Replies]
      /\ sync_seq \in Nat
  BY DEF ListInv, TxInv, TxTypeOK, TypeOK
<1>2. view'[r] = Committed /\ pc'[r] = "open" /\ UNCHANGED serverVars
  BY <1>1 DEF Begin, Goto
<1> QED
  BY <1>1, <1>2 DEF ListingSound, SeesLive, LiveRows, Committed, serverVars

\* What a listing deletes was deleted in its view already.
LEMMA FirstWriteSound ==
  ASSUME ListInv, NEW r \in Requests, FirstWrite(r)
  PROVE  ListingSound(r)'
<1>1. /\ view \in [Requests -> View] /\ pc \in [Requests -> InFlight \cup Replies]
      /\ sync_seq \in Nat /\ RequestInv(r)
  BY DEF ListInv, TxInv, TxTypeOK, TypeOK
<1>2. /\ view'[r] = FirstStatement(r) /\ pc'[r] = "writing" /\ view[r] = Committed
      /\ UNCHANGED <<serverVars, op>> /\ (op[r].kind = "list" => OldFound(r))
  BY <1>1 DEF FirstWrite, Goto, RequestInv
<1>3. CASE op[r].kind = "list"
  <2>1. /\ view'[r].sync_seq = sync_seq
        /\ view'[r].rows = [i \in Items |-> IF i \in op[r].old THEN NoRow ELSE rows[i]]
    BY <1>2, <1>3 DEF FirstStatement, Committed
  <2>2. \A i \in LiveRows(rows) : i \notin op[r].old
    BY <1>2, <1>3 DEF OldFound, Tombstones, LiveRows
  <2> QED
    BY <1>1, <1>2, <2>1, <2>2 DEF ListingSound, SeesLive, LiveRows, serverVars
<1> QED
  BY <1>2, <1>3 DEF ListingSound, Listing

LEMMA SecondWriteSound ==
  ASSUME ListInv, NEW r \in Requests, SecondWrite(r)
  PROVE  ListingSound(r)'
<1>1. /\ view \in [Requests -> View] /\ pc \in [Requests -> InFlight \cup Replies]
      /\ ListingSound(r)
  BY DEF ListInv, TxInv, TxTypeOK
<1>2. pc'[r] = "written" /\ pc[r] = "writing" /\ UNCHANGED <<serverVars, op>>
  BY <1>1 DEF SecondWrite, Goto
<1>3. CASE op[r].kind = "list"
  <2>1. view' = [view EXCEPT ![r].purged_before_seq = RaisedHorizon(r)]
    BY <1>3 DEF SecondWrite
  <2>2. view'[r].sync_seq = view[r].sync_seq /\ view'[r].rows = view[r].rows
    BY <1>1, <2>1 DEF View
  <2> QED
    BY <1>1, <1>2, <1>3, <2>2 DEF ListingSound, Listing, SeesLive, LiveRows, serverVars
<1> QED
  BY <1>2, <1>3 DEF ListingSound, Listing

LEMMA CommitSound ==
  ASSUME ListInv, TypeOK', NEW r \in Requests, Commit(r)
  PROVE  ListingSound(r)'
<1>1. pc \in [Requests -> InFlight \cup Replies]
  BY DEF ListInv, TxInv, TxTypeOK
<1>2. /\ view'[r] = view[r] /\ rows' = view[r].rows /\ sync_seq' = view[r].sync_seq
      /\ op' = op /\ pc'[r] = IF op[r].kind = "list" THEN "listed" ELSE "accepted"
  BY <1>1 DEF Commit, Outdated
<1> QED
  BY <1>2 DEF ListingSound, Listing, SeesLive, TypeOK

LEMMA ListSteps == ListInv /\ [TxNext]_allVars => ListInv'
<1> SUFFICES ASSUME ListInv, [TxNext]_allVars PROVE ListInv'
  OBVIOUS
<1>1. TxInv' /\ [Next]_serverVars /\ TypeOK'
  BY TxStep DEF ListInv, TxInv, TxTypeOK
<1>2. /\ view \in [Requests -> View] /\ pc \in [Requests -> InFlight \cup Replies]
      /\ op \in [Requests -> Ops]
  BY DEF ListInv, TxInv, TxTypeOK
<1>3. (\A q \in Requests : ListingSound(q)') => ListInv'
  BY <1>1 DEF ListInv
<1>4. ASSUME \A q \in Requests : Bystander(q) PROVE ListInv'
  BY <1>1, <1>3, <1>4, BystanderSound
<1>5. ASSUME NEW r \in Requests, \A q \in Requests \ {r} : Bystander(q), ListingSound(r)'
      PROVE  ListInv'
  BY <1>1, <1>3, <1>5, BystanderSound
<1>6. ASSUME NEW r \in Requests, Receives(r) PROVE ListInv'
  <2>1. PICK o : Receive(r, o)
    BY <1>6 DEF Receives
  <2>2. \A q \in Requests \ {r} : Bystander(q)
    BY <1>2, <2>1 DEF Receive, Goto, Bystander
  <2>3. pc'[r] = "received"
    BY <1>2, <2>1 DEF Receive, Goto
  <2> QED
    BY <1>5, <2>2, <2>3 DEF ListingSound, Listing
<1>7. ASSUME NEW r \in Requests, Begin(r) PROVE ListInv'
  <2>1. \A q \in Requests \ {r} : Bystander(q)
    BY <1>2, <1>7 DEF Begin, FindsOld, Goto, Bystander
  <2> QED
    BY <1>5, <1>7, <2>1, BeginSound
<1>8. ASSUME NEW r \in Requests, ReadConflict(r) \/ StoreCheckpoint(r) PROVE ListInv'
  <2>1. \A q \in Requests \ {r} : Bystander(q)
    BY <1>2, <1>8 DEF ReadConflict, StoreCheckpoint, Outdated, Goto, Bystander
  <2>2. pc'[r] \in {"conflict", "accepted"}
    BY <1>2, <1>8 DEF ReadConflict, StoreCheckpoint, Outdated, Goto
  <2> QED
    BY <1>5, <2>1, <2>2 DEF ListingSound, Listing
<1>9. ASSUME NEW r \in Requests, Decide(r) PROVE ListInv'
  <2>1. \A q \in Requests \ {r} : Bystander(q)
    BY <1>2, <1>9 DEF Decide, Goto, Bystander
  <2>2. pc[r] \in {"open", "stale"} /\ pc'[r] = Verdict(r) /\ UNCHANGED <<view, op>>
    BY <1>2, <1>9 DEF Decide, Goto
  <2>3. IF op[r].kind = "list" THEN pc'[r] = "listed"
        ELSE pc'[r] \in {"missing", "unchanged", "rejected"}
    BY <2>2 DEF Verdict
  <2>4. ListingSound(r)'
    BY <1>1, <2>2, <2>3, CarriedSound DEF Listing
  <2> QED
    BY <1>5, <2>1, <2>4
<1>10. ASSUME NEW r \in Requests, FirstWrite(r) PROVE ListInv'
  <2>1. \A q \in Requests \ {r} : Bystander(q)
    BY <1>2, <1>10 DEF FirstWrite, Goto, Bystander
  <2> QED
    BY <1>5, <1>10, <2>1, FirstWriteSound
<1>11. ASSUME NEW r \in Requests, SecondWrite(r) PROVE ListInv'
  <2>1. \A q \in Requests \ {r} : Bystander(q)
    BY <1>2, <1>11 DEF SecondWrite, Goto, Bystander
  <2> QED
    BY <1>5, <1>11, <2>1, SecondWriteSound
<1>12. ASSUME NEW r \in Requests, Commit(r) PROVE ListInv'
  <2>1. \A q \in Requests \ {r} : Bystander(q)
    BY <1>2, <1>12 DEF Commit, Outdated, Bystander
  <2> QED
    BY <1>1, <1>5, <1>12, <2>1, CommitSound
<1>13. CASE \/ \E r \in Requests : RefuseWrite(r) \/ BusyTimeout(r) \/ Fail(r)
            \/ Crash \/ OtherCommit \/ UNCHANGED ownVars
  <2>1. \A q \in Requests : Bystander(q)
    BY <1>2, <1>13 DEF RefuseWrite, BusyTimeout, Fail, Crash, OtherCommit, Outdated, Goto,
       Bystander, ownVars, txVars
  <2> QED
    BY <1>4, <2>1
<1> QED
  BY <1>6, <1>7, <1>8, <1>9, <1>10, <1>11, <1>12, <1>13
     DEF TxNext, Handles, Connects, Proceeds, OtherConnects, OtherReleases, allVars

\* A listing is complete up to the latest_seq it reports (routes/items.rs: list):
\* no write that another request commits around it falls between the counter it
\* read and the rows it read.
THEOREM ListingsWhole == TxSpec => []ListingComplete
<1>1. TxInit => ListInv
  <2> SUFFICES ASSUME TxInit PROVE ListInv
    OBVIOUS
  <2>1. TxInv
    BY TxInitInv
  <2>2. \A r \in Requests : pc[r] = "failed"
    BY DEF TxInit
  <2> QED
    BY <2>1, <2>2 DEF ListInv, ListingSound, Listing
<1>2. ListInv => ListingComplete
  <2> SUFFICES ASSUME ListInv, NEW r \in Requests, NEW i \in Items, pc[r] = "listed",
                      Live(i), rows[i].seq \in (op[r].since + 1)..LatestListed(r)
               PROVE  i \in RowsListed(r) /\ view[r].rows[i] = rows[i]
    BY DEF ListingComplete
  <2>1. /\ op[r].kind = "list" /\ SeesLive(view[r], rows)
        /\ op[r] \in Ops /\ view[r] \in View /\ rows[i] \in Row
    BY DEF ListInv, ListingSound, Listing, TxInv, TxTypeOK, TypeOK
  <2>2. op[r].since \in Nat /\ rows[i].seq \in Nat /\ view[r].sync_seq \in Nat
    BY <2>1, OpKinds, RowFields DEF ListOps, View
  <2>3. i \in LiveRows(rows) /\ rows[i].seq <= view[r].sync_seq /\ rows[i].seq > op[r].since
    BY <2>2 DEF LatestListed, Live, Exists, LiveRows
  <2>4. view[r].rows[i] = rows[i]
    BY <2>1, <2>3 DEF SeesLive
  <2> QED
    BY <2>3, <2>4 DEF RowsListed, Listed, Live, Exists
<1> QED
  BY <1>1, <1>2, ListSteps, PTL DEF TxSpec
===============================================================================

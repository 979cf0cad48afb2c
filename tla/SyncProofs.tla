------------------------------- MODULE SyncProofs -------------------------------
(***************************************************************************)
(* Theorems about synchronising devices (SyncEngine) and the rollback      *)
(* guard around them (RollbackSync), for any number of devices, items,     *)
(* edits and failures: what a device shows is what the server has, or its  *)
(* cursor will still bring the difference; no op leaves a queue unsettled; *)
(* whatever the devices do, the server's tables are those of VaultItems;   *)
(* no cursor goes back, and an honest server is not accused.               *)
(***************************************************************************)
EXTENDS RollbackSync, VaultItemsProofs

-----------------------------------------------------------------------------
(* Ops and stored items. *)

LEMMA OpFields ==
  ASSUME NEW op \in Op
  PROVE  /\ op.kind \in {"upsert", "delete"}
         /\ op.item \in Items
         /\ op.revision \in Nat /\ op.revision > 0
         /\ op.seen \in Contents \cup {NoContent}
         /\ op.kind = "upsert" => op.content \in Contents
         /\ op.kind = "delete" => op.content = NoContent
BY DEF Op

LEMMA UpsertOp ==
  ASSUME NEW i \in Items, NEW c \in Contents, NEW r \in Nat, r > 0,
         NEW s \in Contents \cup {NoContent}
  PROVE  [kind |-> "upsert", item |-> i, content |-> c, revision |-> r, seen |-> s] \in Op
BY DEF Op

LEMMA DeleteOp ==
  ASSUME NEW i \in Items, NEW r \in Nat, r > 0, NEW s \in Contents \cup {NoContent}
  PROVE  [kind |-> "delete", item |-> i, content |-> NoContent, revision |-> r,
          seen |-> s] \in Op
BY DEF Op

LEMMA StoredFields ==
  ASSUME NEW st \in Stored
  PROVE  /\ st.revision \in Nat
         /\ st.deleted \in BOOLEAN
         /\ st.content \in Contents \cup {NoContent}
<1>1. CASE st = NoStored
  BY <1>1 DEF NoStored
<1>2. CASE st \in [revision : Nat \ {0}, deleted : {FALSE}, content : Contents]
  BY <1>2
<1>3. CASE st \in [revision : Nat \ {0}, deleted : {TRUE}, content : {NoContent}]
  BY <1>3
<1> QED
  BY <1>1, <1>2, <1>3 DEF Stored

LEMMA Renumbered ==
  ASSUME NEW st \in Stored, st.revision > 0, NEW r \in Nat, r > 0
  PROVE  /\ [st EXCEPT !.revision = r] \in Stored
         /\ [st EXCEPT !.revision = r].revision = r
         /\ [st EXCEPT !.revision = r].deleted = st.deleted
<1> DEFINE new == [st EXCEPT !.revision = r]
<1>1. CASE st = NoStored
  BY <1>1 DEF NoStored
<1>2. CASE st \in [revision : Nat \ {0}, deleted : {FALSE}, content : Contents]
  <2>3. new = [revision |-> r, deleted |-> st.deleted, content |-> st.content]
    BY <1>2
  <2>1. new \in [revision : Nat \ {0}, deleted : {FALSE}, content : Contents]
    <3>1. r \in Nat \ {0}
      OBVIOUS
    <3>2. st.deleted = FALSE
      BY <1>2
    <3>3. st.content \in Contents
      BY <1>2
    <3> QED
      BY <2>3, <3>1, <3>2, <3>3
  <2>2. new.revision = r /\ new.deleted = st.deleted
    BY <1>2
  <2> QED
    BY <2>1, <2>2 DEF Stored
<1>3. CASE st \in [revision : Nat \ {0}, deleted : {TRUE}, content : {NoContent}]
  <2>3. new = [revision |-> r, deleted |-> st.deleted, content |-> st.content]
    BY <1>3
  <2>1. new \in [revision : Nat \ {0}, deleted : {TRUE}, content : {NoContent}]
    <3>1. r \in Nat \ {0}
      OBVIOUS
    <3>2. st.deleted = TRUE
      BY <1>3
    <3>3. st.content \in {NoContent}
      BY <1>3
    <3> QED
      BY <2>3, <3>1, <3>2, <3>3
  <2>2. new.revision = r /\ new.deleted = st.deleted
    BY <1>3
  <2> QED
    BY <2>1, <2>2 DEF Stored
<1> QED
  BY <1>1, <1>2, <1>3 DEF Stored

LEMMA MirrorStored ==
  ASSUME NEW op \in Op
  PROVE  Mirror(op) \in Stored /\ (op.kind = "delete" => Mirror(op).deleted)
<1>1. CASE op.kind = "upsert"
  <2>1. Mirror(op) = [revision |-> op.revision, deleted |-> FALSE, content |-> op.content]
    BY <1>1 DEF Mirror
  <2>2. op.revision \in Nat \ {0} /\ op.content \in Contents
    BY <1>1, OpFields
  <2> QED
    BY <1>1, <2>1, <2>2 DEF Stored
<1>2. CASE op.kind = "delete"
  <2>1. Mirror(op) = [revision |-> op.revision + 1, deleted |-> TRUE, content |-> NoContent]
    BY <1>2 DEF Mirror
  <2>2. op.revision + 1 \in Nat \ {0}
    BY OpFields
  <2> QED
    BY <2>1, <2>2 DEF Stored
<1> QED
  BY <1>1, <1>2, OpFields

LEMMA RowStored ==
  ASSUME NEW row \in Row
  PROVE  /\ FromRow(row) \in Stored
         /\ FromRow(row).revision = row.revision
         /\ FromRow(row).deleted = row.deleted
<1>1. CASE row \in LiveRow
  BY <1>1 DEF LiveRow, FromRow, Stored
<1>2. CASE row \in Tombstone
  BY <1>2 DEF Tombstone, FromRow, Stored
<1>3. CASE row = NoRow
  BY <1>3 DEF NoRow, FromRow, Stored, NoStored
<1> QED
  BY <1>1, <1>2, <1>3 DEF Row

-----------------------------------------------------------------------------
(* Queues. *)

\* The last op of queue q for item i is a delete.
DeleteLast(q, i) ==
  \E k \in DOMAIN q :
    /\ q[k].kind = "delete" /\ q[k].item = i
    /\ \A j \in DOMAIN q : j > k => q[j].item # i

ItemsOf(q) == {q[k].item : k \in DOMAIN q}

LEMMA PendingItems == \A d : Pending(d) = ItemsOf(queue[d])
BY DEF Pending, Queued, ItemsOf

LEMMA Appended ==
  ASSUME NEW q \in Seq(Op), NEW op \in Op
  PROVE  /\ Append(q, op) \in Seq(Op)
         /\ ItemsOf(Append(q, op)) = ItemsOf(q) \cup {op.item}
         /\ \A i : DeleteLast(Append(q, op), i) =>
              IF i = op.item THEN op.kind = "delete" ELSE DeleteLast(q, i)
<1> DEFINE p == Append(q, op)
<1>1. /\ p \in Seq(Op)
      /\ Len(q) \in Nat
      /\ DOMAIN q = 1..Len(q) /\ DOMAIN p = 1..(Len(q) + 1)
      /\ \A k \in 1..Len(q) : p[k] = q[k]
      /\ p[Len(q) + 1] = op
  OBVIOUS
<1> HIDE DEF p
<1>2. DOMAIN p = DOMAIN q \cup {Len(q) + 1}
  BY <1>1
<1>3. ItemsOf(p) = ItemsOf(q) \cup {op.item}
  BY <1>1, <1>2 DEF ItemsOf
<1>4. ASSUME NEW i, DeleteLast(p, i)
      PROVE  IF i = op.item THEN op.kind = "delete" ELSE DeleteLast(q, i)
  <2>1. PICK k \in DOMAIN p :
          p[k].kind = "delete" /\ p[k].item = i /\ \A j \in DOMAIN p : j > k => p[j].item # i
    BY <1>4 DEF DeleteLast
  <2>2. CASE k = Len(q) + 1
    BY <1>1, <2>1, <2>2
  <2>3. CASE k \in DOMAIN q
    <3>1. Len(q) + 1 > k /\ op.item # i
      BY <1>1, <2>1, <2>3
    <3>2. \A j \in DOMAIN q : j > k => q[j].item # i
      BY <1>1, <2>1, <2>3
    <3> QED
      BY <1>1, <2>1, <2>3, <3>1, <3>2 DEF DeleteLast
  <2> QED
    BY <1>2, <2>1, <2>2, <2>3
<1> QED
  BY <1>1, <1>3, <1>4 DEF p

LEMMA Popped ==
  ASSUME NEW q \in Seq(Op), q # <<>>
  PROVE  /\ Tail(q) \in Seq(Op) /\ Head(q) \in Op
         /\ Head(q).item \in ItemsOf(q)
         /\ ItemsOf(q) = ItemsOf(Tail(q)) \cup {Head(q).item}
         /\ \A i : DeleteLast(Tail(q), i) => DeleteLast(q, i)
         /\ Head(q).kind = "delete" /\ Head(q).item \notin ItemsOf(Tail(q))
              => DeleteLast(q, Head(q).item)
<1> DEFINE t == Tail(q)
<1>1. /\ t \in Seq(Op) /\ Head(q) \in Op /\ q[1] = Head(q)
      /\ Len(q) \in Nat /\ Len(q) > 0
      /\ DOMAIN q = 1..Len(q) /\ DOMAIN t = 1..(Len(q) - 1)
      /\ \A k \in 1..(Len(q) - 1) : t[k] = q[k + 1]
  OBVIOUS
<1> HIDE DEF t
<1>2. /\ 1 \in DOMAIN q
      /\ \A k \in DOMAIN t : k + 1 \in DOMAIN q /\ t[k] = q[k + 1]
      /\ \A k \in DOMAIN q : k = 1 \/ (k - 1 \in DOMAIN t /\ t[k - 1] = q[k])
  BY <1>1
<1>3. ItemsOf(q) = ItemsOf(t) \cup {Head(q).item} /\ Head(q).item \in ItemsOf(q)
  <2>1. Head(q).item \in ItemsOf(q)
    BY <1>1, <1>2 DEF ItemsOf
  <2>2. ItemsOf(t) \subseteq ItemsOf(q)
    BY <1>2 DEF ItemsOf
  <2>3. ASSUME NEW i \in ItemsOf(q) PROVE i \in ItemsOf(t) \cup {Head(q).item}
    <3>1. PICK k \in DOMAIN q : q[k].item = i
      BY DEF ItemsOf
    <3>2. CASE k = 1
      BY <1>1, <3>1, <3>2
    <3>3. CASE k # 1
      BY <1>2, <3>1, <3>3 DEF ItemsOf
    <3> QED
      BY <3>2, <3>3
  <2> QED
    BY <2>1, <2>2, <2>3
<1>4. ASSUME NEW i, DeleteLast(t, i) PROVE DeleteLast(q, i)
  <2>1. PICK k \in DOMAIN t :
          t[k].kind = "delete" /\ t[k].item = i /\ \A j \in DOMAIN t : j > k => t[j].item # i
    BY <1>4 DEF DeleteLast
  <2>2. ASSUME NEW j \in DOMAIN q, j > k + 1 PROVE q[j].item # i
    <3>1. j \in Nat /\ k \in Nat /\ j # 1 /\ j - 1 > k
      BY <1>1, <2>2
    <3> QED
      BY <1>2, <2>1, <3>1
  <2> QED
    BY <1>2, <2>1, <2>2 DEF DeleteLast
<1>5. ASSUME Head(q).kind = "delete", Head(q).item \notin ItemsOf(t)
      PROVE  DeleteLast(q, Head(q).item)
  <2>1. ASSUME NEW j \in DOMAIN q, j > 1 PROVE q[j].item # Head(q).item
    BY <1>1, <1>2, <1>5, <2>1 DEF ItemsOf
  <2> QED
    BY <1>1, <1>2, <1>5, <2>1 DEF DeleteLast
<1> QED
  BY <1>1, <1>3, <1>4, <1>5 DEF t

-----------------------------------------------------------------------------
(* The server's part of a step. *)

\* Every write of an item takes a sequence number of its own.
RevisionsBehind == \A i \in Items : rows[i].revision <= rows[i].seq

ServerInv == TypeOK /\ TableShape /\ RevisionsBehind

\* What a step leaves of a row: the row itself, a newer one, or nothing when it
\* was a tombstone under the new horizon.
RowKept(i) ==
  \/ rows'[i] = rows[i]
  \/ rows'[i].seq > sync_seq
  \/ rows[i].deleted /\ Exists(i) /\ rows'[i] = NoRow /\ rows[i].seq <= purged_before_seq'

ServerMoves ==
  /\ ServerInv'
  /\ [Next]_serverVars
  /\ sync_seq <= sync_seq' /\ purged_before_seq <= purged_before_seq'
  /\ \A i \in Items : RowKept(i)

LEMMA RowsTyped ==
  ASSUME ServerInv, NEW i \in Items
  PROVE  /\ rows[i] \in Row
         /\ rows[i].revision \in Nat /\ rows[i].seq \in Nat /\ rows[i].deleted \in BOOLEAN
         /\ rows[i].revision > 0 => rows[i].seq > 0
         /\ rows[i].seq <= sync_seq /\ rows[i].revision <= rows[i].seq
         /\ sync_seq \in Nat /\ purged_before_seq \in Nat /\ MaxSeq \in Nat
<1>1. rows[i] \in Row
  BY DEF ServerInv, TypeOK
<1> QED
  BY <1>1, RowFields, VaultItemsAssumption DEF ServerInv, TypeOK, TableShape, RevisionsBehind

LEMMA WriteMoves ==
  ASSUME ServerInv, NEW i \in Items, NEW row \in LiveRow \cup Tombstone,
         row.seq = sync_seq + 1, row.revision <= sync_seq + 1,
         rows' = [rows EXCEPT ![i] = row], sync_seq' = sync_seq + 1,
         UNCHANGED <<purged_before_seq, checkpoint>>, Next
  PROVE  ServerMoves
<1>1. sync_seq \in Nat /\ purged_before_seq \in Nat /\ rows \in [Items -> Row] /\ row \in Row
  BY DEF ServerInv, TypeOK, Row
<1>2. rows'[i] = row /\ \A j \in Items \ {i} : rows'[j] = rows[j]
  BY <1>1
<1>3. TypeOK'
  BY <1>1 DEF ServerInv, TypeOK
<1>4. TableShape'
  BY <1>1, <1>2, RowsTyped DEF ServerInv, TableShape
<1>5. RevisionsBehind'
  BY <1>2, RowsTyped DEF RevisionsBehind
<1>6. \A j \in Items : RowKept(j)
  BY <1>1, <1>2 DEF RowKept
<1>7. sync_seq <= sync_seq' /\ purged_before_seq <= purged_before_seq'
  BY <1>1
<1> QED
  BY <1>3, <1>4, <1>5, <1>6, <1>7 DEF ServerMoves, ServerInv

LEMMA PutMoves ==
  ASSUME ServerInv, NEW i \in Items, NEW r \in Nat, NEW c \in Contents, PutItem(i, r, c)
  PROVE  /\ ServerMoves
         /\ rows' = [rows EXCEPT ![i] = [revision |-> r, seq |-> sync_seq + 1,
                                         deleted |-> FALSE, content |-> c]]
         /\ rows'[i].seq > sync_seq
<1>1. r = rows[i].revision + 1 /\ sync_seq < MaxSeq /\ TypeOK
  BY DEF PutItem, PutMatches, WriteRow, ServerInv
<1>2. r \in 1..(MaxSeq + 1) /\ r <= sync_seq + 1 /\ sync_seq + 1 > sync_seq
  BY <1>1, RowsTyped
<1>3. /\ sync_seq' = sync_seq + 1
      /\ rows' = [rows EXCEPT ![i] = [revision |-> r, seq |-> sync_seq + 1,
                                      deleted |-> FALSE, content |-> c]]
      /\ rows'[i] \in LiveRow
      /\ rows'[i].seq = sync_seq + 1
      /\ UNCHANGED <<purged_before_seq, checkpoint>>
  BY <1>1, <1>2, PutItemRows
<1>4. Next
  BY <1>2 DEF Next
<1> DEFINE row == [revision |-> r, seq |-> sync_seq + 1, deleted |-> FALSE, content |-> c]
<1>5. row \in LiveRow /\ row.seq = sync_seq + 1 /\ row.revision <= sync_seq + 1
  BY <1>1, <1>2, <1>3 DEF TypeOK
<1>6. rows' = [rows EXCEPT ![i] = row]
  BY <1>3
<1> HIDE DEF row
<1>7. ServerMoves
  BY <1>3, <1>4, <1>5, <1>6, WriteMoves
<1> QED
  BY <1>2, <1>3, <1>7

LEMMA DeleteMoves ==
  ASSUME ServerInv, NEW i \in Items, NEW r, DeleteItem(i, r)
  PROVE  /\ ServerMoves
         /\ rows'[i].deleted
         /\ rows'[i].seq > sync_seq
         /\ \A j \in Items \ {i} : rows'[j] = rows[j]
<1>1. r = rows[i].revision /\ sync_seq < MaxSeq /\ TypeOK
  BY DEF DeleteItem, DeleteMatches, WriteRow, ServerInv
<1>2. r \in 0..MaxSeq /\ sync_seq + 1 > sync_seq
  BY <1>1, RowsTyped
<1> DEFINE row == [revision |-> rows[i].revision + 1, seq |-> sync_seq + 1,
                   deleted |-> TRUE, content |-> NoContent]
<1>3. /\ sync_seq' = sync_seq + 1
      /\ rows' = [rows EXCEPT ![i] = row]
      /\ rows'[i] \in Tombstone
      /\ rows'[i].seq = sync_seq + 1
      /\ UNCHANGED <<purged_before_seq, checkpoint>>
  BY <1>1, <1>2, DeleteItemRows
<1>4. Next
  BY <1>2 DEF Next
<1>5. rows'[i] = row /\ \A j \in Items \ {i} : rows'[j] = rows[j]
  BY <1>1, <1>3 DEF TypeOK
<1>6. row.deleted /\ row.seq = sync_seq + 1 /\ row.revision <= sync_seq + 1
  BY RowsTyped
<1> HIDE DEF row
<1>7. ServerMoves
  BY <1>3, <1>4, <1>5, <1>6, WriteMoves
<1> QED
  BY <1>2, <1>3, <1>5, <1>6, <1>7

LEMMA PurgeMoves ==
  ASSUME ServerInv, NEW old \in SUBSET Expirable, Purge(old)
  PROVE  ServerMoves /\ sync_seq' = sync_seq
<1>1. old \in SUBSET Tombstones
  BY DEF Expirable
<1>2. TypeOK
  BY DEF ServerInv
<1>3. /\ rows' = [i \in Items |-> IF i \in old THEN NoRow ELSE rows[i]]
      /\ purged_before_seq' \in Nat
      /\ purged_before_seq <= purged_before_seq'
      /\ \A i \in old : rows[i].seq <= purged_before_seq'
      /\ \/ purged_before_seq' = purged_before_seq
         \/ \E i \in Items : purged_before_seq' = rows[i].seq
      /\ UNCHANGED <<sync_seq, checkpoint>>
  BY <1>1, <1>2, PurgeRows
<1>4. \A i \in Items : rows'[i] = IF i \in old THEN NoRow ELSE rows[i]
  BY <1>3
<1>5. ASSUME NEW i \in Items PROVE RowKept(i)
  <2>1. i \in old => rows[i].deleted
    BY <1>1 DEF Tombstones
  <2>2. rows[i].deleted => Exists(i)
    BY <1>2, WrittenRow DEF TypeOK, Row, NoRow, Exists
  <2> QED
    BY <1>3, <1>4, <2>1, <2>2 DEF RowKept
<1>6. TypeOK'
  BY <1>2, <1>3 DEF TypeOK, Row
<1>7. NoRow.seq = 0 /\ NoRow.revision = 0
  BY DEF NoRow
<1>8. TableShape'
  BY <1>3, <1>4, <1>7, RowsTyped DEF ServerInv, TypeOK, TableShape
<1>9. RevisionsBehind'
  BY <1>4, <1>7, RowsTyped DEF RevisionsBehind
<1>10. Next
  BY <1>1 DEF Next
<1> QED
  BY <1>2, <1>3, <1>5, <1>6, <1>8, <1>9, <1>10 DEF ServerMoves, ServerInv, TypeOK

LEMMA ServerQuiet ==
  ASSUME ServerInv, UNCHANGED serverVars
  PROVE  ServerMoves /\ rows' = rows /\ sync_seq' = sync_seq
BY DEF ServerInv, TypeOK, TableShape, RevisionsBehind, ServerMoves, RowKept, serverVars

-----------------------------------------------------------------------------
(* What a device shows. *)

Absent(st) == ~(st.revision > 0) \/ st.deleted

Agree(st, row) ==
  IF row.revision > 0 /\ ~row.deleted THEN st = FromRow(row) ELSE Absent(st)

Sound(st, row, horizon, s) ==
  Agree(st, row) \/ row.seq > s \/ FullResync(horizon, s)

Covered(d, i, s) ==
  i \in Pending(d) \/ Sound(replica[d][i], rows[i], purged_before_seq, s)

Pushes(d) == phase[d] \in {"push", "rejected"}

\* The inductive part that belongs to one device: beside what CursorSound says,
\* that it holds of pull.latest_seq while the cycle runs, and that an item whose
\* last op is a delete is not shown.
DeviceInv(d) ==
  /\ last_seq[d] <= sync_seq
  /\ Pushes(d) => last_seq[d] <= pulled[d] /\ pulled[d] <= sync_seq
  /\ phase[d] = "rejected" => queue[d] # <<>>
  /\ \A i \in Items \ revived[d] : DeleteLast(queue[d], i) => Absent(replica[d][i])
  /\ \A i \in Items \ (revived[d] \cup orphaned[d]) :
       /\ Covered(d, i, last_seq[d])
       /\ Pushes(d) => Covered(d, i, pulled[d])

SyncInv == SyncTypeOK /\ ServerInv /\ \A d \in Devices : DeviceInv(d)

LEMMA CoveredMeaning ==
  ASSUME NEW d \in Devices, NEW i \in Items
  PROVE  SoundFor(d, i) <=> Covered(d, i, last_seq[d])
BY DEF SoundFor, Covered, Sound, Agree, Absent, Mirrors, WillHear, Live, Exists, Held

LEMMA DeviceTyped ==
  ASSUME SyncTypeOK, NEW d \in Devices
  PROVE  /\ replica[d] \in [Items -> Stored] /\ queue[d] \in Seq(Op)
         /\ last_seq[d] \in Nat /\ pulled[d] \in Nat
         /\ phase[d] \in {"idle", "push", "rejected", "done"}
BY DEF SyncTypeOK

\* What the history variables record.
LEMMA Recorded ==
  ASSUME Record, NEW d \in Devices, NEW i \in Items
  PROVE  /\ i \notin revived'[d] => i \notin revived[d]
         /\ i \notin orphaned'[d] => i \notin orphaned[d]
         /\ i \notin revived'[d] /\ phase[d] = "rejected" /\ DeleteQueued(queue'[d], i)
              => replica'[d][i] = replica[d][i]
         /\ i \notin orphaned'[d] /\ Exists(i) /\ rows'[i] = NoRow /\ ~(last_seq[d] > 0)
              => ~Held(d, i)
<1>1. revived'[d] = revived[d] \cup
        {j \in Items : /\ phase[d] = "rejected" /\ replica'[d][j] # replica[d][j]
                       /\ DeleteQueued(queue'[d], j)}
  BY DEF Record
<1>2. orphaned'[d] = IF last_seq[d] > 0 THEN orphaned[d]
                     ELSE orphaned[d] \cup
                            {j \in {k \in Items : Exists(k) /\ rows'[k] = NoRow} : Held(d, j)}
  BY DEF Record
<1>3. i \notin revived'[d] =>
        i \notin revived[d] /\ ~(/\ phase[d] = "rejected" /\ replica'[d][i] # replica[d][i]
                                 /\ DeleteQueued(queue'[d], i))
  BY <1>1
<1>4. i \notin orphaned'[d] =>
        /\ i \notin orphaned[d]
        /\ last_seq[d] > 0 \/ ~(Exists(i) /\ rows'[i] = NoRow /\ Held(d, i))
  BY <1>2
<1> QED
  BY <1>3, <1>4

\* What the server does leaves the replica as sound as it was, at the cursor of
\* the device as well as at the one it is about to take.
LEMMA ServerKeepsSound ==
  ASSUME ServerInv, ServerMoves, Record, SyncTypeOK, NEW d \in Devices,
         NEW i \in Items, i \notin orphaned'[d],
         NEW s \in Nat, s <= sync_seq, s = 0 => last_seq[d] = 0,
         Covered(d, i, s)
  PROVE  i \in Pending(d) \/ Sound(replica[d][i], rows'[i], purged_before_seq', s)
<1> SUFFICES ASSUME Sound(replica[d][i], rows[i], purged_before_seq, s)
             PROVE  Sound(replica[d][i], rows'[i], purged_before_seq', s)
  BY DEF Covered
<1>1. /\ rows[i].seq \in Nat /\ rows[i].revision \in Nat /\ sync_seq \in Nat
      /\ purged_before_seq \in Nat /\ purged_before_seq' \in Nat /\ rows'[i].seq \in Nat
      /\ purged_before_seq <= purged_before_seq'
  BY RowsTyped, RowFields DEF ServerMoves, ServerInv, TypeOK
<1>2. FullResync(purged_before_seq, s) => FullResync(purged_before_seq', s)
  BY <1>1 DEF FullResync
<1>3. CASE rows'[i] = rows[i]
  BY <1>2, <1>3 DEF Sound
<1>4. CASE rows'[i].seq > sync_seq
  BY <1>1, <1>4 DEF Sound
<1>5. CASE rows[i].deleted /\ Exists(i) /\ rows'[i] = NoRow /\ rows[i].seq <= purged_before_seq'
  <2>1. Absent(replica[d][i]) => Sound(replica[d][i], rows'[i], purged_before_seq', s)
    BY <1>5 DEF Sound, Agree, NoRow
  <2>2. Agree(replica[d][i], rows[i]) => Absent(replica[d][i])
    BY <1>5 DEF Agree
  <2>3. s = 0 => Absent(replica[d][i])
    BY <1>5, Recorded DEF Absent, Held
  <2>4. rows[i].seq > s /\ s # 0 => FullResync(purged_before_seq', s)
    BY <1>1, <1>5 DEF FullResync
  <2>5. FullResync(purged_before_seq', s) =>
          Sound(replica[d][i], rows'[i], purged_before_seq', s)
    BY DEF Sound
  <2> QED
    BY <1>2, <2>1, <2>2, <2>3, <2>4, <2>5 DEF Sound
<1> QED
  BY <1>3, <1>4, <1>5 DEF ServerMoves, RowKept

\* A step of device d that moves no cursor.  Whatever becomes of an item: it is
\* left alone, or has an op, or is as the server has it, or the server has
\* something newer, or the device will rebuild its replica.
Settled(d, i) ==
  \/ replica'[d][i] = replica[d][i] /\ (i \in Pending(d) => i \in Pending(d)')
  \/ i \in Pending(d)'
  \/ Agree(replica'[d][i], rows'[i])
  \/ rows'[i].seq > sync_seq
  \/ FullResync(purged_before_seq', last_seq[d]) /\ ~Pushes(d)'

LEMMA LocalStep ==
  ASSUME SyncInv, ServerMoves, Record, NEW d \in Devices,
         last_seq'[d] = last_seq[d], pulled'[d] = pulled[d],
         Pushes(d)' => Pushes(d),
         phase'[d] = "rejected" => queue'[d] # <<>>,
         \A i \in Items : i \notin revived'[d] /\ i \notin orphaned'[d] => Settled(d, i),
         \A i \in Items : i \notin revived'[d] /\ DeleteLast(queue'[d], i)
           => Absent(replica'[d][i])
  PROVE  DeviceInv(d)'
<1>1. DeviceInv(d) /\ ServerInv /\ SyncTypeOK
  BY DEF SyncInv
<1>2. /\ last_seq[d] \in Nat /\ pulled[d] \in Nat
      /\ sync_seq \in Nat /\ sync_seq' \in Nat /\ sync_seq <= sync_seq'
  BY <1>1, DeviceTyped DEF ServerMoves, ServerInv, TypeOK
<1>3. last_seq'[d] <= sync_seq' /\ last_seq[d] <= sync_seq
  BY <1>1, <1>2 DEF DeviceInv
<1>4. Pushes(d)' => last_seq'[d] <= pulled'[d] /\ pulled'[d] <= sync_seq'
  BY <1>1, <1>2 DEF DeviceInv
<1>5. ASSUME NEW i \in Items, i \notin revived'[d], i \notin orphaned'[d]
      PROVE  Covered(d, i, last_seq[d])' /\ (Pushes(d)' => Covered(d, i, pulled[d])')
  <2>1. i \notin revived[d] \cup orphaned[d]
    BY <1>5, Recorded
  <2>2. Covered(d, i, last_seq[d]) /\ (Pushes(d) => Covered(d, i, pulled[d]))
    BY <1>1, <2>1 DEF DeviceInv
  <2>3. i \in Pending(d) \/ Sound(replica[d][i], rows'[i], purged_before_seq', last_seq[d])
    BY <1>1, <1>2, <1>3, <1>5, <2>2, ServerKeepsSound
  <2>4. Pushes(d) =>
          i \in Pending(d) \/ Sound(replica[d][i], rows'[i], purged_before_seq', pulled[d])
    BY <1>1, <1>2, <1>5, <2>2, ServerKeepsSound DEF DeviceInv
  <2>5. CASE replica'[d][i] = replica[d][i] /\ (i \in Pending(d) => i \in Pending(d)')
    BY <2>3, <2>4, <2>5 DEF Covered
  <2>6. CASE i \in Pending(d)'
    BY <2>6 DEF Covered
  <2>7. CASE Agree(replica'[d][i], rows'[i])
    BY <2>7 DEF Covered, Sound
  <2>8. CASE rows'[i].seq > sync_seq
    <3>1. rows'[i].seq \in Nat
      BY RowFields DEF ServerMoves, ServerInv, TypeOK
    <3>2. rows'[i].seq > last_seq[d] /\ (Pushes(d) => rows'[i].seq > pulled[d])
      BY <1>1, <1>2, <1>3, <2>8, <3>1 DEF DeviceInv
    <3> QED
      BY <3>2 DEF Covered, Sound
  <2>9. CASE FullResync(purged_before_seq', last_seq[d]) /\ ~Pushes(d)'
    BY <2>9 DEF Covered, Sound
  <2> QED
    BY <1>5, <2>5, <2>6, <2>7, <2>8, <2>9 DEF Settled
<1> QED
  BY <1>3, <1>4, <1>5 DEF DeviceInv

\* The other devices do nothing.
LEMMA OtherDevices ==
  ASSUME SyncInv, ServerMoves, Record, NEW d \in Devices,
         replica'[d] = replica[d], queue'[d] = queue[d], last_seq'[d] = last_seq[d],
         phase'[d] = phase[d], pulled'[d] = pulled[d]
  PROVE  DeviceInv(d)'
<1>1. DeviceInv(d)
  BY DEF SyncInv
<1>2. Pending(d)' = Pending(d) /\ (Pushes(d)' <=> Pushes(d))
  BY PendingItems DEF Pending, Queued, Pushes
<1>3. phase'[d] = "rejected" => queue'[d] # <<>>
  BY <1>1 DEF DeviceInv
<1>4. \A i \in Items : Settled(d, i)
  BY <1>2 DEF Settled
<1>5. \A i \in Items : i \notin revived'[d] /\ DeleteLast(queue'[d], i)
        => Absent(replica'[d][i])
  BY <1>1, Recorded DEF DeviceInv
<1> QED
  BY <1>2, <1>3, <1>4, <1>5, LocalStep

-----------------------------------------------------------------------------
(* The steps, one by one. *)

OthersKept(d) ==
  \A e \in Devices \ {d} :
    /\ replica'[e] = replica[e] /\ queue'[e] = queue[e]
    /\ last_seq'[e] = last_seq[e] /\ phase'[e] = phase[e] /\ pulled'[e] = pulled[e]

StepOK(d) == ServerMoves /\ DeviceInv(d)' /\ OthersKept(d)

\* Staging an op: its item is pending from now on.
LEMMA StageStep ==
  ASSUME SyncInv, Record, NEW d \in Devices, NEW op \in Op, Stage(d, op),
         UNCHANGED <<serverVars, last_seq, phase, pulled>>, ~Pushes(d)
  PROVE  StepOK(d)
<1>1. DeviceInv(d) /\ ServerInv /\ SyncTypeOK
  BY DEF SyncInv
<1>2. /\ replica \in [Devices -> [Items -> Stored]] /\ queue \in [Devices -> Seq(Op)]
      /\ queue[d] \in Seq(Op) /\ op.item \in Items
  BY <1>1, OpFields DEF SyncTypeOK
<1>3. /\ queue'[d] = Append(queue[d], op)
      /\ replica'[d][op.item] = Mirror(op)
      /\ \A j \in Items \ {op.item} : replica'[d][j] = replica[d][j]
      /\ OthersKept(d)
  BY <1>2 DEF Stage, OthersKept
<1>4. ServerMoves
  BY <1>1, ServerQuiet
<1>5. ItemsOf(queue'[d]) = ItemsOf(queue[d]) \cup {op.item}
  BY <1>2, <1>3, Appended
<1>6. Pending(d)' = Pending(d) \cup {op.item}
  BY <1>5 DEF Pending, Queued, ItemsOf
<1>7. \A i \in Items : Settled(d, i)
  BY <1>3, <1>6 DEF Settled
<1>8. ASSUME NEW i \in Items, i \notin revived'[d], DeleteLast(queue'[d], i)
      PROVE  Absent(replica'[d][i])
  <2>1. IF i = op.item THEN op.kind = "delete" ELSE DeleteLast(queue[d], i)
    BY <1>2, <1>3, <1>8, Appended
  <2>2. CASE i = op.item
    BY <1>3, <2>1, <2>2, MirrorStored DEF Absent
  <2>3. CASE i # op.item
    BY <1>1, <1>3, <1>8, <2>1, <2>3, Recorded DEF DeviceInv
  <2> QED
    BY <2>2, <2>3
<1>9. last_seq'[d] = last_seq[d] /\ pulled'[d] = pulled[d] /\ (Pushes(d)' => Pushes(d))
      /\ phase'[d] # "rejected"
  BY DEF Pushes
<1>10. DeviceInv(d)'
  BY <1>4, <1>7, <1>8, <1>9, LocalStep
<1> QED
  BY <1>3, <1>4, <1>10 DEF StepOK

\* The commands of the user: one that opens an item changes the editor only.
Opens(d) == \E i \in Items : OpenItem(d, i)

Saves(d) ==
  (\E i \in Items, c \in Contents : SaveItem(d, i, c)) \/ (\E i \in Items : RemoveItem(d, i))

LEMMA EditCases == \A d : Edits(d) <=> Opens(d) \/ Saves(d)
BY DEF Edits, Opens, Saves

LEMMA OpensQuietly ==
  ASSUME NEW d \in Devices, Opens(d)
  PROVE  UNCHANGED <<serverVars, deviceVars, countVars, committed>> /\ phase[d] = "idle"
BY DEF Opens, OpenItem

\* A save or a delete stages an op, and so does every conflicted copy.
LEMMA EditStages ==
  ASSUME SyncTypeOK, NEW d \in Devices, Saves(d)
  PROVE  \E op \in Op : Edit(d, op) /\ minted' \subseteq minted \cup Items \cup Contents
<1>1. \A i \in Items : replica[d][i] \in Stored /\ editor[d][i] \in Contents \cup {NoContent}
  BY DEF SyncTypeOK
<1>2. ASSUME NEW i \in Items, NEW c \in Contents, SaveItem(d, i, c)
      PROVE  \E op \in Op : Edit(d, op) /\ minted' \subseteq minted \cup Items \cup Contents
  <2> DEFINE op == [kind |-> "upsert", item |-> i, content |-> c,
                    revision |-> replica[d][i].revision + 1, seen |-> editor[d][i]]
  <2>1. replica[d][i].revision \in Nat /\ editor[d][i] \in Contents \cup {NoContent}
    BY <1>1, StoredFields
  <2>2. replica[d][i].revision + 1 \in Nat /\ replica[d][i].revision + 1 > 0
    BY <2>1
  <2>3. op \in Op
    BY <2>1, <2>2, UpsertOp
  <2>4. Edit(d, op) /\ minted' = minted \cup {i, c}
    BY <1>2 DEF SaveItem
  <2> HIDE DEF op
  <2> QED
    BY <2>3, <2>4
<1>3. ASSUME NEW i \in Items, RemoveItem(d, i)
      PROVE  \E op \in Op : Edit(d, op) /\ minted' \subseteq minted \cup Items \cup Contents
  <2> DEFINE op == [kind |-> "delete", item |-> i, content |-> NoContent,
                    revision |-> replica[d][i].revision, seen |-> editor[d][i]]
  <2>1. /\ replica[d][i].revision \in Nat /\ editor[d][i] \in Contents \cup {NoContent}
        /\ replica[d][i].revision > 0
    BY <1>1, <1>3, StoredFields DEF RemoveItem, Held
  <2>2. op \in Op
    BY <2>1, DeleteOp
  <2>3. Edit(d, op) /\ minted' = minted
    BY <1>3 DEF RemoveItem
  <2> HIDE DEF op
  <2> QED
    BY <2>2, <2>3
<1> QED
  BY <1>2, <1>3 DEF Saves

LEMMA CopyStages ==
  ASSUME SyncTypeOK, NEW d \in Devices, NEW op \in report[d], NEW i \in Items,
         StageCopy(d, op, i)
  PROVE  \E copy \in Op : Stage(d, copy)
<1>1. op \in Op /\ op.kind = "upsert"
  BY DEF SyncTypeOK, StageCopy
<1>2. [kind |-> "upsert", item |-> i, content |-> op.content,
       revision |-> 1, seen |-> NoContent] \in Op
  BY <1>1, OpFields, UpsertOp
<1> QED
  BY <1>2 DEF StageCopy

\* A cycle that ends, a rejected push, an item that is opened: nothing durable changes.
LEMMA PhaseStep ==
  ASSUME SyncInv, Record, NEW d \in Devices,
         PushRejected(d) \/ Finish(d) \/ Abandon(d) \/ Opens(d)
  PROVE  StepOK(d)
<1>1. DeviceInv(d) /\ ServerInv /\ SyncTypeOK
  BY DEF SyncInv
<1>2. UNCHANGED <<serverVars, replica, queue, last_seq, pulled>>
  BY OpensQuietly DEF PushRejected, Finish, Abandon, deviceVars
<1>3. /\ Pushes(d)' => Pushes(d)
      /\ phase'[d] = "rejected" => queue'[d] # <<>>
      /\ \A e \in Devices \ {d} : phase'[e] = phase[e]
  BY <1>1, OpensQuietly DEF PushRejected, Finish, Abandon, Fail, Pushing, Pushes, SyncTypeOK,
     deviceVars
<1>4. ServerMoves
  BY <1>1, <1>2, ServerQuiet
<1>5. Pending(d)' = Pending(d)
  BY <1>2 DEF Pending, Queued
<1>6. \A i \in Items : Settled(d, i)
  BY <1>2, <1>5 DEF Settled
<1>7. \A i \in Items : i \notin revived'[d] /\ DeleteLast(queue'[d], i)
        => Absent(replica'[d][i])
  BY <1>1, <1>2, Recorded DEF DeviceInv
<1>8. DeviceInv(d)'
  BY <1>2, <1>3, <1>4, <1>6, <1>7, LocalStep
<1> QED
  BY <1>2, <1>3, <1>4, <1>8 DEF StepOK, OthersKept

LEMMA EditStep ==
  ASSUME SyncInv, Record, NEW d \in Devices, Edits(d)
  PROVE  StepOK(d)
<1>1. CASE Opens(d)
  BY <1>1, PhaseStep
<1>2. CASE Saves(d)
  <2>1. PICK op \in Op : Edit(d, op)
    BY <1>2, EditStages DEF SyncInv
  <2> QED
    BY <2>1, StageStep DEF Edit, Pushes
<1> QED
  BY <1>1, <1>2, EditCases

LEMMA StageCopyStep ==
  ASSUME SyncInv, Record, NEW d \in Devices, NEW op \in report[d], NEW i \in Items,
         StageCopy(d, op, i)
  PROVE  StepOK(d)
<1>1. PICK copy \in Op : Stage(d, copy)
  BY CopyStages DEF SyncInv
<1> QED
  BY <1>1, StageStep DEF StageCopy, Pushes

\* The accepted revision is noted: the item is neither shown nor hidden by it.
LEMMA NoteStep ==
  ASSUME SyncTypeOK, NEW d \in Devices, Front(d).item \in Items,
         NEW r \in Nat, r > 0, NoteRevision(d, r) \/ UNCHANGED replica
  PROVE  /\ \A j \in Items \ {Front(d).item} : replica'[d][j] = replica[d][j]
         /\ \A j \in Items : Absent(replica[d][j]) => Absent(replica'[d][j])
         /\ \A e \in Devices \ {d} : replica'[e] = replica[e]
         /\ replica' \in [Devices -> [Items -> Stored]]
<1>1. replica \in [Devices -> [Items -> Stored]]
  BY DEF SyncTypeOK
<1>2. CASE UNCHANGED replica
  BY <1>1, <1>2
<1>3. CASE NoteRevision(d, r) /\ Held(d, Front(d).item)
  <2> DEFINE i == Front(d).item
             st == [replica[d][i] EXCEPT !.revision = r]
  <2>1. replica[d][i] \in Stored /\ replica[d][i].revision > 0
    BY <1>1, <1>3 DEF Held
  <2>2. st \in Stored /\ st.deleted = replica[d][i].deleted
    BY <2>1, Renumbered
  <2>3. replica' = [replica EXCEPT ![d][i] = st]
    BY <1>1, <1>3 DEF NoteRevision
  <2> HIDE DEF i, st
  <2>4. i \in Items
    BY DEF i
  <2>5. /\ replica' \in [Devices -> [Items -> Stored]]
        /\ replica'[d][i] = st
        /\ \A j \in Items \ {i} : replica'[d][j] = replica[d][j]
        /\ \A e \in Devices \ {d} : replica'[e] = replica[e]
    BY <1>1, <2>2, <2>3, <2>4
  <2>6. Absent(replica[d][i]) => Absent(replica'[d][i])
    BY <2>1, <2>2, <2>5 DEF Absent
  <2> QED
    BY <2>5, <2>6 DEF i
<1>4. CASE NoteRevision(d, r) /\ ~Held(d, Front(d).item)
  BY <1>1, <1>4 DEF NoteRevision
<1> QED
  BY <1>2, <1>3, <1>4

\* The front of the queue is gone.
LEMMA PopStep ==
  ASSUME SyncTypeOK, NEW d \in Devices, queue[d] # <<>>
  PROVE  /\ Front(d) \in Op /\ Front(d).item \in Items
         /\ Front(d).item \in Pending(d)
         /\ Pop(d) =>
              /\ queue'[d] = Tail(queue[d])
              /\ Pending(d) = Pending(d)' \cup {Front(d).item}
              /\ \A i : DeleteLast(queue'[d], i) => DeleteLast(queue[d], i)
              /\ Front(d).kind = "delete" /\ Front(d).item \notin Pending(d)'
                   => DeleteLast(queue[d], Front(d).item)
              /\ \A e \in Devices \ {d} : queue'[e] = queue[e]
<1>1. queue \in [Devices -> Seq(Op)] /\ queue[d] \in Seq(Op)
  BY DEF SyncTypeOK
<1>2. /\ Head(queue[d]) \in Op /\ Head(queue[d]).item \in ItemsOf(queue[d])
      /\ ItemsOf(queue[d]) = ItemsOf(Tail(queue[d])) \cup {Head(queue[d]).item}
      /\ \A i : DeleteLast(Tail(queue[d]), i) => DeleteLast(queue[d], i)
      /\ Head(queue[d]).kind = "delete" /\ Head(queue[d]).item \notin ItemsOf(Tail(queue[d]))
           => DeleteLast(queue[d], Head(queue[d]).item)
  BY <1>1, Popped
<1>3. Head(queue[d]).item \in Items
  BY <1>2, OpFields
<1>4. Pop(d) => queue'[d] = Tail(queue[d]) /\ \A e \in Devices \ {d} : queue'[e] = queue[e]
  BY <1>1 DEF Pop
<1>5. Pending(d) = ItemsOf(queue[d]) /\ Pending(d)' = ItemsOf(queue'[d])
  BY DEF Pending, Queued, ItemsOf
<1> QED
  BY <1>2, <1>3, <1>4, <1>5 DEF Front

LEMMA AcceptedStep ==
  ASSUME SyncInv, Record, ServerMoves, NEW d \in Devices, Pushing(d),
         NEW r \in Nat, r > 0, Accepted(d, r), UNCHANGED <<last_seq, pulled>>,
         \/ rows'[Front(d).item].seq > sync_seq
         \/ Front(d).kind = "delete" /\ rows'[Front(d).item].deleted
  PROVE  StepOK(d)
<1> DEFINE f == Front(d).item
<1>1. DeviceInv(d) /\ ServerInv /\ SyncTypeOK /\ queue[d] # <<>> /\ phase[d] = "push"
  BY DEF SyncInv, Pushing
<1>2. f \in Items /\ f \in Pending(d)
  BY <1>1, PopStep
<1>3. NoteRevision(d, r) \/ UNCHANGED replica
  BY DEF Accepted
<1>4. /\ \A j \in Items \ {f} : replica'[d][j] = replica[d][j]
      /\ \A j \in Items : Absent(replica[d][j]) => Absent(replica'[d][j])
      /\ \A e \in Devices \ {d} : replica'[e] = replica[e]
  BY <1>1, <1>2, <1>3, NoteStep
<1>5. (Pop(d) /\ UNCHANGED phase) \/ (UNCHANGED queue /\ Fail(d))
  BY DEF Accepted
<1>6. /\ \A e \in Devices \ {d} : queue'[e] = queue[e] /\ phase'[e] = phase[e]
      /\ Pushes(d)' => Pushes(d)
      /\ phase'[d] # "rejected"
  <2>1. CASE Pop(d) /\ UNCHANGED phase
    BY <1>1, <2>1, PopStep DEF Pushes
  <2>2. CASE UNCHANGED queue /\ Fail(d)
    BY <1>1, <2>2 DEF Fail, Pushes, SyncTypeOK
  <2> QED
    BY <1>5, <2>1, <2>2
<1>7. /\ \A i \in Items \ {f} : i \in Pending(d) => i \in Pending(d)'
      /\ \A i : DeleteLast(queue'[d], i) => DeleteLast(queue[d], i)
      /\ f \in Pending(d)' \/ (Front(d).kind = "delete" => DeleteLast(queue[d], f))
  <2>1. CASE Pop(d)
    BY <1>1, <2>1, PopStep
  <2>2. CASE UNCHANGED queue
    BY <1>2, <2>2 DEF Pending, Queued
  <2> QED
    BY <1>5, <2>1, <2>2
<1> HIDE DEF f
<1>8. ASSUME NEW i \in Items, i \notin revived'[d] PROVE Settled(d, i)
  <2>1. CASE i # f
    BY <1>4, <1>7, <2>1 DEF Settled
  <2>2. CASE i = f /\ rows'[f].seq > sync_seq
    BY <2>2 DEF Settled
  <2>3. CASE i = f /\ f \in Pending(d)'
    BY <2>3 DEF Settled
  <2>4. CASE i = f /\ f \notin Pending(d)' /\ Front(d).kind = "delete" /\ rows'[f].deleted
    <3>1. Absent(replica[d][f])
      BY <1>1, <1>2, <1>7, <1>8, <2>4, Recorded DEF DeviceInv
    <3>2. Agree(replica'[d][f], rows'[f])
      BY <1>2, <1>4, <2>4, <3>1 DEF Agree
    <3> QED
      BY <2>4, <3>2 DEF Settled
  <2> QED
    BY <2>1, <2>2, <2>3, <2>4 DEF f
<1>9. ASSUME NEW i \in Items, i \notin revived'[d], DeleteLast(queue'[d], i)
      PROVE  Absent(replica'[d][i])
  BY <1>1, <1>4, <1>7, <1>9, Recorded DEF DeviceInv
<1>10. DeviceInv(d)'
  BY <1>6, <1>8, <1>9, LocalStep
<1> QED
  BY <1>4, <1>6, <1>10 DEF StepOK, OthersKept

LEMMA PushStep ==
  ASSUME SyncInv, Record, NEW d \in Devices,
         PushUpsert(d) \/ PushDelete(d) \/ PushDeleteAgain(d)
  PROVE  StepOK(d)
<1>1. ServerInv /\ SyncTypeOK /\ Pushing(d) /\ queue[d] # <<>>
  BY DEF SyncInv, PushUpsert, PushDelete, PushDeleteAgain, Pushing
<1>2. Front(d) \in Op /\ Front(d).item \in Items
  BY <1>1, PopStep
<1>3. /\ Front(d).revision \in Nat /\ Front(d).revision > 0
      /\ Front(d).kind = "upsert" => Front(d).content \in Contents
  BY <1>2, OpFields
<1>4. CASE PushUpsert(d)
  <2>1. PutItem(Front(d).item, Front(d).revision, Front(d).content)
        /\ Front(d).content \in Contents
    BY <1>3, <1>4 DEF PushUpsert
  <2>2. ServerMoves /\ rows'[Front(d).item].seq > sync_seq
    BY <1>1, <1>2, <1>3, <2>1, PutMoves
  <2> QED
    BY <1>1, <1>3, <1>4, <2>2, AcceptedStep DEF PushUpsert
<1>5. CASE PushDelete(d)
  <2>1. ServerMoves /\ rows'[Front(d).item].seq > sync_seq
    BY <1>1, <1>2, <1>5, DeleteMoves DEF PushDelete
  <2>2. Front(d).revision + 1 \in Nat /\ Front(d).revision + 1 > 0
    BY <1>3
  <2> QED
    BY <1>1, <1>5, <2>1, <2>2, AcceptedStep DEF PushDelete
<1>6. CASE PushDeleteAgain(d)
  <2>1. ServerMoves /\ rows'[Front(d).item].deleted /\ Front(d).kind = "delete"
    BY <1>1, <1>6, ServerQuiet DEF PushDeleteAgain, serverVars
  <2>2. rows[Front(d).item].revision \in Nat /\ rows[Front(d).item].revision > 0
    BY <1>1, <1>2, <1>6, WrittenRow, RowsTyped DEF PushDeleteAgain, Row, NoRow
  <2> QED
    BY <1>1, <1>6, <2>1, <2>2, AcceptedStep DEF PushDeleteAgain
<1> QED
  BY <1>4, <1>5, <1>6

\* The server wins: the device shows the row, or a tombstone when there is none.
LEMMA AdoptStep ==
  ASSUME SyncTypeOK, ServerInv, NEW d \in Devices, ServerWins(d), Front(d).item \in Items
  PROVE  /\ \A j \in Items \ {Front(d).item} : replica'[d][j] = replica[d][j]
         /\ \A e \in Devices \ {d} : replica'[e] = replica[e]
         /\ Agree(replica'[d][Front(d).item], rows[Front(d).item])
         /\ replica' \in [Devices -> [Items -> Stored]]
<1> DEFINE i == Front(d).item
<1>1. replica \in [Devices -> [Items -> Stored]]
  BY DEF SyncTypeOK
<1>2. CASE Exists(i)
  <2> DEFINE st == FromRow(rows[i])
  <2>1. replica' = [replica EXCEPT ![d][i] = st]
    BY <1>2 DEF ServerWins
  <2>2. st \in Stored /\ st.deleted = rows[i].deleted
    BY RowsTyped, RowStored
  <2>3. Agree(st, rows[i])
    BY <1>2, <2>2 DEF Agree, Absent, Exists
  <2> HIDE DEF st
  <2> QED
    BY <1>1, <2>1, <2>2, <2>3
<1>3. CASE ~Exists(i) /\ Held(d, i)
  <2> DEFINE st == [revision |-> replica[d][i].revision, deleted |-> TRUE,
                    content |-> NoContent]
  <2>1. replica' = [replica EXCEPT ![d][i] = st]
    BY <1>3 DEF ServerWins
  <2>2. replica[d][i].revision \in Nat \ {0}
    BY <1>1, <1>3, StoredFields DEF Held
  <2>3. st \in Stored
    BY <2>2 DEF Stored
  <2>4. Agree(st, rows[i])
    BY <1>3 DEF Agree, Absent, Exists
  <2> HIDE DEF st
  <2> QED
    BY <1>1, <2>1, <2>3, <2>4
<1>4. CASE ~Exists(i) /\ ~Held(d, i)
  <2>1. replica' = replica
    BY <1>4 DEF ServerWins
  <2>2. Agree(replica[d][i], rows[i])
    BY <1>4 DEF Agree, Absent, Exists, Held
  <2> QED
    BY <1>1, <2>1, <2>2
<1> QED
  BY <1>2, <1>3, <1>4

LEMMA ConflictStep ==
  ASSUME SyncInv, Record, NEW d \in Devices, MergeConflict(d) \/ PushNotFound(d)
  PROVE  StepOK(d)
<1> DEFINE f == Front(d).item
<1>1. /\ DeviceInv(d) /\ ServerInv /\ SyncTypeOK /\ queue[d] # <<>> /\ ServerWins(d)
      /\ phase[d] \in {"push", "rejected"}
      /\ phase[d] = "rejected" \/ ~Exists(f)
  BY DEF SyncInv, MergeConflict, PushNotFound, Pushing, DeviceInv
<1>2. f \in Items /\ f \in Pending(d)
  BY <1>1, PopStep
<1>3. UNCHANGED <<serverVars, last_seq, pulled>>
  BY <1>1 DEF ServerWins
<1>4. ServerMoves /\ rows' = rows
  BY <1>1, <1>3, ServerQuiet
<1>5. /\ \A j \in Items \ {f} : replica'[d][j] = replica[d][j]
      /\ \A e \in Devices \ {d} : replica'[e] = replica[e]
      /\ Agree(replica'[d][f], rows[f])
  BY <1>1, <1>2, AdoptStep
<1>6. (Pop(d) /\ phase' = [phase EXCEPT ![d] = "push"]) \/ (UNCHANGED queue /\ Fail(d))
  BY <1>1 DEF ServerWins
<1>7. /\ \A e \in Devices \ {d} : queue'[e] = queue[e] /\ phase'[e] = phase[e]
      /\ Pushes(d)' => Pushes(d)
      /\ phase'[d] # "rejected"
  <2>1. CASE Pop(d) /\ phase' = [phase EXCEPT ![d] = "push"]
    BY <1>1, <2>1, PopStep DEF Pushes, SyncTypeOK
  <2>2. CASE UNCHANGED queue /\ Fail(d)
    BY <1>1, <2>2 DEF Fail, Pushes, SyncTypeOK
  <2> QED
    BY <1>6, <2>1, <2>2
<1>8. /\ \A i \in Items \ {f} : i \in Pending(d) => i \in Pending(d)'
      /\ \A i : DeleteLast(queue'[d], i) => DeleteLast(queue[d], i)
  <2>1. CASE Pop(d)
    BY <1>1, <2>1, PopStep
  <2>2. CASE UNCHANGED queue
    BY <2>2 DEF Pending, Queued
  <2> QED
    BY <1>6, <2>1, <2>2
<1> HIDE DEF f
<1>9. \A i \in Items : Settled(d, i)
  BY <1>4, <1>5, <1>8 DEF Settled
<1>10. ASSUME NEW i \in Items, i \notin revived'[d], DeleteLast(queue'[d], i)
       PROVE  Absent(replica'[d][i])
  <2>1. Absent(replica[d][i])
    BY <1>1, <1>8, <1>10, Recorded DEF DeviceInv
  <2>2. CASE replica'[d][i] = replica[d][i]
    BY <2>1, <2>2
  <2>3. CASE replica'[d][i] # replica[d][i]
    <3>1. DeleteQueued(queue'[d], i)
      BY <1>10 DEF DeleteLast, DeleteQueued
    <3>2. i = f /\ ~Exists(f)
      BY <1>1, <1>5, <1>10, <2>3, <3>1, Recorded
    <3> QED
      BY <1>5, <3>2 DEF Agree, Exists
  <2> QED
    BY <2>2, <2>3
<1>11. DeviceInv(d)'
  BY <1>3, <1>4, <1>7, <1>9, <1>10, LocalStep
<1> QED
  BY <1>3, <1>4, <1>5, <1>7, <1>11 DEF StepOK, OthersKept

LEMMA RowAgrees ==
  ASSUME NEW row \in Row
  PROVE  Agree(FromRow(row), row)
BY RowStored, RowFields DEF Agree, Absent

\* What a listing that was applied up to some sequence number leaves.
LEMMA PulledRows ==
  ASSUME SyncTypeOK, ServerMoves, NEW d \in Devices, NEW upto, PullInto(d, upto)
  PROVE  /\ \A i \in Items :
              IF /\ i \in Listed(rows', purged_before_seq', last_seq[d])
                 /\ i \notin Pending(d) /\ rows'[i].seq <= upto
                THEN replica'[d][i] = FromRow(rows'[i])
                ELSE replica'[d][i] = IF FullResync(purged_before_seq', last_seq[d])
                                        THEN NoStored ELSE replica[d][i]
         /\ \A e \in Devices \ {d} : replica'[e] = replica[e]
         /\ replica' \in [Devices -> [Items -> Stored]]
<1> DEFINE resync == FullResync(purged_before_seq', last_seq[d])
           ids == Listed(rows', purged_before_seq', last_seq[d]) \ Pending(d)
           base == IF resync THEN [i \in Items |-> NoStored] ELSE replica[d]
           new == Overlay(base, rows', UpTo(rows', ids, upto))
<1>1. replica \in [Devices -> [Items -> Stored]] /\ \A i \in Items : rows'[i] \in Row
  BY DEF SyncTypeOK, ServerMoves, ServerInv, TypeOK
<1>2. replica' = [replica EXCEPT ![d] = new]
  BY DEF PullInto
<1>3. new = [i \in Items |-> IF i \in ids /\ rows'[i].seq <= upto
                               THEN FromRow(rows'[i]) ELSE base[i]]
  BY DEF Overlay, UpTo
<1>4. \A i \in Items : base[i] = IF resync THEN NoStored ELSE replica[d][i]
  OBVIOUS
<1>5. ASSUME NEW i \in Items PROVE base[i] \in Stored /\ FromRow(rows'[i]) \in Stored
  <2>1. NoStored \in Stored /\ replica[d][i] \in Stored
    BY <1>1 DEF Stored
  <2> QED
    BY <1>1, <1>4, <2>1, RowStored
<1> HIDE DEF base
<1>6. new \in [Items -> Stored]
  BY <1>3, <1>5
<1> HIDE DEF new
<1>7. replica'[d] = new /\ replica' \in [Devices -> [Items -> Stored]]
      /\ \A e \in Devices \ {d} : replica'[e] = replica[e]
  BY <1>1, <1>2, <1>6
<1> QED
  BY <1>3, <1>4, <1>7

\* An item with a delete as its last op is pending: a pull does not touch it,
\* unless it empties the replica.
LEMMA PullHidesDeleted ==
  ASSUME SyncInv, ServerMoves, Record, NEW d \in Devices, NEW upto, PullInto(d, upto),
         UNCHANGED queue, NEW i \in Items, i \notin revived'[d], DeleteLast(queue'[d], i)
  PROVE  Absent(replica'[d][i])
<1>1. DeviceInv(d) /\ SyncTypeOK
  BY DEF SyncInv
<1>2. Absent(replica[d][i]) /\ i \in Pending(d)
  BY <1>1, Recorded DEF DeviceInv, DeleteLast, Pending, Queued
<1>3. replica'[d][i] = IF FullResync(purged_before_seq', last_seq[d])
                         THEN NoStored ELSE replica[d][i]
  BY <1>1, <1>2, PulledRows
<1> QED
  BY <1>2, <1>3 DEF Absent, NoStored

LEMMA PullStep ==
  ASSUME SyncInv, Record, NEW d \in Devices, Pull(d)
  PROVE  StepOK(d)
<1>1. DeviceInv(d) /\ ServerInv /\ SyncTypeOK
  BY DEF SyncInv
<1>2. ServerMoves /\ sync_seq' = sync_seq
  BY <1>1, PurgeMoves DEF Pull
<1>3. /\ last_seq'[d] = last_seq[d] /\ pulled'[d] = sync_seq /\ phase'[d] = "push"
      /\ last_seq[d] <= sync_seq /\ queue' = queue /\ PullInto(d, sync_seq)
      /\ \A e \in Devices \ {d} : /\ last_seq'[e] = last_seq[e] /\ phase'[e] = phase[e]
                                  /\ pulled'[e] = pulled[e]
  BY <1>1 DEF Pull, SyncTypeOK
<1>4. \A e \in Devices \ {d} : replica'[e] = replica[e]
  BY <1>1, <1>2, <1>3, PulledRows
<1>5. Pending(d)' = Pending(d)
  BY <1>3 DEF Pending, Queued
<1>6. sync_seq \in Nat /\ last_seq[d] \in Nat
  BY <1>1, DeviceTyped DEF ServerInv, TypeOK
<1>7. ASSUME NEW i \in Items, i \notin revived'[d], i \notin orphaned'[d], i \notin Pending(d)
      PROVE  Agree(replica'[d][i], rows'[i])
  <2>1. rows'[i] \in Row /\ rows'[i].seq <= sync_seq
    BY <1>2 DEF ServerMoves, ServerInv, TypeOK, TableShape
  <2>2. CASE i \in Listed(rows', purged_before_seq', last_seq[d])
    BY <1>1, <1>2, <1>3, <1>7, <2>1, <2>2, PulledRows, RowAgrees
  <2>3. CASE /\ i \notin Listed(rows', purged_before_seq', last_seq[d])
             /\ FullResync(purged_before_seq', last_seq[d])
    <3>1. replica'[d][i] = NoStored
      BY <1>1, <1>2, <1>3, <2>3, PulledRows
    <3>2. ~(rows'[i].revision > 0 /\ ~rows'[i].deleted)
      BY <2>3 DEF Listed
    <3> QED
      BY <3>1, <3>2 DEF Agree, Absent, NoStored
  <2>4. CASE /\ i \notin Listed(rows', purged_before_seq', last_seq[d])
             /\ ~FullResync(purged_before_seq', last_seq[d])
    <3>1. replica'[d][i] = replica[d][i]
      BY <1>1, <1>2, <1>3, <2>4, PulledRows
    <3>2. ~(rows'[i].seq > last_seq[d])
      BY <2>4 DEF Listed
    <3>3. Covered(d, i, last_seq[d])
      BY <1>1, <1>7, Recorded DEF DeviceInv
    <3>4. Sound(replica[d][i], rows'[i], purged_before_seq', last_seq[d])
      BY <1>1, <1>2, <1>3, <1>6, <1>7, <3>3, ServerKeepsSound
    <3> QED
      BY <2>4, <3>1, <3>2, <3>4 DEF Sound
  <2> QED
    BY <2>2, <2>3, <2>4
<1>8. \A i \in Items : i \notin revived'[d] /\ DeleteLast(queue'[d], i)
        => Absent(replica'[d][i])
  BY <1>2, <1>3, PullHidesDeleted
<1>9. \A i \in Items \ (revived'[d] \cup orphaned'[d]) :
        Covered(d, i, last_seq[d])' /\ Covered(d, i, pulled[d])'
  BY <1>5, <1>7 DEF Covered, Sound
<1>10. DeviceInv(d)'
  BY <1>2, <1>3, <1>6, <1>8, <1>9 DEF DeviceInv
<1> QED
  BY <1>2, <1>3, <1>4, <1>10 DEF StepOK, OthersKept

LEMMA PullCutStep ==
  ASSUME SyncInv, Record, NEW d \in Devices, PullCut(d)
  PROVE  StepOK(d)
<1>1. DeviceInv(d) /\ ServerInv /\ SyncTypeOK
  BY DEF SyncInv
<1>2. ServerMoves
  BY <1>1, PurgeMoves DEF PullCut
<1>3. /\ UNCHANGED <<queue, last_seq, pulled>> /\ phase'[d] = "idle"
      /\ \A e \in Devices \ {d} : phase'[e] = phase[e]
  BY <1>1 DEF PullCut, Fail, SyncTypeOK
<1>4. Pending(d)' = Pending(d) /\ ~Pushes(d)'
  BY <1>3 DEF Pending, Queued, Pushes
<1>5. CASE UNCHANGED replica
  <2>1. \A i \in Items : Settled(d, i)
    BY <1>4, <1>5 DEF Settled
  <2>2. \A i \in Items : i \notin revived'[d] /\ DeleteLast(queue'[d], i)
          => Absent(replica'[d][i])
    BY <1>1, <1>3, <1>5, Recorded DEF DeviceInv
  <2>3. DeviceInv(d)'
    BY <1>2, <1>3, <1>4, <2>1, <2>2, LocalStep
  <2> QED
    BY <1>2, <1>3, <1>5, <2>3 DEF StepOK, OthersKept
<1>6. ASSUME NEW upto \in 0..sync_seq, PullInto(d, upto) PROVE StepOK(d)
  <2>1. \A e \in Devices \ {d} : replica'[e] = replica[e]
    BY <1>1, <1>2, <1>6, PulledRows
  <2>2. ASSUME NEW i \in Items PROVE Settled(d, i)
    <3>1. rows'[i] \in Row
      BY <1>2 DEF ServerMoves, ServerInv, TypeOK
    <3>2. \/ replica'[d][i] = FromRow(rows'[i])
          \/ FullResync(purged_before_seq', last_seq[d])
          \/ replica'[d][i] = replica[d][i]
      BY <1>1, <1>2, <1>6, PulledRows
    <3> QED
      BY <1>4, <3>1, <3>2, RowAgrees DEF Settled
  <2>3. \A i \in Items : i \notin revived'[d] /\ DeleteLast(queue'[d], i)
          => Absent(replica'[d][i])
    BY <1>2, <1>3, <1>6, PullHidesDeleted
  <2>4. DeviceInv(d)'
    BY <1>2, <1>3, <1>4, <2>2, <2>3, LocalStep
  <2> QED
    BY <1>2, <1>3, <2>1, <2>4 DEF StepOK, OthersKept
<1> QED
  BY <1>5, <1>6 DEF PullCut

\* What the second pull leaves, applied up to some sequence number or to the end.
LEMMA TailRows ==
  ASSUME SyncTypeOK, ServerMoves, NEW d \in Devices, NEW ids,
         replica' = [replica EXCEPT ![d] = Overlay(@, rows', ids)]
  PROVE  /\ \A i \in Items : replica'[d][i] = IF i \in ids THEN FromRow(rows'[i])
                                              ELSE replica[d][i]
         /\ \A e \in Devices \ {d} : replica'[e] = replica[e]
         /\ replica' \in [Devices -> [Items -> Stored]]
<1> DEFINE new == Overlay(replica[d], rows', ids)
<1>1. replica \in [Devices -> [Items -> Stored]] /\ \A i \in Items : rows'[i] \in Row
  BY DEF SyncTypeOK, ServerMoves, ServerInv, TypeOK
<1>2. \A i \in Items : replica[d][i] \in Stored /\ FromRow(rows'[i]) \in Stored
  BY <1>1, RowStored
<1>3. new = [i \in Items |-> IF i \in ids THEN FromRow(rows'[i]) ELSE replica[d][i]]
  BY DEF Overlay
<1>4. new \in [Items -> Stored]
  BY <1>2, <1>3
<1>5. replica' = [replica EXCEPT ![d] = new]
  OBVIOUS
<1> HIDE DEF new
<1> QED
  BY <1>1, <1>3, <1>4, <1>5

LEMMA TailCutStep ==
  ASSUME SyncInv, Record, NEW d \in Devices, TailCut(d)
  PROVE  StepOK(d)
<1>1. DeviceInv(d) /\ ServerInv /\ SyncTypeOK
  BY DEF SyncInv
<1>2. ServerMoves
  BY <1>1, PurgeMoves DEF TailCut, TailPull
<1>3. /\ UNCHANGED <<queue, last_seq, pulled>> /\ phase'[d] = "idle"
      /\ \A e \in Devices \ {d} : phase'[e] = phase[e]
  BY <1>1 DEF TailCut, Fail, SyncTypeOK
<1>4. Pending(d)' = Pending(d) /\ ~Pushes(d)'
  BY <1>3 DEF Pending, Queued, Pushes
<1>5. PICK upto \in 0..sync_seq :
        replica' = [replica EXCEPT ![d] =
                      Overlay(@, rows', UpTo(rows', TailListed(d), upto))]
  BY DEF TailCut
<1>6. /\ \A i \in Items : replica'[d][i] \in {FromRow(rows'[i]), replica[d][i]}
      /\ \A e \in Devices \ {d} : replica'[e] = replica[e]
  BY <1>1, <1>2, <1>5, TailRows
<1>7. \A i \in Items : Agree(FromRow(rows'[i]), rows'[i])
  BY <1>2, RowAgrees DEF ServerMoves, ServerInv, TypeOK
<1>8. \A i \in Items : Settled(d, i)
  BY <1>4, <1>6, <1>7 DEF Settled
<1>9. queue'[d] = <<>>
  BY <1>3 DEF TailCut, TailPull
<1>10. \A i \in Items : ~DeleteLast(queue'[d], i)
  BY <1>9 DEF DeleteLast
<1>11. DeviceInv(d)'
  BY <1>2, <1>3, <1>4, <1>8, <1>10, LocalStep
<1> QED
  BY <1>2, <1>3, <1>6, <1>11 DEF StepOK, OthersKept

LEMMA AdvanceStep ==
  ASSUME SyncInv, Record, NEW d \in Devices, AdvanceCursor(d)
  PROVE  StepOK(d)
<1>1. DeviceInv(d) /\ ServerInv /\ SyncTypeOK
  BY DEF SyncInv
<1>2. ServerMoves /\ sync_seq' = sync_seq
  BY <1>1, PurgeMoves DEF AdvanceCursor, TailPull
<1>3. /\ queue' = queue /\ queue[d] = <<>> /\ pulled' = pulled
      /\ phase[d] = "push" /\ phase'[d] = "done"
      /\ last_seq'[d] = IF TailResync(d) THEN pulled[d] ELSE sync_seq
      /\ \A e \in Devices \ {d} : last_seq'[e] = last_seq[e] /\ phase'[e] = phase[e]
  BY <1>1, <1>2 DEF AdvanceCursor, TailPull, SyncTypeOK
<1>4. Pending(d) = {} /\ \A i \in Items : ~DeleteLast(queue'[d], i)
  BY <1>3 DEF Pending, Queued, DeleteLast
<1>5. /\ last_seq[d] \in Nat /\ pulled[d] \in Nat /\ sync_seq \in Nat
      /\ last_seq[d] <= pulled[d] /\ pulled[d] <= sync_seq
  BY <1>1, <1>3, DeviceTyped DEF DeviceInv, Pushes, ServerInv, TypeOK
<1>6. /\ \A e \in Devices \ {d} : replica'[e] = replica[e]
      /\ TailResync(d) => replica' = replica
      /\ ~TailResync(d) =>
           \A i \in Items : replica'[d][i] =
             IF i \in TailListed(d) THEN FromRow(rows'[i]) ELSE replica[d][i]
  <2>1. CASE TailResync(d)
    BY <2>1 DEF AdvanceCursor
  <2>2. CASE ~TailResync(d)
    <3>1. replica' = [replica EXCEPT ![d] = Overlay(@, rows', TailListed(d))]
      BY <2>2 DEF AdvanceCursor
    <3> QED
      BY <1>1, <1>2, <2>2, <3>1, TailRows
  <2> QED
    BY <2>1, <2>2
<1>7. ASSUME NEW i \in Items, i \notin revived'[d], i \notin orphaned'[d]
      PROVE  Covered(d, i, last_seq[d])'
  <2>1. Covered(d, i, pulled[d])
    BY <1>1, <1>3, <1>7, Recorded DEF DeviceInv, Pushes
  <2>2. pulled[d] = 0 => last_seq[d] = 0
    BY <1>5
  <2>3. Sound(replica[d][i], rows'[i], purged_before_seq', pulled[d])
    BY <1>1, <1>2, <1>4, <1>5, <1>7, <2>1, <2>2, ServerKeepsSound
  <2>4. CASE TailResync(d)
    BY <1>3, <1>6, <2>3, <2>4 DEF Covered
  <2>5. CASE ~TailResync(d) /\ i \in TailListed(d)
    <3>1. Agree(FromRow(rows'[i]), rows'[i])
      BY <1>2, RowAgrees DEF ServerMoves, ServerInv, TypeOK
    <3> QED
      BY <1>6, <2>5, <3>1 DEF Covered, Sound
  <2>6. CASE ~TailResync(d) /\ i \notin TailListed(d)
    <3>1. ~FullResync(purged_before_seq', pulled[d]) /\ ~(rows'[i].seq > pulled[d])
      BY <2>6 DEF TailResync, TailListed, Listed
    <3>2. Agree(replica'[d][i], rows'[i])
      BY <1>6, <2>3, <2>6, <3>1 DEF Sound
    <3> QED
      BY <3>2 DEF Covered, Sound
  <2> QED
    BY <2>4, <2>5, <2>6
<1>8. DeviceInv(d)'
  BY <1>2, <1>3, <1>4, <1>5, <1>7 DEF DeviceInv, Pushes
<1> QED
  BY <1>2, <1>3, <1>6, <1>8 DEF StepOK, OthersKept

LEMMA DeviceSteps ==
  ASSUME SyncInv, Record, NEW d \in Devices, Edits(d) \/ SyncStep(d) \/ Failures(d)
  PROVE  StepOK(d)
BY EditStep, StageCopyStep, PhaseStep, PushStep, ConflictStep, PullStep, PullCutStep,
   TailCutStep, AdvanceStep DEF SyncStep, Failures

-----------------------------------------------------------------------------
(* Types. *)

DurableTypes ==
  /\ replica \in [Devices -> [Items -> Stored]]
  /\ queue \in [Devices -> Seq(Op)]
  /\ last_seq \in [Devices -> Nat]
  /\ pulled \in [Devices -> Nat]

MemoryTypes ==
  /\ phase \in [Devices -> {"idle", "push", "rejected", "done"}]
  /\ report \in [Devices -> SUBSET Op]
  /\ failures \in 0..MaxFailures

CountTypes ==
  /\ minted \subseteq Items \cup Contents
  /\ edits \in 0..MaxEdits
  /\ committed \subseteq Items \X Contents

HistoryTypes ==
  /\ stacked \in [Devices -> SUBSET Items]
  /\ revived \in [Devices -> SUBSET Items]
  /\ purged \subseteq Items
  /\ orphaned \in [Devices -> SUBSET Items]

EditorTypes == editor \in [Devices -> [Items -> Contents \cup {NoContent}]]

LEMMA TypeParts ==
  SyncTypeOK <=> /\ TypeOK /\ DurableTypes /\ MemoryTypes /\ CountTypes /\ HistoryTypes
                 /\ EditorTypes
BY DEF SyncTypeOK, DurableTypes, MemoryTypes, CountTypes, HistoryTypes, EditorTypes

StepTypes == DurableTypes' /\ MemoryTypes' /\ CountTypes'

LEMMA RecordTypes ==
  ASSUME SyncTypeOK, Record
  PROVE  HistoryTypes'
<1>1. \A d \in Devices : stacked[d] \subseteq Items /\ revived[d] \subseteq Items
        /\ orphaned[d] \subseteq Items /\ Pending(d) \subseteq Items
  <2>1. ASSUME NEW d \in Devices, NEW op \in Queued(d) PROVE op.item \in Items
    <3>1. op \in Op
      BY <2>1 DEF Queued, SyncTypeOK
    <3> QED
      BY <3>1, OpFields
  <2> QED
    BY <2>1 DEF SyncTypeOK, Pending
<1>2. stacked' \in [Devices -> SUBSET Items]
  BY <1>1 DEF Record
<1>3. revived' \in [Devices -> SUBSET Items]
  BY <1>1 DEF Record
<1>4. purged' \subseteq Items
  BY DEF Record, SyncTypeOK
<1>5. orphaned' \in [Devices -> SUBSET Items]
  <2> DEFINE leaving == {i \in Items : Exists(i) /\ rows'[i] = NoRow}
  <2>1. orphaned' = [d \in Devices |->
          IF last_seq[d] > 0 THEN orphaned[d]
          ELSE orphaned[d] \cup {i \in leaving : Held(d, i)}]
    BY DEF Record
  <2>2. leaving \subseteq Items
    OBVIOUS
  <2> HIDE DEF leaving
  <2> QED
    BY <1>1, <2>1, <2>2
<1> QED
  BY <1>2, <1>3, <1>4, <1>5 DEF HistoryTypes

\* A step of a device: only the user's commands touch the editor.
Runs(d) == Edits(d) \/ ((SyncStep(d) \/ Failures(d)) /\ UNCHANGED editor)

LEMMA EditorStep ==
  ASSUME SyncTypeOK, NEW d \in Devices, Edits(d) \/ UNCHANGED editor
  PROVE  EditorTypes'
<1>1. /\ replica[d] \in [Items -> Stored] /\ Closed \in [Items -> Contents \cup {NoContent}]
      /\ editor \in [Devices -> [Items -> Contents \cup {NoContent}]]
  BY DEF SyncTypeOK, Closed
<1>2. ASSUME NEW i \in Items, OpenItem(d, i) PROVE EditorTypes'
  <2>1. replica[d][i].content \in Contents \cup {NoContent}
    BY <1>1, StoredFields
  <2>2. [Closed EXCEPT ![i] = replica[d][i].content] \in [Items -> Contents \cup {NoContent}]
    BY <1>1, <2>1
  <2> QED
    BY <1>1, <1>2, <2>2 DEF OpenItem, EditorTypes
<1>3. ASSUME NEW op, Edit(d, op) PROVE EditorTypes'
  BY <1>1, <1>3 DEF Edit, EditorTypes
<1>4. CASE UNCHANGED editor
  BY <1>1, <1>4 DEF EditorTypes
<1> QED
  BY <1>2, <1>3, <1>4 DEF Edits, SaveItem, RemoveItem

LEMMA FailTypes ==
  ASSUME MemoryTypes, NEW d \in Devices, Fail(d)
  PROVE  MemoryTypes'
BY SyncEngineAssumption DEF MemoryTypes, Fail

LEMMA StageTypes ==
  ASSUME DurableTypes, NEW d \in Devices, NEW op \in Op, Stage(d, op),
         UNCHANGED <<last_seq, pulled>>
  PROVE  DurableTypes'
<1>1. op.item \in Items /\ Mirror(op) \in Stored
  BY OpFields, MirrorStored
<1>2. queue[d] \in Seq(Op)
  BY DEF DurableTypes
<1>3. Append(queue[d], op) \in Seq(Op)
  BY <1>2, Appended
<1>4. replica' = [replica EXCEPT ![d][op.item] = Mirror(op)]
      /\ queue' = [queue EXCEPT ![d] = Append(queue[d], op)]
  BY DEF Stage
<1>5. replica' \in [Devices -> [Items -> Stored]]
  BY <1>1, <1>4 DEF DurableTypes
<1>6. queue' \in [Devices -> Seq(Op)]
  BY <1>3, <1>4 DEF DurableTypes
<1> QED
  BY <1>5, <1>6 DEF DurableTypes

LEMMA EditTypes ==
  ASSUME SyncTypeOK, NEW d \in Devices, Edits(d)
  PROVE  StepTypes
<1>1. DurableTypes /\ MemoryTypes /\ CountTypes
  BY TypeParts
<1>2. CASE Opens(d)
  BY <1>1, <1>2, OpensQuietly DEF deviceVars, countVars, DurableTypes, MemoryTypes, CountTypes,
     StepTypes
<1>3. CASE Saves(d)
  <2>1. PICK op \in Op : Edit(d, op) /\ minted' \subseteq minted \cup Items \cup Contents
    BY <1>3, EditStages
  <2>2. DurableTypes'
    BY <1>1, <2>1, StageTypes DEF Edit
  <2>3. MemoryTypes'
    BY <1>1, <2>1 DEF Edit, MemoryTypes
  <2>4. CountTypes'
    BY <1>1, <2>1, SyncEngineAssumption DEF Edit, CountTypes
  <2> QED
    BY <2>2, <2>3, <2>4 DEF StepTypes
<1> QED
  BY <1>2, <1>3, EditCases

LEMMA StageCopyTypes ==
  ASSUME SyncTypeOK, NEW d \in Devices, NEW op \in report[d], NEW i \in Items,
         StageCopy(d, op, i)
  PROVE  StepTypes
<1>1. DurableTypes /\ MemoryTypes /\ CountTypes
  BY TypeParts
<1>2. PICK copy \in Op : Stage(d, copy)
  BY CopyStages
<1>3. DurableTypes'
  BY <1>1, <1>2, StageTypes DEF StageCopy
<1>4. MemoryTypes'
  BY <1>1 DEF StageCopy, MemoryTypes
<1>5. CountTypes'
  BY <1>1 DEF StageCopy, CountTypes
<1> QED
  BY <1>3, <1>4, <1>5 DEF StepTypes

LEMMA PhaseTypes ==
  ASSUME SyncTypeOK, NEW d \in Devices, PushRejected(d) \/ Finish(d) \/ Abandon(d)
  PROVE  StepTypes
<1>1. DurableTypes /\ MemoryTypes /\ CountTypes
  BY TypeParts
<1>2. DurableTypes' /\ CountTypes'
  BY <1>1 DEF PushRejected, Finish, Abandon, DurableTypes, CountTypes, countVars
<1>3. CASE PushRejected(d) \/ Finish(d)
  BY <1>1, <1>2, <1>3 DEF PushRejected, Finish, MemoryTypes, countVars, StepTypes
<1>4. CASE Abandon(d)
  BY <1>1, <1>2, <1>4, FailTypes DEF Abandon, StepTypes
<1> QED
  BY <1>3, <1>4

\* Popping the front of the queue.
LEMMA PopTypes ==
  ASSUME queue \in [Devices -> Seq(Op)], NEW d \in Devices, queue[d] # <<>>, Pop(d)
  PROVE  queue' \in [Devices -> Seq(Op)]
<1>1. Tail(queue[d]) \in Seq(Op)
  BY Popped
<1> QED
  BY <1>1 DEF Pop

LEMMA PushTypes ==
  ASSUME SyncTypeOK, NEW d \in Devices, Pushing(d),
         NEW r \in Nat, r > 0, Accepted(d, r), UNCHANGED <<last_seq, pulled, minted, edits>>,
         committed' \subseteq Items \X Contents
  PROVE  StepTypes
<1>1. DurableTypes /\ MemoryTypes /\ CountTypes /\ queue[d] # <<>>
  BY TypeParts DEF Pushing
<1>2. NoteRevision(d, r) \/ UNCHANGED replica
  BY DEF Accepted
<1>3. replica' \in [Devices -> [Items -> Stored]]
  BY <1>1, <1>2, PopStep, NoteStep
<1>4. queue' \in [Devices -> Seq(Op)]
  <2>1. Pop(d) \/ UNCHANGED queue
    BY DEF Accepted
  <2> QED
    BY <1>1, <2>1, PopTypes DEF DurableTypes
<1>5. MemoryTypes'
  <2>1. Fail(d) \/ UNCHANGED <<phase, report, failures>>
    BY DEF Accepted
  <2>2. UNCHANGED <<phase, report, failures>> => MemoryTypes'
    BY <1>1 DEF MemoryTypes
  <2> QED
    BY <1>1, <2>1, <2>2, FailTypes
<1>6. CountTypes'
  BY <1>1 DEF CountTypes
<1>7. DurableTypes'
  BY <1>1, <1>3, <1>4 DEF DurableTypes
<1> QED
  BY <1>5, <1>6, <1>7 DEF StepTypes

LEMMA AnsweredTypes ==
  ASSUME SyncTypeOK, ServerInv, NEW d \in Devices,
         PushUpsert(d) \/ PushDelete(d) \/ PushDeleteAgain(d)
  PROVE  StepTypes
<1>1. Pushing(d) /\ queue[d] # <<>> /\ committed \subseteq Items \X Contents
  BY DEF PushUpsert, PushDelete, PushDeleteAgain, Pushing, SyncTypeOK
<1>2. Front(d) \in Op /\ Front(d).item \in Items
  BY <1>1, PopStep
<1>3. /\ Front(d).revision \in Nat /\ Front(d).revision > 0
      /\ Front(d).revision + 1 \in Nat /\ Front(d).revision + 1 > 0
      /\ Front(d).kind = "upsert" => Front(d).content \in Contents
  BY <1>2, OpFields
<1>4. CASE PushUpsert(d)
  <2>1. committed' \subseteq Items \X Contents
    BY <1>1, <1>2, <1>3, <1>4 DEF PushUpsert
  <2> QED
    BY <1>1, <1>3, <1>4, <2>1, PushTypes DEF PushUpsert
<1>5. CASE PushDelete(d)
  BY <1>1, <1>3, <1>5, PushTypes DEF PushDelete
<1>6. CASE PushDeleteAgain(d)
  <2>1. rows[Front(d).item].revision \in Nat /\ rows[Front(d).item].revision > 0
    BY <1>2, <1>6, WrittenRow, RowsTyped DEF PushDeleteAgain, Row, NoRow
  <2> QED
    BY <1>1, <1>6, <2>1, PushTypes DEF PushDeleteAgain
<1> QED
  BY <1>4, <1>5, <1>6

LEMMA ConflictTypes ==
  ASSUME SyncTypeOK, ServerInv, NEW d \in Devices, phase[d] = "rejected" => queue[d] # <<>>,
         MergeConflict(d) \/ PushNotFound(d)
  PROVE  StepTypes
<1>1. DurableTypes /\ MemoryTypes /\ CountTypes
  BY TypeParts
<1>2. ServerWins(d) /\ queue[d] # <<>>
  BY DEF MergeConflict, PushNotFound, Pushing
<1>3. Front(d) \in Op /\ Front(d).item \in Items
  BY <1>1, <1>2, PopStep
<1>4. replica' \in [Devices -> [Items -> Stored]]
  BY <1>1, <1>2, <1>3, AdoptStep
<1>5. Pop(d) \/ UNCHANGED queue
  BY <1>2 DEF ServerWins
<1>6. DurableTypes'
  BY <1>1, <1>2, <1>4, <1>5, PopTypes DEF DurableTypes, ServerWins
<1>7. CountTypes'
  BY <1>1, <1>2 DEF ServerWins, CountTypes
<1>8. MemoryTypes'
  <2>1. CASE Fail(d)
    BY <1>1, <2>1, FailTypes
  <2>2. CASE /\ report' = [report EXCEPT ![d] = @ \cup {Front(d)}]
             /\ phase' = [phase EXCEPT ![d] = "push"]
             /\ UNCHANGED failures
    BY <1>1, <1>3, <2>2 DEF MemoryTypes
  <2> QED
    BY <1>2, <2>1, <2>2 DEF ServerWins
<1> QED
  BY <1>6, <1>7, <1>8 DEF StepTypes

LEMMA PullTypes ==
  ASSUME SyncTypeOK, ServerInv, NEW d \in Devices,
         Pull(d) \/ PullCut(d) \/ AdvanceCursor(d) \/ TailCut(d)
  PROVE  StepTypes
<1>1. DurableTypes /\ MemoryTypes /\ CountTypes /\ sync_seq \in Nat
  BY TypeParts DEF ServerInv, TypeOK
<1>2. ServerMoves /\ sync_seq' = sync_seq
  BY PurgeMoves DEF Pull, PullCut, AdvanceCursor, TailCut, TailPull
<1>3. UNCHANGED <<queue, minted, edits, committed>>
  BY DEF Pull, PullCut, AdvanceCursor, TailCut, countVars
<1>4. CountTypes'
  BY <1>1, <1>3 DEF CountTypes
<1>5. replica' \in [Devices -> [Items -> Stored]]
  <2>1. CASE Pull(d) \/ PullCut(d)
    <3>1. UNCHANGED replica \/ \E upto \in 0..sync_seq : PullInto(d, upto)
      BY <1>1, <2>1 DEF Pull, PullCut
    <3> QED
      BY <1>1, <1>2, <3>1, PulledRows DEF DurableTypes
  <2>2. CASE AdvanceCursor(d) \/ TailCut(d)
    <3>1. \/ UNCHANGED replica
          \/ replica' = [replica EXCEPT ![d] = Overlay(@, rows', TailListed(d))]
          \/ \E upto \in 0..sync_seq :
               replica' = [replica EXCEPT ![d] =
                             Overlay(@, rows', UpTo(rows', TailListed(d), upto))]
      BY <2>2 DEF AdvanceCursor, TailCut
    <3> QED
      BY <1>1, <1>2, <3>1, TailRows DEF DurableTypes
  <2> QED
    BY <2>1, <2>2
<1>6. last_seq' \in [Devices -> Nat] /\ pulled' \in [Devices -> Nat]
  <2>1. pulled[d] \in Nat
    BY <1>1 DEF DurableTypes
  <2>2. CASE Pull(d) \/ PullCut(d) \/ TailCut(d)
    BY <1>1, <2>2 DEF Pull, PullCut, TailCut, DurableTypes
  <2>3. CASE AdvanceCursor(d)
    BY <1>1, <1>2, <2>1, <2>3 DEF AdvanceCursor, DurableTypes
  <2> QED
    BY <2>2, <2>3
<1>7. MemoryTypes'
  <2>1. CASE Pull(d) \/ AdvanceCursor(d)
    BY <1>1, <2>1 DEF Pull, AdvanceCursor, MemoryTypes, countVars
  <2>2. CASE PullCut(d) \/ TailCut(d)
    BY <1>1, <2>2, FailTypes DEF PullCut, TailCut
  <2> QED
    BY <2>1, <2>2
<1> QED
  BY <1>1, <1>3, <1>4, <1>5, <1>6, <1>7 DEF StepTypes, DurableTypes

LEMMA TypeStep ==
  ASSUME SyncTypeOK, ServerInv, NEW d \in Devices, phase[d] = "rejected" => queue[d] # <<>>,
         Edits(d) \/ SyncStep(d) \/ Failures(d)
  PROVE  StepTypes
BY EditTypes, StageCopyTypes, PhaseTypes, AnsweredTypes, ConflictTypes, PullTypes
   DEF SyncStep, Failures

-----------------------------------------------------------------------------
(* The inductive invariant. *)

LEMMA SyncInitInv == SyncInit => SyncInv
<1> SUFFICES ASSUME SyncInit PROVE SyncInv
  OBVIOUS
<1>1. Init /\ TypeOK
  BY InitSeqInv DEF SyncInit, SeqInv
<1>2. ServerInv
  BY <1>1 DEF Init, ServerInv, TableShape, RevisionsBehind, NoRow
<1>3. DurableTypes
  <2>1. NoStored \in Stored /\ <<>> \in Seq(Op)
    BY DEF Stored
  <2> QED
    BY <2>1 DEF SyncInit, DurableTypes
<1>4. MemoryTypes /\ CountTypes /\ HistoryTypes /\ EditorTypes
  BY SyncEngineAssumption DEF SyncInit, MemoryTypes, CountTypes, HistoryTypes, EditorTypes, Closed
<1>5. ASSUME NEW d \in Devices PROVE DeviceInv(d)
  <2>1. /\ last_seq[d] = 0 /\ sync_seq = 0 /\ queue[d] = <<>> /\ phase[d] = "idle"
        /\ \A i \in Items : replica[d][i] = NoStored /\ rows[i] = NoRow
    BY DEF SyncInit, Init
  <2>4. queue[d] = <<>>
    BY <2>1
  <2>2. \A i \in Items : ~DeleteLast(queue[d], i)
    BY <2>4 DEF DeleteLast
  <2>3. Agree(NoStored, NoRow)
    BY DEF Agree, Absent, NoStored, NoRow
  <2> QED
    BY <2>1, <2>2, <2>3 DEF DeviceInv, Pushes, Covered, Sound
<1> QED
  BY <1>1, <1>2, <1>3, <1>4, <1>5, TypeParts DEF SyncInv

LEMMA SyncSteps == SyncInv /\ [SyncNext]_vars => SyncInv' /\ [Next]_serverVars
<1>1. ASSUME SyncInv, SyncNext PROVE SyncInv' /\ [Next]_serverVars
  <2>1. PICK d \in Devices : Runs(d)
    BY <1>1 DEF SyncNext, Runs
  <2>2. Record /\ SyncTypeOK /\ (Edits(d) \/ SyncStep(d) \/ Failures(d))
    BY <1>1, <2>1 DEF SyncNext, SyncInv, Runs
  <2>3. StepOK(d)
    BY <1>1, <2>2, DeviceSteps
  <2>4. StepTypes /\ EditorTypes'
    BY <1>1, <2>1, <2>2, TypeStep, EditorStep DEF SyncInv, DeviceInv, Runs
  <2>5. SyncTypeOK'
    BY <2>2, <2>3, <2>4, RecordTypes, TypeParts DEF StepOK, ServerMoves, ServerInv, StepTypes,
       SyncTypeOK, DurableTypes, MemoryTypes, CountTypes, HistoryTypes, EditorTypes
  <2>6. \A e \in Devices : DeviceInv(e)'
    BY <1>1, <2>2, <2>3, OtherDevices DEF StepOK, OthersKept
  <2> QED
    BY <2>3, <2>5, <2>6 DEF SyncInv, StepOK, ServerMoves
<1>2. ASSUME SyncInv, UNCHANGED vars PROVE SyncInv' /\ [Next]_serverVars
  <2>1. UNCHANGED serverVars /\ UNCHANGED deviceVars /\ UNCHANGED countVars
        /\ UNCHANGED historyVars /\ UNCHANGED committed /\ UNCHANGED editor
    BY <1>2 DEF vars
  <2>2. SyncTypeOK'
    BY <1>2, <2>1 DEF SyncInv, SyncTypeOK, TypeOK, serverVars, deviceVars, countVars, historyVars
  <2>3. ServerInv'
    BY <1>2, <2>1 DEF SyncInv, ServerInv, TypeOK, TableShape, RevisionsBehind, serverVars
  <2>4. \A d \in Devices : DeviceInv(d)'
    BY <1>2, <2>1 DEF SyncInv, DeviceInv, Covered, Pushes, Pending, Queued, serverVars,
       deviceVars, historyVars
  <2> QED
    BY <2>1, <2>2, <2>3, <2>4 DEF SyncInv
<1> QED
  BY <1>1, <1>2

LEMMA SyncInvariant == SyncSpec => []SyncInv
BY SyncInitInv, SyncSteps, PTL DEF SyncSpec

\* The tables, queues, cursors and reports of the devices keep their types: an
\* op in a queue has a revision from 1 on and a content exactly when it is an
\* upsert, a stored item is whole or a tombstone.
THEOREM SyncTyped == SyncSpec => []SyncTypeOK
<1>1. SyncInv => SyncTypeOK
  BY DEF SyncInv
<1> QED
  BY <1>1, SyncInvariant, PTL

\* The replica is never silently wrong (core/vault-sync/src/engine.rs: sync,
\* push_pending, advance_cursor): what was interrupted, lost, retried, purged or
\* resynced, a device shows what the server has or will still hear of it.
THEOREM CursorsSound == SyncSpec => []CursorSound
<1>1. SyncInv => CursorSound
  BY CoveredMeaning DEF SyncInv, DeviceInv, CursorSound
<1> QED
  BY <1>1, SyncInvariant, PTL

\* Whatever the devices push and pull, the server's tables go through a behaviour
\* of VaultItems, and what is proved of those holds with devices around them.
THEOREM SyncImplementsStore == SyncSpec => Spec
<1>1. SyncInit => Init
  BY DEF SyncInit
<1>2. SyncInv /\ [SyncNext]_vars => [Next]_serverVars
  BY SyncSteps
<1> QED
  BY <1>1, <1>2, SyncInvariant, PTL DEF SyncSpec, Spec

\* What OpsSettled says of a step.
LeavesSettled ==
  \A d \in Devices : \A op \in Queued(d) \ Queued(d)' :
    \/ op \in report'[d]
    \/ <<op.item, op.content>> \in committed'
    \/ op.kind = "delete" /\ rows'[op.item].deleted

LEMMA OpLeaves ==
  ASSUME SyncTypeOK, ServerInv, NEW d \in Devices, phase[d] = "rejected" => queue[d] # <<>>,
         Edits(d) \/ SyncStep(d) \/ Failures(d),
         \A e \in Devices \ {d} : queue'[e] = queue[e]
  PROVE  LeavesSettled
<1>1. ASSUME NEW e \in Devices \ {d} PROVE Queued(e)' = Queued(e)
  BY DEF Queued
<1>2. ASSUME Pop(d), queue[d] # <<>>, NEW op \in Queued(d) \ Queued(d)'
      PROVE  op = Front(d)
  <2>1. queue[d] \in Seq(Op) /\ queue'[d] = Tail(queue[d])
    BY <1>2, PopStep DEF SyncTypeOK
  <2>2. PICK k \in 1..Len(queue[d]) : op = queue[d][k]
    BY <1>2, <2>1 DEF Queued
  <2>3. k # 1 => k - 1 \in DOMAIN Tail(queue[d]) /\ Tail(queue[d])[k - 1] = op
    BY <1>2, <2>1, <2>2
  <2>4. k - 1 \in DOMAIN queue'[d] /\ queue'[d][k - 1] = op => op \in Queued(d)'
    BY DEF Queued
  <2>5. k = 1
    BY <1>2, <2>1, <2>3, <2>4
  <2>6. Head(queue[d]) = queue[d][1]
    BY <1>2, <2>1
  <2> QED
    BY <2>2, <2>5, <2>6 DEF Front
<1>3. ASSUME UNCHANGED queue PROVE Queued(d)' = Queued(d)
  BY <1>3 DEF Queued
<1>4. ASSUME NEW op \in Op, Stage(d, op) PROVE Queued(d) \subseteq Queued(d)'
  <2>1. queue[d] \in Seq(Op) /\ queue'[d] = Append(queue[d], op)
    BY <1>4 DEF SyncTypeOK, Stage
  <2> QED
    BY <2>1 DEF Queued
<1>5. CASE Saves(d) \/ \E op \in report[d], i \in Items : StageCopy(d, op, i)
  <2>1. \E op \in Op : Stage(d, op)
    <3>1. CASE Saves(d)
      BY <3>1, EditStages DEF Edit
    <3>2. CASE \E op \in report[d], i \in Items : StageCopy(d, op, i)
      BY <3>2, CopyStages
    <3> QED
      BY <1>5, <3>1, <3>2
  <2> QED
    BY <1>1, <1>4, <2>1 DEF LeavesSettled
<1>6. CASE \/ Pull(d) \/ PullCut(d) \/ AdvanceCursor(d) \/ TailCut(d)
           \/ PushRejected(d) \/ Finish(d) \/ Abandon(d) \/ Opens(d)
  <2>1. UNCHANGED queue
    BY <1>6, OpensQuietly DEF deviceVars, Pull, PullCut, AdvanceCursor, TailCut, PushRejected,
       Finish, Abandon
  <2> QED
    BY <1>1, <1>3, <2>1 DEF LeavesSettled
<1>7. CASE PushUpsert(d) \/ PushDelete(d) \/ PushDeleteAgain(d)
  <2>1. queue[d] # <<>> /\ (Pop(d) \/ UNCHANGED queue)
    BY <1>7 DEF PushUpsert, PushDelete, PushDeleteAgain, Accepted, Pushing
  <2>2. Front(d).item \in Items
    BY <2>1, PopStep
  <2>3. \/ <<Front(d).item, Front(d).content>> \in committed'
        \/ Front(d).kind = "delete" /\ rows'[Front(d).item].deleted
    <3>1. CASE PushUpsert(d)
      BY <3>1 DEF PushUpsert
    <3>2. CASE PushDelete(d)
      BY <2>2, <3>2, DeleteMoves DEF PushDelete
    <3>3. CASE PushDeleteAgain(d)
      BY <3>3 DEF PushDeleteAgain, serverVars
    <3> QED
      BY <1>7, <3>1, <3>2, <3>3
  <2> QED
    BY <1>1, <1>2, <1>3, <2>1, <2>3 DEF LeavesSettled
<1>8. CASE MergeConflict(d) \/ PushNotFound(d)
  <2>1. ServerWins(d) /\ queue[d] # <<>>
    BY <1>8 DEF MergeConflict, PushNotFound, Pushing, SyncInv, DeviceInv
  <2>2. (Pop(d) /\ Front(d) \in report'[d]) \/ UNCHANGED queue
    BY <2>1 DEF ServerWins, SyncTypeOK
  <2> QED
    BY <1>1, <1>2, <1>3, <2>1, <2>2 DEF LeavesSettled
<1> QED
  BY <1>5, <1>6, <1>7, <1>8, EditCases DEF SyncStep, Failures

\* An op leaves a queue only when the server has it or the report holds it
\* (engine.rs: push_pending): neither a retry nor an interrupted cycle drops one.
THEOREM OpsAllSettled == SyncSpec => OpsSettled
<1>1. ASSUME SyncInv, SyncNext PROVE LeavesSettled
  <2>1. PICK d \in Devices : Edits(d) \/ SyncStep(d) \/ Failures(d)
    BY <1>1 DEF SyncNext
  <2>2. StepOK(d)
    BY <1>1, <2>1, DeviceSteps DEF SyncNext
  <2> QED
    BY <1>1, <2>1, <2>2, OpLeaves DEF SyncInv, DeviceInv, StepOK, OthersKept
<1>2. SyncInv /\ [SyncNext]_vars => [LeavesSettled]_vars
  BY <1>1
<1> QED
  BY <1>2, SyncInvariant, PTL DEF SyncSpec, OpsSettled, LeavesSettled

-----------------------------------------------------------------------------
(* An edit takes effect once.  A queued op whose edit the server has accepted  *)
(* is behind the row's revision, until the row is purged; and an edit is told  *)
(* apart from every other one by its item and its envelope.                    *)

Upserts(ops) == {op \in ops : op.kind = "upsert"}
EditOf(op) == <<op.item, op.content>>

OnceInv ==
  /\ \A p \in committed : p[1] \in minted /\ p[2] \in minted
  /\ \A d \in Devices : \A op \in Upserts(report[d]) : op.content \in minted
  /\ \A d \in Devices : \A op \in Upserts(Queued(d)) :
       op.item \in minted /\ op.content \in minted
  /\ \A d, e \in Devices : \A o \in Upserts(Queued(d)), p \in Upserts(Queued(e)) :
       EditOf(o) = EditOf(p) => o.revision = p.revision
  /\ \A d \in Devices : \A op \in Upserts(Queued(d)) :
       op.item \notin purged /\ EditOf(op) \in committed
         => op.revision <= rows[op.item].revision

\* A revision falls only when its row leaves the table.
LEMMA RevisionsGrow ==
  ASSUME ServerInv, [Next]_serverVars, NEW i \in Items
  PROVE  rows[i].revision <= rows'[i].revision \/ (Exists(i) /\ rows'[i] = NoRow)
<1>1. rows \in [Items -> Row] /\ rows[i].revision \in Nat /\ TypeOK
  BY RowsTyped DEF ServerInv, TypeOK
<1>2. ASSUME NEW j \in Items, NEW r \in 1..(MaxSeq + 1), NEW c \in Contents, PutItem(j, r, c)
      PROVE  rows[i].revision <= rows'[i].revision
  <2>1. /\ rows' = [rows EXCEPT ![j] = [revision |-> r, seq |-> sync_seq + 1,
                                        deleted |-> FALSE, content |-> c]]
        /\ r = rows[j].revision + 1
    BY <1>1, <1>2, PutItemRows DEF PutItem, PutMatches
  <2> QED
    BY <1>1, <2>1
<1>3. ASSUME NEW j \in Items, NEW r \in 0..MaxSeq, DeleteItem(j, r)
      PROVE  rows[i].revision <= rows'[i].revision
  <2>1. rows' = [rows EXCEPT ![j] =
                   [revision |-> rows[j].revision + 1, seq |-> sync_seq + 1,
                    deleted |-> TRUE, content |-> NoContent]]
    BY <1>1, <1>3, DeleteItemRows
  <2> QED
    BY <1>1, <2>1
<1>4. ASSUME NEW old \in SUBSET Tombstones, Purge(old)
      PROVE  rows[i].revision <= rows'[i].revision \/ (Exists(i) /\ rows'[i] = NoRow)
  <2>1. rows' = [j \in Items |-> IF j \in old THEN NoRow ELSE rows[j]]
    BY <1>4 DEF Purge
  <2>2. CASE rows[i].revision = 0
    <3>1. rows'[i].revision \in Nat
      BY <1>1, <2>1 DEF NoRow
    <3> QED
      BY <2>2, <3>1
  <2>3. CASE rows[i].revision > 0
    BY <1>1, <2>1, <2>3 DEF Exists
  <2> QED
    BY <1>1, <2>2, <2>3
<1>5. ASSUME rows' = rows PROVE rows[i].revision <= rows'[i].revision
  BY <1>1, <1>5
<1> QED
  BY <1>2, <1>3, <1>4, <1>5 DEF Next, PutCheckpoint, serverVars

\* The queue of d loses ops, or gains one whose edit is new.
NewEdit(op) ==
  op.kind = "upsert" =>
    /\ op.item \notin minted \/ op.content \notin minted
    /\ op.item \in minted' /\ op.content \in minted'

\* The step accepts the op in front.
Accepts(d) ==
  /\ Front(d) \in Upserts(Queued(d))
  /\ committed' = committed \cup {EditOf(Front(d))}
  /\ rows'[Front(d).item].revision = Front(d).revision

QueueMoves(d) ==
  /\ \A e \in Devices \ {d} : Queued(e)' = Queued(e)
  /\ minted \subseteq minted'
  /\ \A e \in Devices : report'[e] \subseteq report[e] \cup Queued(e)
  /\ \/ Queued(d)' \subseteq Queued(d) /\ (committed' = committed \/ Accepts(d))
     \/ \E op \in Op : /\ NewEdit(op) /\ committed' = committed
                       /\ Queued(d)' \subseteq Queued(d) \cup {op}

LEMMA QueuedAppend ==
  ASSUME SyncTypeOK, NEW d \in Devices, NEW op \in Op, Stage(d, op)
  PROVE  /\ Queued(d)' \subseteq Queued(d) \cup {op}
         /\ \A e \in Devices \ {d} : Queued(e)' = Queued(e)
<1>1. queue \in [Devices -> Seq(Op)] /\ queue' = [queue EXCEPT ![d] = Append(@, op)]
  BY DEF SyncTypeOK, Stage
<1>2. queue'[d] = Append(queue[d], op) /\ \A e \in Devices \ {d} : queue'[e] = queue[e]
  BY <1>1
<1>3. \A k \in DOMAIN queue'[d] :
        queue'[d][k] = op \/ (k \in DOMAIN queue[d] /\ queue'[d][k] = queue[d][k])
  BY <1>1, <1>2
<1> QED
  BY <1>2, <1>3 DEF Queued

LEMMA QueuedPop ==
  ASSUME SyncTypeOK, NEW d \in Devices, queue[d] # <<>>, Pop(d) \/ UNCHANGED queue
  PROVE  /\ Queued(d)' \subseteq Queued(d)
         /\ \A e \in Devices \ {d} : Queued(e)' = Queued(e)
<1>1. CASE UNCHANGED queue
  BY <1>1 DEF Queued
<1>2. CASE Pop(d)
  <2>1. queue[d] \in Seq(Op) /\ queue'[d] = Tail(queue[d])
        /\ \A e \in Devices \ {d} : queue'[e] = queue[e]
    BY <1>2, PopStep DEF SyncTypeOK
  <2>2. \A k \in DOMAIN queue'[d] : k + 1 \in DOMAIN queue[d] /\ queue'[d][k] = queue[d][k + 1]
    BY <2>1
  <2> QED
    BY <2>1, <2>2 DEF Queued
<1> QED
  BY <1>1, <1>2

LEMMA FrontQueued ==
  ASSUME SyncTypeOK, NEW d \in Devices, queue[d] # <<>>
  PROVE  Front(d) \in Queued(d) /\ Front(d) \in Op
<1>1. queue[d] \in Seq(Op)
  BY DEF SyncTypeOK
<1>2. 1 \in DOMAIN queue[d] /\ Head(queue[d]) = queue[d][1] /\ Head(queue[d]) \in Op
  BY <1>1
<1> QED
  BY <1>2 DEF Queued, Front

LEMMA QueueSteps ==
  ASSUME SyncTypeOK, ServerInv, OnceInv, NEW d \in Devices,
         phase[d] = "rejected" => queue[d] # <<>>, Edits(d) \/ SyncStep(d) \/ Failures(d)
  PROVE  QueueMoves(d)
<1>0. /\ report \in [Devices -> SUBSET Op] /\ replica \in [Devices -> [Items -> Stored]]
      /\ editor \in [Devices -> [Items -> Contents \cup {NoContent}]]
  BY DEF SyncTypeOK
<1>1. ASSUME NEW i \in Items, NEW c \in Contents, SaveItem(d, i, c) PROVE QueueMoves(d)
  <2> DEFINE op == [kind |-> "upsert", item |-> i, content |-> c,
                    revision |-> replica[d][i].revision + 1, seen |-> editor[d][i]]
  <2>1. replica[d][i].revision \in Nat /\ editor[d][i] \in Contents \cup {NoContent}
    BY <1>0, StoredFields
  <2>2. replica[d][i].revision + 1 \in Nat /\ replica[d][i].revision + 1 > 0
    BY <2>1
  <2>3. op \in Op
    BY <2>1, <2>2, UpsertOp
  <2>4. Stage(d, op) /\ UNCHANGED <<report, committed>> /\ minted' = minted \cup {i, c}
        /\ c \notin minted
    BY <1>1 DEF SaveItem, Edit
  <2>5. NewEdit(op)
    BY <2>4 DEF NewEdit
  <2> HIDE DEF op
  <2> QED
    BY <2>3, <2>4, <2>5, QueuedAppend DEF QueueMoves
<1>2. ASSUME NEW i \in Items, RemoveItem(d, i) PROVE QueueMoves(d)
  <2> DEFINE op == [kind |-> "delete", item |-> i, content |-> NoContent,
                    revision |-> replica[d][i].revision, seen |-> editor[d][i]]
  <2>1. /\ replica[d][i].revision \in Nat /\ editor[d][i] \in Contents \cup {NoContent}
        /\ replica[d][i].revision > 0
    BY <1>0, <1>2, StoredFields DEF RemoveItem, Held
  <2>2. op \in Op
    BY <2>1, DeleteOp
  <2>3. Stage(d, op) /\ UNCHANGED <<report, committed, minted>>
    BY <1>2 DEF RemoveItem, Edit
  <2>4. NewEdit(op)
    BY DEF NewEdit
  <2> HIDE DEF op
  <2> QED
    BY <2>2, <2>3, <2>4, QueuedAppend DEF QueueMoves
<1>3. ASSUME NEW lost \in report[d], NEW i \in Items, StageCopy(d, lost, i) PROVE QueueMoves(d)
  <2> DEFINE op == [kind |-> "upsert", item |-> i, content |-> lost.content,
                    revision |-> 1, seen |-> NoContent]
  <2>1. lost \in Op /\ lost.kind = "upsert" /\ lost.content \in minted
    BY <1>0, <1>3 DEF StageCopy, OnceInv, Upserts
  <2>5. lost.content \in Contents
    BY <2>1, OpFields
  <2>2. op \in Op
    BY <2>5, UpsertOp
  <2>3. /\ Stage(d, op) /\ UNCHANGED committed /\ minted' = minted \cup {i} /\ i \notin minted
        /\ \A e \in Devices : report'[e] \subseteq report[e]
    BY <1>0, <1>3 DEF StageCopy
  <2>4. NewEdit(op)
    BY <2>1, <2>3 DEF NewEdit
  <2> HIDE DEF op
  <2> QED
    BY <2>2, <2>3, <2>4, QueuedAppend DEF QueueMoves
<1>4. ASSUME Fail(d) PROVE \A e \in Devices : report'[e] \subseteq report[e]
  BY <1>0, <1>4 DEF Fail
<1>5. CASE \/ Pull(d) \/ PullCut(d) \/ AdvanceCursor(d) \/ TailCut(d)
           \/ PushRejected(d) \/ Finish(d) \/ Abandon(d) \/ Opens(d)
  <2>1. UNCHANGED <<queue, minted, committed>> /\ (UNCHANGED report \/ Fail(d) \/ Finish(d))
    BY <1>5, OpensQuietly DEF Pull, PullCut, AdvanceCursor, TailCut, PushRejected, Finish,
       Abandon, countVars, deviceVars
  <2>2. \A e \in Devices : report'[e] \subseteq report[e]
    BY <1>0, <1>4, <2>1 DEF Finish
  <2>3. \A e \in Devices : Queued(e)' = Queued(e)
    BY <2>1 DEF Queued
  <2> QED
    BY <2>1, <2>2, <2>3 DEF QueueMoves
<1>6. CASE PushUpsert(d) \/ PushDelete(d) \/ PushDeleteAgain(d)
  <2>1. queue[d] # <<>> /\ UNCHANGED minted /\ (UNCHANGED report \/ Fail(d))
        /\ (Pop(d) \/ UNCHANGED queue)
    BY <1>6 DEF PushUpsert, PushDelete, PushDeleteAgain, Accepted, Pushing
  <2>2. \A e \in Devices : report'[e] \subseteq report[e]
    BY <1>4, <2>1
  <2>3. Front(d) \in Queued(d) /\ Front(d) \in Op
    BY <2>1, FrontQueued
  <2>4. CASE PushUpsert(d)
    <3>1. /\ Front(d).item \in Items /\ Front(d).revision \in Nat
          /\ Front(d).content \in Contents /\ Front(d).kind = "upsert"
      BY <2>3, <2>4, OpFields DEF PushUpsert
    <3>2. rows' = [rows EXCEPT ![Front(d).item] =
                     [revision |-> Front(d).revision, seq |-> sync_seq + 1,
                      deleted |-> FALSE, content |-> Front(d).content]]
      BY <2>4, <3>1, PutMoves DEF PushUpsert
    <3>3. rows'[Front(d).item].revision = Front(d).revision
      BY <3>1, <3>2 DEF ServerInv, TypeOK
    <3>4. Accepts(d)
      BY <2>3, <2>4, <3>1, <3>3 DEF PushUpsert, Accepts, Upserts, EditOf
    <3> QED
      BY <2>1, <2>2, <3>4, QueuedPop DEF QueueMoves
  <2>5. CASE PushDelete(d) \/ PushDeleteAgain(d)
    <3>1. UNCHANGED committed
      BY <2>5 DEF PushDelete, PushDeleteAgain
    <3> QED
      BY <2>1, <2>2, <3>1, QueuedPop DEF QueueMoves
  <2> QED
    BY <1>6, <2>4, <2>5
<1>7. CASE MergeConflict(d) \/ PushNotFound(d)
  <2>1. queue[d] # <<>> /\ ServerWins(d)
    BY <1>7 DEF MergeConflict, PushNotFound, Pushing
  <2>2. UNCHANGED <<minted, committed>> /\ (Pop(d) \/ UNCHANGED queue)
        /\ (Fail(d) \/ report' = [report EXCEPT ![d] = @ \cup {Front(d)}])
    BY <2>1 DEF ServerWins
  <2>3. \A e \in Devices : report'[e] \subseteq report[e] \cup Queued(e)
    BY <1>0, <1>4, <2>1, <2>2, FrontQueued
  <2> QED
    BY <2>1, <2>2, <2>3, QueuedPop DEF QueueMoves
<1> QED
  BY <1>1, <1>2, <1>3, <1>5, <1>6, <1>7, EditCases DEF Saves, SyncStep, Failures

\* The invariant over such a move.  Two devices may hold the same edit only as
\* the same op, since a new edit is new to everyone.
LEMMA OnceMoves ==
  ASSUME SyncInv, SyncTypeOK', OnceInv, [Next]_serverVars, Record,
         NEW d \in Devices, QueueMoves(d)
  PROVE  OnceInv'
<1>1. SyncTypeOK /\ ServerInv
  BY DEF SyncInv
<1>2. \A e \in Devices : Queued(e) \subseteq Op /\ Queued(e)' \subseteq Op
  <2>1. \A e \in Devices : queue[e] \in Seq(Op) /\ queue'[e] \in Seq(Op)
    BY <1>1 DEF SyncTypeOK
  <2> QED
    BY <2>1 DEF Queued
<1>3. \A i \in Items \ purged' : rows[i].revision <= rows'[i].revision
  BY <1>1, RevisionsGrow DEF Record
<1>4. purged \subseteq purged' /\ minted \subseteq minted'
  BY DEF Record, QueueMoves
<1>5. \A i \in Items : rows[i].revision \in Nat /\ rows'[i].revision \in Nat
  <2>1. \A i \in Items : rows[i] \in Row /\ rows'[i] \in Row
    BY <1>1 DEF SyncTypeOK, TypeOK
  <2> QED
    BY <2>1, RowFields
<1>6. \A op \in Op : op.revision \in Nat /\ op.item \in Items
  BY OpFields
<1>7. \A p \in committed' : p[1] \in minted' /\ p[2] \in minted'
  <2>1. ASSUME NEW p \in committed' \ committed PROVE p[1] \in minted /\ p[2] \in minted
    <3>1. Accepts(d) /\ p = EditOf(Front(d))
      BY <2>1 DEF QueueMoves, Accepts
    <3> QED
      BY <3>1 DEF Accepts, OnceInv, EditOf
  <2> QED
    BY <1>4, <2>1 DEF OnceInv
<1>8. \A e \in Devices : \A op \in Upserts(report'[e]) : op.content \in minted'
  BY <1>4 DEF QueueMoves, OnceInv, Upserts
\* What holds of an op that was queued, when its edit was accepted before.
<1>9. ASSUME NEW e \in Devices, NEW op \in Upserts(Queued(e)), op.item \notin purged',
             EditOf(op) \in committed
      PROVE  op.revision <= rows'[op.item].revision
  <2>1. op \in Op /\ op.revision <= rows[op.item].revision
    BY <1>2, <1>4, <1>9 DEF OnceInv, Upserts
  <2>2. rows[op.item].revision <= rows'[op.item].revision
    BY <1>3, <1>6, <1>9, <2>1
  <2> QED
    BY <1>5, <1>6, <2>1, <2>2
<1>10. CASE Queued(d)' \subseteq Queued(d) /\ (committed' = committed \/ Accepts(d))
  <2>1. \A e \in Devices : Upserts(Queued(e)') \subseteq Upserts(Queued(e))
    BY <1>10 DEF QueueMoves, Upserts
  <2>2. \A e \in Devices : \A op \in Upserts(Queued(e)') :
          op.item \in minted' /\ op.content \in minted'
    BY <1>4, <2>1 DEF OnceInv
  <2>3. \A e, f \in Devices : \A o \in Upserts(Queued(e)'), p \in Upserts(Queued(f)') :
          EditOf(o) = EditOf(p) => o.revision = p.revision
    BY <2>1 DEF OnceInv
  <2>4. ASSUME NEW e \in Devices, NEW op \in Upserts(Queued(e)'), op.item \notin purged',
               EditOf(op) \in committed'
        PROVE  op.revision <= rows'[op.item].revision
    <3>1. op \in Upserts(Queued(e)) /\ op \in Op
      BY <1>2, <2>1 DEF Upserts
    <3>2. CASE EditOf(op) \notin committed
      <4>1. Accepts(d) /\ EditOf(op) = EditOf(Front(d))
        BY <1>10, <2>4, <3>2 DEF Accepts
      <4>2. op.revision = Front(d).revision /\ op.item = Front(d).item
        BY <3>1, <4>1 DEF OnceInv, Accepts, EditOf
      <4>3. op.revision = rows'[op.item].revision
        BY <4>1, <4>2 DEF Accepts
      <4> QED
        BY <1>6, <3>1, <4>3
    <3> QED
      BY <1>9, <2>4, <3>1, <3>2
  <2> QED
    BY <1>7, <1>8, <2>2, <2>3, <2>4 DEF OnceInv
<1>11. ASSUME NEW new \in Op, NewEdit(new), committed' = committed,
              Queued(d)' \subseteq Queued(d) \cup {new}
       PROVE  OnceInv'
  <2>1. \A e \in Devices : \A op \in Upserts(Queued(e)') :
          op \in Upserts(Queued(e)) \/ (op = new /\ new.kind = "upsert")
    BY <1>11 DEF QueueMoves, Upserts
  <2>2. \A e \in Devices : \A op \in Upserts(Queued(e)') :
          op.item \in minted' /\ op.content \in minted'
    BY <1>4, <1>11, <2>1 DEF OnceInv, NewEdit
  <2>3. new.kind = "upsert" =>
          /\ EditOf(new) \notin committed
          /\ \A e \in Devices : \A o \in Upserts(Queued(e)) : EditOf(o) # EditOf(new)
    BY <1>11 DEF NewEdit, OnceInv, EditOf
  <2>4. \A e, f \in Devices : \A o \in Upserts(Queued(e)'), p \in Upserts(Queued(f)') :
          EditOf(o) = EditOf(p) => o.revision = p.revision
    BY <2>1, <2>3 DEF OnceInv
  <2>5. \A e \in Devices : \A op \in Upserts(Queued(e)') :
          op.item \notin purged' /\ EditOf(op) \in committed'
            => op.revision <= rows'[op.item].revision
    BY <1>9, <1>11, <2>1, <2>3
  <2> QED
    BY <1>7, <1>8, <2>2, <2>4, <2>5 DEF OnceInv
<1> QED
  BY <1>10, <1>11 DEF QueueMoves

LEMMA OnceSteps == SyncInv /\ OnceInv /\ [SyncNext]_vars => OnceInv'
<1>1. ASSUME SyncInv, OnceInv, SyncNext PROVE OnceInv'
  <2>1. PICK d \in Devices : Edits(d) \/ SyncStep(d) \/ Failures(d)
    BY <1>1 DEF SyncNext
  <2>2. Record /\ SyncTypeOK /\ ServerInv /\ (phase[d] = "rejected" => queue[d] # <<>>)
    BY <1>1 DEF SyncNext, SyncInv, DeviceInv
  <2>3. QueueMoves(d)
    BY <1>1, <2>1, <2>2, QueueSteps
  <2>4. SyncTypeOK' /\ [Next]_serverVars
    BY <1>1, SyncSteps DEF SyncInv
  <2> QED
    BY <1>1, <2>2, <2>3, <2>4, OnceMoves
<1>2. ASSUME OnceInv, UNCHANGED vars PROVE OnceInv'
  BY <1>2 DEF OnceInv, Queued, vars, serverVars, deviceVars, countVars, historyVars
<1> QED
  BY <1>1, <1>2

LEMMA SyncInitOnce == SyncInit => OnceInv
BY DEF SyncInit, OnceInv, Queued, Upserts

\* What CommittedOnce says of a step.
CommitsOnce ==
  \A d \in Devices :
    /\ PushUpsert(d)
    /\ Front(d).item \notin purged
    => <<Front(d).item, Front(d).content>> \notin committed

LEMMA UpsertOnce ==
  ASSUME SyncInv, OnceInv, NEW d \in Devices, PushUpsert(d), Front(d).item \notin purged
  PROVE  <<Front(d).item, Front(d).content>> \notin committed
<1>1. SyncTypeOK /\ ServerInv /\ queue[d] # <<>> /\ Front(d).kind = "upsert"
  BY DEF SyncInv, PushUpsert, Pushing
<1>2. Front(d) \in Upserts(Queued(d)) /\ Front(d) \in Op
  BY <1>1, FrontQueued DEF Upserts
<1>3. Front(d).revision = rows[Front(d).item].revision + 1
  BY DEF PushUpsert, PutItem, PutMatches
<1>4. rows[Front(d).item].revision \in Nat
  BY <1>1, <1>2, OpFields, RowsTyped
<1> QED
  BY <1>2, <1>3, <1>4 DEF OnceInv, EditOf

\* An edit takes effect at most once, however often it is retried (engine.rs:
\* push_pending; routes/items.rs: put_item): a stale op conflicts, until the row
\* it would conflict with is purged.
THEOREM EditsCommittedOnce == SyncSpec => CommittedOnce
<1>1. SyncSpec => []OnceInv
  BY SyncInitOnce, OnceSteps, SyncInvariant, PTL DEF SyncSpec
<1>2. SyncInv /\ OnceInv /\ [SyncNext]_vars => [CommitsOnce]_vars
  BY UpsertOnce DEF CommitsOnce
<1> QED
  BY <1>1, <1>2, SyncInvariant, PTL DEF SyncSpec, CommittedOnce, CommitsOnce

-----------------------------------------------------------------------------
(* What a user saw of an item, what the device shows of it and what the server *)
(* has of it are told apart by the revision: on an item that is not excepted,  *)
(* the same revision is the same version.                                      *)

Exempt(d) == purged \cup revived[d] \cup UNION {stacked[e] : e \in Devices}

\* The revision an op is made on.
Base(op) == IF op.kind = "upsert" THEN op.revision - 1 ELSE op.revision

\* The version the op was made on is the row's, or the row is past it.
Basis(op, row) ==
  Base(op) <= row.revision /\ (row.revision = Base(op) => row.content = op.seen)

\* The device shows what the op makes of the item, until it adopts a row the op
\* has lost against.
Shows(op, st, row) ==
  st.revision > 0 =>
    IF op.kind = "delete" THEN st.content = NoContent
    ELSE st.content = op.content \/ row.revision > Base(op)

Known(st, row) ==
  st.revision > 0 =>
    st.revision <= row.revision /\ (st.revision = row.revision => st.content = row.content)

Single(q, i) == \A j, k \in DOMAIN q : q[j].item = i /\ q[k].item = i => j = k

ItemInv(q, st, row, i) ==
  /\ Single(q, i)
  /\ \A k \in DOMAIN q : q[k].item = i => Basis(q[k], row) /\ Shows(q[k], st, row)
  /\ i \notin ItemsOf(q) => Known(st, row)

\* A refused op has lost.
Passed(d, i) ==
  phase[d] = "rejected" /\ Front(d).item = i => rows[i].revision > Base(Front(d))

EditInv(d, i) == ItemInv(queue[d], replica[d][i], rows[i], i) /\ Passed(d, i)

SeenInv == \A d \in Devices : \A i \in Items \ Exempt(d) : EditInv(d, i)

Advances(row, new) == new = row \/ new.revision > row.revision

LEMMA BaseNat == \A op \in Op : Base(op) \in Nat /\ op.revision \in Nat
BY OpFields DEF Base

LEMMA RowAdvances ==
  ASSUME ServerInv, [Next]_serverVars, Record, NEW i \in Items \ purged'
  PROVE  Advances(rows[i], rows'[i])
<1>1. rows \in [Items -> Row] /\ rows[i].revision \in Nat /\ TypeOK
  BY RowsTyped DEF ServerInv, TypeOK
<1>2. ASSUME NEW j \in Items, NEW r \in 1..(MaxSeq + 1), NEW c \in Contents, PutItem(j, r, c)
      PROVE  Advances(rows[i], rows'[i])
  <2>1. /\ rows' = [rows EXCEPT ![j] = [revision |-> r, seq |-> sync_seq + 1,
                                        deleted |-> FALSE, content |-> c]]
        /\ r = rows[j].revision + 1
    BY <1>1, <1>2, PutItemRows DEF PutItem, PutMatches
  <2> QED
    BY <1>1, <2>1 DEF Advances
<1>3. ASSUME NEW j \in Items, NEW r \in 0..MaxSeq, DeleteItem(j, r)
      PROVE  Advances(rows[i], rows'[i])
  <2>1. rows' = [rows EXCEPT ![j] =
                   [revision |-> rows[j].revision + 1, seq |-> sync_seq + 1,
                    deleted |-> TRUE, content |-> NoContent]]
    BY <1>1, <1>3, DeleteItemRows
  <2> QED
    BY <1>1, <2>1 DEF Advances
<1>4. ASSUME NEW old \in SUBSET Tombstones, Purge(old)
      PROVE  Advances(rows[i], rows'[i])
  <2>1. rows' = [j \in Items |-> IF j \in old THEN NoRow ELSE rows[j]]
    BY <1>4 DEF Purge
  <2>2. i \notin old
    <3>1. SUFFICES ASSUME i \in old PROVE FALSE
      OBVIOUS
    <3>2. rows[i] \in Row /\ rows[i].deleted
      BY <1>1, <3>1 DEF Tombstones
    <3>3. Exists(i)
      BY <3>2, WrittenRow DEF Row, NoRow, Exists
    <3> QED
      BY <2>1, <3>1, <3>3 DEF Record
  <2> QED
    BY <2>1, <2>2 DEF Advances
<1>5. ASSUME rows' = rows PROVE Advances(rows[i], rows'[i])
  BY <1>5 DEF Advances
<1> QED
  BY <1>2, <1>3, <1>4, <1>5 DEF Next, PutCheckpoint, serverVars

-----------------------------------------------------------------------------
(* The invariant of one item on one device, over what may happen to it.       *)

LEMMA RowAdvanced ==
  ASSUME NEW q \in Seq(Op), NEW st \in Stored, NEW row \in Row, NEW new \in Row, NEW i,
         ItemInv(q, st, row, i), Advances(row, new)
  PROVE  ItemInv(q, st, new, i)
<1>1. \A k \in DOMAIN q : q[k] \in Op
  OBVIOUS
<1>2. row.revision \in Nat /\ new.revision \in Nat /\ st.revision \in Nat
  BY RowFields, StoredFields
<1>3. CASE new = row
  BY <1>3
<1>4. CASE new.revision > row.revision
  <2>1. ASSUME NEW k \in DOMAIN q, q[k].item = i PROVE Basis(q[k], new) /\ Shows(q[k], st, new)
    <3>1. Basis(q[k], row) /\ Shows(q[k], st, row) /\ Base(q[k]) \in Nat
      BY <1>1, <2>1, BaseNat DEF ItemInv
    <3> QED
      BY <1>2, <1>4, <3>1 DEF Basis, Shows
  <2>2. Known(st, row) => Known(st, new)
    BY <1>2, <1>4 DEF Known
  <2> QED
    BY <2>1, <2>2 DEF ItemInv
<1> QED
  BY <1>3, <1>4 DEF Advances

LEMMA OpAppended ==
  ASSUME NEW q \in Seq(Op), NEW op \in Op, NEW st, NEW row \in Row, NEW i,
         ItemInv(q, st, row, i)
  PROVE  /\ op.item # i => ItemInv(Append(q, op), st, row, i)
         /\ op.item = i /\ i \notin ItemsOf(q) /\ Basis(op, row)
              => ItemInv(Append(q, op), Mirror(op), row, i)
<1> DEFINE p == Append(q, op)
<1>1. /\ Len(q) \in Nat /\ DOMAIN q = 1..Len(q) /\ DOMAIN p = 1..(Len(q) + 1)
      /\ \A k \in DOMAIN q : p[k] = q[k]
      /\ p[Len(q) + 1] = op
  OBVIOUS
<1>2. ItemsOf(p) = ItemsOf(q) \cup {op.item}
  BY Appended
<1> HIDE DEF p
<1>3. \A k \in DOMAIN p : k \in DOMAIN q \/ k = Len(q) + 1
  BY <1>1
<1>4. ASSUME op.item # i PROVE ItemInv(p, st, row, i)
  BY <1>1, <1>2, <1>3, <1>4 DEF ItemInv, Single
<1>5. ASSUME op.item = i, i \notin ItemsOf(q), Basis(op, row)
      PROVE  ItemInv(p, Mirror(op), row, i)
  <2>1. \A k \in DOMAIN p : p[k].item = i => k = Len(q) + 1
    BY <1>1, <1>3, <1>5 DEF ItemsOf
  <2>2. Shows(op, Mirror(op), row)
    BY OpFields DEF Shows, Mirror
  <2>3. i \in ItemsOf(p)
    BY <1>2, <1>5
  <2> QED
    BY <1>1, <1>5, <2>1, <2>2, <2>3 DEF ItemInv, Single
<1> QED
  BY <1>4, <1>5 DEF p

LEMMA OpPopped ==
  ASSUME NEW q \in Seq(Op), q # <<>>, NEW st, NEW row, NEW i, ItemInv(q, st, row, i)
  PROVE  /\ Head(q).item # i => ItemInv(Tail(q), st, row, i)
         /\ \A new, other : Head(q).item = i /\ Known(new, other)
              => ItemInv(Tail(q), new, other, i)
         /\ Head(q).item = i => \A k \in DOMAIN q : q[k].item = i => q[k] = Head(q)
         /\ Head(q).item = i => Basis(Head(q), row) /\ Shows(Head(q), st, row)
<1> DEFINE t == Tail(q)
<1>1. /\ q[1] = Head(q) /\ Len(q) \in Nat /\ Len(q) > 0
      /\ DOMAIN q = 1..Len(q) /\ DOMAIN t = 1..(Len(q) - 1)
      /\ \A k \in 1..(Len(q) - 1) : t[k] = q[k + 1]
  OBVIOUS
<1> HIDE DEF t
<1>2. /\ 1 \in DOMAIN q
      /\ \A k \in DOMAIN t : k \in Nat /\ k + 1 \in DOMAIN q /\ t[k] = q[k + 1] /\ k + 1 # 1
      /\ \A k \in DOMAIN q : k = 1 \/ (k - 1 \in DOMAIN t /\ t[k - 1] = q[k])
  BY <1>1
<1>3. ASSUME Head(q).item # i PROVE ItemInv(t, st, row, i)
  <2>1. i \notin ItemsOf(t) => i \notin ItemsOf(q)
    BY <1>1, <1>2, <1>3 DEF ItemsOf
  <2>2. Single(t, i)
    <3>1. ASSUME NEW j \in DOMAIN t, NEW k \in DOMAIN t, t[j].item = i, t[k].item = i PROVE j = k
      <4>1. Single(q, i)
        BY DEF ItemInv
      <4>2. /\ j + 1 \in DOMAIN q /\ k + 1 \in DOMAIN q
            /\ q[j + 1].item = i /\ q[k + 1].item = i
        BY <1>2, <3>1
      <4>3. j + 1 = k + 1
        BY <4>1, <4>2 DEF Single
      <4> QED
        BY <1>2, <4>3
    <3> QED
      BY <3>1 DEF Single
  <2> QED
    BY <1>2, <2>1, <2>2 DEF ItemInv
<1>4. ASSUME Head(q).item = i PROVE i \notin ItemsOf(t)
  BY <1>1, <1>2, <1>4 DEF ItemInv, Single, ItemsOf
<1>5. ASSUME NEW new, NEW other, Head(q).item = i, Known(new, other)
      PROVE  ItemInv(t, new, other, i)
  BY <1>4, <1>5 DEF ItemInv, Single, ItemsOf
<1>6. ASSUME Head(q).item = i
      PROVE  /\ \A k \in DOMAIN q : q[k].item = i => q[k] = Head(q)
             /\ Basis(Head(q), row) /\ Shows(Head(q), st, row)
  BY <1>1, <1>2, <1>6 DEF ItemInv, Single
<1> QED
  BY <1>3, <1>5, <1>6 DEF t

\* The replica is emptied, or adopts the row of an item that is not pending.
LEMMA ItemPulled ==
  ASSUME NEW q, NEW st, NEW row \in Row, NEW i, ItemInv(q, st, row, i), NEW new,
         new = st \/ new = NoStored \/ (i \notin ItemsOf(q) /\ new = FromRow(row))
  PROVE  ItemInv(q, new, row, i)
<1>1. CASE new = NoStored
  BY <1>1 DEF ItemInv, Shows, Known, NoStored
<1>2. CASE i \notin ItemsOf(q) /\ new = FromRow(row)
  <2>1. new.revision = row.revision /\ new.content = row.content
    BY <1>2 DEF FromRow
  <2>2. Known(new, row)
    BY <2>1, RowFields DEF Known
  <2>3. \A k \in DOMAIN q : q[k].item # i
    BY <1>2 DEF ItemsOf
  <2> QED
    BY <1>2, <2>2, <2>3 DEF ItemInv
<1> QED
  BY <1>1, <1>2

\* Its one op stays, after the server has answered it.
LEMMA ItemAnswered ==
  ASSUME NEW q, NEW st, NEW row, NEW i, ItemInv(q, st, row, i), NEW new, NEW other, NEW op,
         i \in ItemsOf(q), \A k \in DOMAIN q : q[k].item = i => q[k] = op,
         Basis(op, other), Shows(op, new, other)
  PROVE  ItemInv(q, new, other, i)
BY DEF ItemInv

\* The server has accepted the op in front: the device dies before it has noted
\* the revision, after it, or after the op has left the queue.
LEMMA ItemAccepted ==
  ASSUME NEW q \in Seq(Op), q # <<>>, NEW st \in Stored, NEW row, NEW other \in Row, NEW i,
         ItemInv(q, st, row, i), Head(q).item = i, Basis(Head(q), other),
         st.revision > 0 =>
           /\ st.content = other.content
           /\ IF Head(q).kind = "delete" THEN st.content = NoContent
              ELSE st.content = Head(q).content,
         NEW new, new = st \/ new = [st EXCEPT !.revision = other.revision],
         st.revision = 0 => new = st
  PROVE  /\ ItemInv(q, new, other, i)
         /\ (st.revision > 0 => new.revision = other.revision) => ItemInv(Tail(q), new, other, i)
<1>1. /\ \A k \in DOMAIN q : q[k].item = i => q[k] = Head(q)
      /\ \A a, b : Known(a, b) => ItemInv(Tail(q), a, b, i)
  BY OpPopped
<1>2. i \in ItemsOf(q)
  BY Popped
<1>3. st.revision \in Nat
  BY StoredFields
<1>4. new.content = st.content
  <2>1. [st EXCEPT !.revision = other.revision].content = st.content
    <3>1. CASE st = NoStored
      BY <3>1 DEF NoStored
    <3>2. CASE st \in [revision : Nat \ {0}, deleted : {FALSE}, content : Contents]
      BY <3>2
    <3>3. CASE st \in [revision : Nat \ {0}, deleted : {TRUE}, content : {NoContent}]
      BY <3>3
    <3> QED
      BY <3>1, <3>2, <3>3 DEF Stored
  <2> QED
    BY <2>1
<1>5. CASE st.revision = 0
  <2>1. new.revision = 0
    BY <1>5
  <2>2. Shows(Head(q), new, other) /\ Known(new, other)
    BY <2>1 DEF Shows, Known
  <2> QED
    BY <1>1, <1>2, <2>2, ItemAnswered
<1>6. CASE st.revision > 0
  <2>1. Shows(Head(q), new, other)
    BY <1>4, <1>6 DEF Shows
  <2>2. new.revision = other.revision => Known(new, other)
    <3>1. other.revision \in Nat
      BY RowFields
    <3> QED
      BY <1>4, <1>6, <3>1 DEF Known
  <2> QED
    BY <1>1, <1>2, <1>6, <2>1, <2>2, ItemAnswered
<1> QED
  BY <1>3, <1>5, <1>6

-----------------------------------------------------------------------------
(* The steps of the device itself. *)

SeenStep(d) == \A i \in Items \ Exempt(d)' : EditInv(d, i)'

\* What is known of an item before a step that leaves it unexcepted.
LEMMA SeenBefore ==
  ASSUME SyncInv, SyncTypeOK', SeenInv, [Next]_serverVars, Record,
         NEW d \in Devices, NEW i \in Items \ Exempt(d)'
  PROVE  /\ i \notin Exempt(d) /\ EditInv(d, i)
         /\ Advances(rows[i], rows'[i])
         /\ queue[d] \in Seq(Op) /\ replica[d][i] \in Stored
         /\ rows[i] \in Row /\ rows'[i] \in Row
         /\ ItemInv(queue[d], replica[d][i], rows'[i], i)
<1>1. i \notin purged' /\ i \notin revived'[d] /\ \A e \in Devices : i \notin stacked'[e]
  BY DEF Exempt
<1>2. i \notin purged /\ i \notin revived[d] /\ \A e \in Devices : i \notin stacked[e]
  <2>1. purged \subseteq purged' /\ \A e \in Devices : stacked[e] \subseteq stacked'[e]
    BY DEF Record
  <2> QED
    BY <1>1, <2>1, Recorded
<1>3. i \notin Exempt(d)
  BY <1>2 DEF Exempt
<1>4. EditInv(d, i)
  BY <1>3 DEF SeenInv
<1>5. Advances(rows[i], rows'[i])
  BY <1>1, RowAdvances DEF SyncInv
<1>6. queue[d] \in Seq(Op) /\ replica[d][i] \in Stored /\ rows[i] \in Row /\ rows'[i] \in Row
  BY DEF SyncInv, SyncTypeOK, TypeOK
<1> QED
  BY <1>3, <1>4, <1>5, <1>6, RowAdvanced DEF EditInv

\* Pulls, and a cycle that ends: no op comes or goes.
LEMMA SeenQuiet ==
  ASSUME SyncInv, SyncTypeOK', SeenInv, [Next]_serverVars, Record, NEW d \in Devices,
         queue'[d] = queue[d], phase'[d] # "rejected",
         \A i \in Items : \/ replica'[d][i] \in {replica[d][i], NoStored}
                          \/ i \notin Pending(d) /\ replica'[d][i] = FromRow(rows'[i])
  PROVE  SeenStep(d)
<1>1. ASSUME NEW i \in Items \ Exempt(d)' PROVE EditInv(d, i)'
  <2>1. ItemInv(queue[d], replica[d][i], rows'[i], i) /\ rows'[i] \in Row
    BY SeenBefore
  <2>2. \/ replica'[d][i] = replica[d][i] \/ replica'[d][i] = NoStored
        \/ i \notin ItemsOf(queue[d]) /\ replica'[d][i] = FromRow(rows'[i])
    BY PendingItems
  <2>3. ItemInv(queue[d], replica'[d][i], rows'[i], i)
    BY <2>1, <2>2, ItemPulled
  <2> QED
    BY <2>3 DEF EditInv, Passed
<1> QED
  BY <1>1 DEF SeenStep

LEMMA SeenPulls ==
  ASSUME SyncInv, SyncTypeOK', SeenInv, [Next]_serverVars, Record, NEW d \in Devices,
         Pull(d) \/ PullCut(d) \/ AdvanceCursor(d) \/ TailCut(d) \/ Finish(d) \/ Abandon(d)
  PROVE  SeenStep(d)
<1>1. ServerInv /\ SyncTypeOK
  BY DEF SyncInv
<1>2. queue' = queue
  BY DEF Pull, PullCut, AdvanceCursor, TailCut, Finish, Abandon
<1>3. phase'[d] # "rejected"
  BY <1>1 DEF Pull, PullCut, AdvanceCursor, TailCut, Finish, Abandon, Fail, SyncTypeOK
<1>4. CASE Pull(d) \/ PullCut(d)
  <2>1. ServerMoves
    BY <1>1, <1>4, PurgeMoves DEF Pull, PullCut
  <2>2. UNCHANGED replica \/ \E upto : PullInto(d, upto)
    BY <1>4 DEF Pull, PullCut
  <2>3. \A i \in Items : \/ replica'[d][i] \in {replica[d][i], NoStored}
                         \/ i \notin Pending(d) /\ replica'[d][i] = FromRow(rows'[i])
    BY <1>1, <2>1, <2>2, PulledRows
  <2> QED
    BY <1>2, <1>3, <2>3, SeenQuiet
<1>5. CASE AdvanceCursor(d) \/ TailCut(d)
  <2>1. ServerMoves /\ queue[d] = <<>>
    BY <1>1, <1>5, PurgeMoves DEF AdvanceCursor, TailCut, TailPull
  <2>2. UNCHANGED replica
          \/ \E ids : replica' = [replica EXCEPT ![d] = Overlay(@, rows', ids)]
    BY <1>5 DEF AdvanceCursor, TailCut
  <2>3. \A i \in Items : replica'[d][i] \in {replica[d][i], FromRow(rows'[i])}
    BY <1>1, <2>1, <2>2, TailRows
  <2>4. Pending(d) = {}
    BY <2>1 DEF Pending, Queued
  <2> QED
    BY <1>2, <1>3, <2>3, <2>4, SeenQuiet
<1>6. CASE Finish(d) \/ Abandon(d)
  <2>1. UNCHANGED replica
    BY <1>6 DEF Finish, Abandon
  <2> QED
    BY <1>2, <1>3, <2>1, SeenQuiet
<1> QED
  BY <1>4, <1>5, <1>6

\* A refused op has lost: the row is past the revision it was made on.
LEMMA SeenRejected ==
  ASSUME SyncInv, SyncTypeOK', SeenInv, [Next]_serverVars, Record, NEW d \in Devices,
         PushRejected(d)
  PROVE  SeenStep(d)
<1>1. /\ UNCHANGED <<rows, replica, queue>> /\ queue[d] # <<>> /\ SyncTypeOK
      /\ \/ Front(d).kind = "upsert" /\ Front(d).revision # rows[Front(d).item].revision + 1
         \/ Front(d).kind = "delete" /\ Front(d).revision # rows[Front(d).item].revision
  BY DEF SyncInv, PushRejected, Pushing, PutMatches, DeleteMatches, serverVars
<1>2. ASSUME NEW i \in Items \ Exempt(d)' PROVE EditInv(d, i)'
  <2>1. ItemInv(queue[d], replica[d][i], rows[i], i) /\ queue[d] \in Seq(Op) /\ rows[i] \in Row
    BY SeenBefore DEF EditInv
  <2>2. ASSUME Front(d).item = i PROVE rows[i].revision > Base(Front(d))
    <3>1. Basis(Front(d), rows[i])
      BY <1>1, <2>1, <2>2, OpPopped DEF Front
    <3>2. Front(d) \in Op
      BY <1>1, PopStep
    <3>3. Front(d).revision \in Nat /\ Base(Front(d)) \in Nat /\ rows[i].revision \in Nat
      BY <2>1, <3>2, BaseNat, RowFields
    <3> QED
      BY <1>1, <2>2, <3>1, <3>3 DEF Basis, Base
  <2>3. Front(d)' = Front(d)
    BY <1>1 DEF Front
  <2> QED
    BY <1>1, <2>1, <2>2, <2>3 DEF EditInv, Passed
<1> QED
  BY <1>2 DEF SeenStep

LEMMA StoredBlank ==
  ASSUME NEW st \in Stored, st.revision = 0
  PROVE  st.content = NoContent
<1>1. st = NoStored
  BY DEF Stored
<1> QED
  BY <1>1 DEF NoStored

\* A new op is made on the version the device shows, and that is the one its user
\* saw: on an item that has an op in the queue already, or after another version has
\* come under the open editor, it is stacked.
LEMMA SeenStage ==
  ASSUME SyncInv, SyncTypeOK', SeenInv, [Next]_serverVars, Record, NEW d \in Devices,
         NEW op \in Op, Stage(d, op), UNCHANGED <<rows, phase>>, phase[d] # "rejected",
         (Base(op) = 0 /\ op.seen = NoContent) \/ Base(op) = replica[d][op.item].revision
  PROVE  SeenStep(d)
<1>1. /\ replica \in [Devices -> [Items -> Stored]] /\ queue \in [Devices -> Seq(Op)]
      /\ queue[d] \in Seq(Op) /\ op.item \in Items
  BY OpFields DEF SyncInv, SyncTypeOK
<1>2. /\ queue'[d] = Append(queue[d], op)
      /\ replica'[d][op.item] = Mirror(op)
      /\ \A j \in Items \ {op.item} : replica'[d][j] = replica[d][j]
  BY <1>1 DEF Stage
<1>3. op.item \in Pending(d) \/ op.seen # replica[d][op.item].content
        => op.item \in Exempt(d)'
  <2>1. Len(queue'[d]) > Len(queue[d]) /\ Added(d) = op
    BY <1>1, <1>2 DEF Added
  <2>2. op.item \in Pending(d) \/ op.seen # replica[d][op.item].content
          => op.item \in stacked'[d]
    BY <1>1, <2>1 DEF Record
  <2> QED
    BY <2>2 DEF Exempt
<1>4. ASSUME NEW i \in Items \ Exempt(d)' PROVE EditInv(d, i)'
  <2>1. /\ ItemInv(queue[d], replica[d][i], rows[i], i)
        /\ rows[i] \in Row /\ replica[d][i] \in Stored
    BY <1>4, SeenBefore DEF EditInv
  <2>2. CASE i # op.item
    <3>1. ItemInv(Append(queue[d], op), replica[d][i], rows[i], i)
      BY <1>1, <2>1, <2>2, OpAppended
    <3> QED
      BY <1>2, <2>2, <3>1 DEF EditInv, Passed
  <2>3. CASE i = op.item
    <3>1. i \notin ItemsOf(queue[d])
      BY <1>3, <1>4, <2>3, PendingItems
    <3>2. Known(replica[d][i], rows[i])
      BY <2>1, <3>1 DEF ItemInv
    <3>3. rows[i].revision \in Nat /\ (rows[i].revision = 0 => rows[i].content = NoContent)
      BY <2>1, RowFields, WrittenRow DEF Row, NoRow
    <3>4. Basis(op, rows[i])
      <4>1. op.seen = replica[d][i].content
        BY <1>3, <1>4, <2>3
      <4>2. replica[d][i].revision = 0 => replica[d][i].content = NoContent
        BY <2>1, StoredBlank
      <4>3. replica[d][i].revision \in Nat
        BY <2>1, StoredFields
      <4> QED
        BY <2>3, <3>2, <3>3, <4>1, <4>2, <4>3 DEF Basis, Known
    <3>5. ItemInv(Append(queue[d], op), Mirror(op), rows[i], i)
      BY <1>1, <2>1, <2>3, <3>1, <3>4, OpAppended
    <3> QED
      BY <1>2, <2>3, <3>5 DEF EditInv, Passed
  <2> QED
    BY <2>2, <2>3
<1> QED
  BY <1>4 DEF SeenStep

LEMMA SeenEdits ==
  ASSUME SyncInv, SyncTypeOK', SeenInv, [Next]_serverVars, Record, NEW d \in Devices,
         Edits(d) \/ \E op \in report[d], i \in Items : StageCopy(d, op, i)
  PROVE  SeenStep(d)
<1>1. /\ replica \in [Devices -> [Items -> Stored]] /\ report \in [Devices -> SUBSET Op]
      /\ queue \in [Devices -> Seq(Op)]
      /\ editor \in [Devices -> [Items -> Contents \cup {NoContent}]]
  BY DEF SyncInv, SyncTypeOK
<1>2. \A i \in Items : /\ replica[d][i].revision \in Nat
                       /\ editor[d][i] \in Contents \cup {NoContent}
  BY <1>1, StoredFields
<1>3. ASSUME NEW i \in Items, NEW c \in Contents, SaveItem(d, i, c) PROVE SeenStep(d)
  <2> DEFINE op == [kind |-> "upsert", item |-> i, content |-> c,
                    revision |-> replica[d][i].revision + 1, seen |-> editor[d][i]]
  <2>1. replica[d][i].revision + 1 \in Nat /\ replica[d][i].revision + 1 > 0
    BY <1>2
  <2>2. op \in Op
    BY <1>2, <2>1, UpsertOp
  <2>3. Stage(d, op) /\ UNCHANGED <<rows, phase>> /\ phase[d] # "rejected"
    BY <1>3 DEF SaveItem, Edit, serverVars
  <2>4. Base(op) = replica[d][i].revision /\ op.item = i
    BY <1>2 DEF Base
  <2> HIDE DEF op
  <2> QED
    BY <2>2, <2>3, <2>4, SeenStage
<1>4. ASSUME NEW i \in Items, RemoveItem(d, i) PROVE SeenStep(d)
  <2> DEFINE op == [kind |-> "delete", item |-> i, content |-> NoContent,
                    revision |-> replica[d][i].revision, seen |-> editor[d][i]]
  <2>1. replica[d][i].revision > 0
    BY <1>4 DEF RemoveItem, Held
  <2>2. op \in Op
    BY <1>2, <2>1, DeleteOp
  <2>3. Stage(d, op) /\ UNCHANGED <<rows, phase>> /\ phase[d] # "rejected"
    BY <1>4 DEF RemoveItem, Edit, serverVars
  <2>4. Base(op) = replica[d][i].revision /\ op.item = i
    BY DEF Base
  <2> HIDE DEF op
  <2> QED
    BY <2>2, <2>3, <2>4, SeenStage
<1>5. ASSUME NEW lost \in report[d], NEW i \in Items, StageCopy(d, lost, i) PROVE SeenStep(d)
  <2> DEFINE op == [kind |-> "upsert", item |-> i, content |-> lost.content,
                    revision |-> 1, seen |-> NoContent]
  <2>1. lost \in Op /\ lost.kind = "upsert"
    BY <1>1, <1>5 DEF StageCopy
  <2>2. lost.content \in Contents
    BY <2>1, OpFields
  <2>3. op \in Op
    BY <2>2, UpsertOp
  <2>4. Stage(d, op) /\ UNCHANGED <<rows, phase>> /\ phase[d] # "rejected"
    BY <1>5 DEF StageCopy, serverVars
  <2>5. Base(op) = 0 /\ op.seen = NoContent
    BY DEF Base
  <2> HIDE DEF op
  <2> QED
    BY <2>3, <2>4, <2>5, SeenStage
<1>6. CASE Opens(d)
  BY <1>6, OpensQuietly, SeenQuiet DEF deviceVars
<1> QED
  BY <1>3, <1>4, <1>5, <1>6, EditCases DEF Saves

\* An accepted op was made on the version it replaced: the device that notes the
\* revision shows what the row now holds.
LEMMA SeenAccepted ==
  ASSUME SyncInv, SyncTypeOK', SeenInv, [Next]_serverVars, Record, NEW d \in Devices,
         Pushing(d), NEW r \in Nat, r > 0, Accepted(d, r),
         rows'[Front(d).item].revision = r,
         IF Front(d).kind = "delete"
           THEN rows'[Front(d).item].content = NoContent
           ELSE /\ rows'[Front(d).item].content = Front(d).content
                /\ rows[Front(d).item].revision = Base(Front(d)),
         Front(d).item \notin Exempt(d)' => Basis(Front(d), rows'[Front(d).item])
  PROVE  SeenStep(d)
<1>1. /\ replica \in [Devices -> [Items -> Stored]] /\ queue \in [Devices -> Seq(Op)]
      /\ queue[d] \in Seq(Op) /\ queue[d] # <<>> /\ phase[d] = "push" /\ SyncTypeOK
  BY DEF SyncInv, SyncTypeOK, Pushing
<1> PICK f \in Items : f = Front(d).item
  BY <1>1, PopStep
<1>2. Front(d) \in Op /\ Front(d) = Head(queue[d])
  BY <1>1, PopStep DEF Front
<1>3. NoteRevision(d, r) \/ (UNCHANGED replica /\ UNCHANGED queue)
  BY DEF Accepted
<1>4. /\ queue'[d] = queue[d] \/ queue'[d] = Tail(queue[d])
      /\ phase'[d] # "rejected"
  <2>1. CASE Pop(d) /\ UNCHANGED phase
    BY <1>1, <2>1 DEF Pop
  <2>2. CASE UNCHANGED queue /\ Fail(d)
    BY <1>1, <2>2 DEF Fail, SyncTypeOK
  <2> QED
    BY <2>1, <2>2 DEF Accepted
<1>5. \A j \in Items \ {f} : replica'[d][j] = replica[d][j]
  BY <1>1, <1>2, <1>3, NoteStep
<1>6. ASSUME NEW i \in Items \ Exempt(d)', i # f PROVE EditInv(d, i)'
  <2>1. ItemInv(queue[d], replica[d][i], rows'[i], i)
    BY <1>6, SeenBefore
  <2>2. ItemInv(Tail(queue[d]), replica[d][i], rows'[i], i)
    BY <1>1, <1>2, <1>6, <2>1, OpPopped
  <2>3. replica'[d][i] = replica[d][i]
    BY <1>5, <1>6
  <2> QED
    BY <1>4, <2>1, <2>2, <2>3 DEF EditInv, Passed
<1>7. ASSUME f \notin Exempt(d)' PROVE EditInv(d, f)'
  <2> DEFINE st == replica[d][f]
             new == replica'[d][f]
  <2>1. /\ ItemInv(queue[d], st, rows[f], f) /\ rows[f] \in Row /\ rows'[f] \in Row
        /\ st \in Stored
    BY <1>2, <1>7, SeenBefore DEF EditInv
  <2>2. Shows(Front(d), st, rows[f])
    BY <1>1, <1>2, <2>1, OpPopped
  <2>3. st.revision > 0 =>
          /\ st.content = rows'[f].content
          /\ IF Front(d).kind = "delete" THEN st.content = NoContent
             ELSE st.content = Front(d).content
    <3>1. Base(Front(d)) \in Nat
      BY <1>2, BaseNat
    <3> QED
      BY <2>2, <3>1 DEF Shows
  <2>4. \/ new = st /\ (st.revision > 0 => queue'[d] = queue[d])
        \/ st.revision > 0 /\ new = [st EXCEPT !.revision = r]
    <3>1. CASE NoteRevision(d, r) /\ Held(d, f)
      <4>1. replica' = [replica EXCEPT ![d][f].revision = r] /\ st.revision > 0
        BY <3>1 DEF NoteRevision, Held
      <4>2. replica'[d][f] = [replica[d][f] EXCEPT !.revision = r]
        BY <1>1, <1>2, <4>1
      <4> QED
        BY <4>1, <4>2
    <3>2. CASE NoteRevision(d, r) /\ ~Held(d, f)
      BY <3>2 DEF NoteRevision, Held
    <3>3. CASE UNCHANGED replica /\ UNCHANGED queue
      BY <3>3
    <3> QED
      BY <1>3, <3>1, <3>2, <3>3
  <2>5. st.revision \in Nat /\ rows'[f].revision = r
    BY <2>1, StoredFields
  <2>6. (st.revision > 0 /\ new = [st EXCEPT !.revision = r]) => new.revision = r
    BY <2>1, Renumbered
  <2> HIDE DEF st, new
  <2>7. /\ ItemInv(queue[d], new, rows'[f], f)
        /\ (st.revision > 0 => new.revision = r) => ItemInv(Tail(queue[d]), new, rows'[f], f)
    <3>1. new = st \/ new = [st EXCEPT !.revision = rows'[f].revision]
      BY <2>4, <2>5
    <3>2. st.revision = 0 => new = st
      BY <2>4
    <3>3. Head(queue[d]).item = f /\ Basis(Head(queue[d]), rows'[f])
      BY <1>2, <1>7
    <3>4. st.revision > 0 =>
            /\ st.content = rows'[f].content
            /\ IF Head(queue[d]).kind = "delete" THEN st.content = NoContent
               ELSE st.content = Head(queue[d]).content
      BY <1>2, <2>3
    <3> QED
      BY <1>1, <2>1, <2>5, <3>1, <3>2, <3>3, <3>4, ItemAccepted
  <2>8. \/ queue'[d] = queue[d]
        \/ queue'[d] = Tail(queue[d]) /\ (st.revision > 0 => new.revision = r)
    BY <1>4, <2>4, <2>6
  <2>9. ItemInv(queue'[d], new, rows'[f], f)
    BY <2>7, <2>8
  <2> QED
    BY <1>4, <2>9 DEF EditInv, Passed, new
<1> QED
  BY <1>6, <1>7 DEF SeenStep

LEMMA SeenPushes ==
  ASSUME SyncInv, SyncTypeOK', SeenInv, [Next]_serverVars, Record, NEW d \in Devices,
         PushUpsert(d) \/ PushDelete(d) \/ PushDeleteAgain(d)
  PROVE  SeenStep(d)
<1> DEFINE f == Front(d).item
<1>1. ServerInv /\ SyncTypeOK /\ TypeOK /\ Pushing(d) /\ queue[d] # <<>>
      /\ rows \in [Items -> Row]
  BY DEF SyncInv, ServerInv, TypeOK, PushUpsert, PushDelete, PushDeleteAgain, Pushing
<1>2. Front(d) \in Op /\ f \in Items
  BY <1>1, PopStep
<1>3. /\ Front(d).revision \in Nat /\ Front(d).revision > 0
      /\ Front(d).kind = "upsert" => Front(d).content \in Contents
      /\ rows[f] \in Row /\ rows[f].revision \in Nat
  BY <1>1, <1>2, OpFields, RowFields
<1>4. CASE PushUpsert(d)
  <2>1. /\ PutItem(f, Front(d).revision, Front(d).content) /\ Front(d).kind = "upsert"
        /\ Accepted(d, Front(d).revision) /\ Front(d).revision = rows[f].revision + 1
    BY <1>4 DEF PushUpsert, PutItem, PutMatches
  <2>2. rows' = [rows EXCEPT ![f] = [revision |-> Front(d).revision, seq |-> sync_seq + 1,
                                     deleted |-> FALSE, content |-> Front(d).content]]
    BY <1>1, <1>2, <1>3, <2>1, PutMoves
  <2>3. rows'[f].revision = Front(d).revision /\ rows'[f].content = Front(d).content
    BY <1>1, <1>2, <2>2
  <2>4. Base(Front(d)) = rows[f].revision /\ Basis(Front(d), rows'[f])
    BY <1>3, <2>1, <2>3 DEF Base, Basis
  <2> QED
    BY <1>1, <1>3, <2>1, <2>3, <2>4, SeenAccepted
<1>5. CASE PushDelete(d)
  <2>1. /\ DeleteItem(f, Front(d).revision) /\ Front(d).kind = "delete"
        /\ Accepted(d, Front(d).revision + 1) /\ Front(d).revision = rows[f].revision
        /\ sync_seq < MaxSeq
    BY <1>5 DEF PushDelete, DeleteItem, DeleteMatches, WriteRow
  <2>2. rows' = [rows EXCEPT ![f] = [revision |-> rows[f].revision + 1, seq |-> sync_seq + 1,
                                     deleted |-> TRUE, content |-> NoContent]]
    BY <2>1 DEF DeleteItem, WriteRow, next_seq
  <2>3. rows'[f].revision = Front(d).revision + 1 /\ rows'[f].content = NoContent
    BY <1>1, <1>2, <2>1, <2>2
  <2>4. Base(Front(d)) = rows[f].revision /\ Basis(Front(d), rows'[f])
    BY <1>3, <2>1, <2>3 DEF Base, Basis
  <2>5. Front(d).revision + 1 \in Nat /\ Front(d).revision + 1 > 0
    BY <1>3
  <2> QED
    BY <1>1, <2>1, <2>3, <2>4, <2>5, SeenAccepted
<1>6. CASE PushDeleteAgain(d)
  <2>1. /\ rows[f].deleted /\ rows' = rows /\ Front(d).kind = "delete"
        /\ Accepted(d, rows[f].revision)
    BY <1>6 DEF PushDeleteAgain, serverVars
  <2>2. rows[f] \in Tombstone
    <3>1. (\A row \in LiveRow : row.deleted = FALSE) /\ NoRow.deleted = FALSE
      <4>1. \A row \in LiveRow : row.deleted \in {FALSE}
        BY DEF LiveRow
      <4>2. NoRow.deleted = FALSE
        BY DEF NoRow
      <4> QED
        BY <4>1, <4>2
    <3>2. rows[f].deleted # FALSE
      BY <2>1
    <3> QED
      BY <1>3, <3>1, <3>2 DEF Row
  <2>3. rows[f].revision > 0 /\ rows[f].content = NoContent
    BY <2>2, WrittenRow DEF Tombstone
  <2>4. ASSUME f \notin Exempt(d)' PROVE Basis(Front(d), rows'[f])
    <3>1. ItemInv(queue[d], replica[d][f], rows[f], f) /\ queue[d] \in Seq(Op)
      BY <1>2, <2>4, SeenBefore DEF EditInv
    <3> QED
      BY <1>1, <2>1, <3>1, OpPopped DEF Front
  <2> QED
    BY <1>1, <1>3, <2>1, <2>3, <2>4, SeenAccepted
<1> QED
  BY <1>4, <1>5, <1>6

\* The server wins: the row is adopted, since it is past the op; when the op is a
\* delete that stays in the queue, the item is excepted from now on.
LEMMA SeenConflicts ==
  ASSUME SyncInv, SyncTypeOK', SeenInv, [Next]_serverVars, Record, NEW d \in Devices,
         MergeConflict(d) \/ PushNotFound(d)
  PROVE  SeenStep(d)
<1>1. /\ ServerInv /\ SyncTypeOK /\ ServerWins(d) /\ queue[d] # <<>>
      /\ queue \in [Devices -> Seq(Op)] /\ queue[d] \in Seq(Op)
      /\ replica \in [Devices -> [Items -> Stored]]
      /\ phase[d] = "rejected" \/ (Front(d).kind = "delete" /\ ~Exists(Front(d).item))
  BY DEF SyncInv, SyncTypeOK, DeviceInv, MergeConflict, PushNotFound, Pushing
<1> PICK f \in Items : f = Front(d).item
  BY <1>1, PopStep
<1>2. Front(d) \in Op /\ Front(d) = Head(queue[d])
  BY <1>1, PopStep DEF Front
<1>3. rows' = rows /\ \A j \in Items \ {f} : replica'[d][j] = replica[d][j]
  BY <1>1, <1>2, AdoptStep DEF ServerWins, serverVars
<1>4. /\ queue'[d] = queue[d] \/ queue'[d] = Tail(queue[d])
      /\ phase'[d] # "rejected"
  <2>1. CASE Pop(d) /\ phase' = [phase EXCEPT ![d] = "push"]
    BY <1>1, <2>1 DEF Pop, SyncTypeOK
  <2>2. CASE UNCHANGED queue /\ Fail(d)
    BY <1>1, <2>2 DEF Fail, SyncTypeOK
  <2> QED
    BY <1>1, <2>1, <2>2 DEF ServerWins
<1>5. ASSUME NEW i \in Items \ Exempt(d)', i # f PROVE EditInv(d, i)'
  <2>1. ItemInv(queue[d], replica[d][i], rows'[i], i)
    BY <1>5, SeenBefore
  <2>2. ItemInv(Tail(queue[d]), replica[d][i], rows'[i], i)
    BY <1>1, <1>2, <1>5, <2>1, OpPopped
  <2>3. replica'[d][i] = replica[d][i]
    BY <1>3, <1>5
  <2> QED
    BY <1>4, <2>1, <2>2, <2>3 DEF EditInv, Passed
<1>6. ASSUME f \notin Exempt(d)' PROVE EditInv(d, f)'
  <2> DEFINE op == Front(d)
  <2>1. /\ EditInv(d, f) /\ ItemInv(queue[d], replica[d][f], rows[f], f) /\ rows[f] \in Row
        /\ f \notin revived'[d]
    BY <1>2, <1>6, SeenBefore DEF EditInv, Exempt
  <2>2. /\ Basis(op, rows[f]) /\ Shows(op, replica[d][f], rows[f])
        /\ \A k \in DOMAIN queue[d] : queue[d][k].item = f => queue[d][k] = op
        /\ \A new, other : Known(new, other) => ItemInv(Tail(queue[d]), new, other, f)
    BY <1>1, <1>2, <2>1, OpPopped
  <2>3. /\ Base(op) \in Nat /\ op.revision \in Nat /\ op.revision > 0
        /\ rows[f].revision \in Nat /\ op.kind \in {"upsert", "delete"}
    BY <1>2, <2>1, BaseNat, OpFields, RowFields
  <2>4. phase[d] = "rejected"
    <3>1. ASSUME op.kind = "delete", ~Exists(f) PROVE FALSE
      BY <2>2, <2>3, <3>1 DEF Basis, Base, Exists
    <3> QED
      BY <1>1, <3>1
  <2>5. rows[f].revision > Base(op) /\ Exists(f)
    BY <2>1, <2>3, <2>4 DEF EditInv, Passed, Exists
  <2>6. replica'[d][f] = FromRow(rows[f])
    BY <1>1, <1>2, <2>5 DEF ServerWins
  <2>7. Known(replica'[d][f], rows[f])
    BY <2>3, <2>6 DEF Known, FromRow
  <2>8. CASE queue'[d] = Tail(queue[d])
    BY <1>3, <1>4, <2>2, <2>7, <2>8 DEF EditInv, Passed
  <2>9. CASE queue'[d] = queue[d]
    <3>1. Shows(op, replica'[d][f], rows[f])
      <4>1. CASE op.kind = "upsert"
        BY <2>5, <4>1 DEF Shows
      <4>2. CASE op.kind = "delete"
        <5>1. 1 \in DOMAIN queue'[d] /\ queue'[d][1] = op
          BY <1>1, <1>2, <2>9
        <5>2. DeleteQueued(queue'[d], f)
          BY <4>2, <5>1 DEF DeleteQueued
        <5>3. replica'[d][f] = replica[d][f]
          BY <1>2, <2>1, <2>4, <5>2, Recorded
        <5> QED
          BY <2>2, <5>3
      <4> QED
        BY <2>3, <4>1, <4>2
    <3>2. f \in ItemsOf(queue[d])
      BY <1>1, <1>2, Popped
    <3>3. ItemInv(queue[d], replica'[d][f], rows[f], f)
      BY <2>1, <2>2, <3>1, <3>2, ItemAnswered
    <3> QED
      BY <1>3, <1>4, <2>9, <3>3 DEF EditInv, Passed
  <2> QED
    BY <1>4, <2>8, <2>9
<1> QED
  BY <1>5, <1>6 DEF SeenStep

-----------------------------------------------------------------------------
LEMMA SeenSteps == SyncInv /\ SeenInv /\ [SyncNext]_vars => SeenInv'
<1>1. ASSUME SyncInv, SeenInv, SyncNext PROVE SeenInv'
  <2>1. PICK d \in Devices : Edits(d) \/ SyncStep(d) \/ Failures(d)
    BY <1>1 DEF SyncNext
  <2>2. Record /\ SyncTypeOK' /\ [Next]_serverVars
    BY <1>1, SyncSteps DEF SyncNext, SyncInv
  <2>3. SeenStep(d)
    BY <1>1, <2>1, <2>2, SeenEdits, SeenPulls, SeenRejected, SeenPushes, SeenConflicts
       DEF SyncStep, Failures
  <2>4. ASSUME NEW e \in Devices \ {d}, NEW i \in Items \ Exempt(e)' PROVE EditInv(e, i)'
    <3>1. /\ queue'[e] = queue[e] /\ replica'[e] = replica[e] /\ phase'[e] = phase[e]
      BY <1>1, <2>1, <2>2, DeviceSteps DEF StepOK, OthersKept
    <3>2. /\ EditInv(e, i) /\ Advances(rows[i], rows'[i])
          /\ rows[i] \in Row /\ rows'[i] \in Row
          /\ ItemInv(queue[e], replica[e][i], rows'[i], i)
      BY <1>1, <2>2, <2>4, SeenBefore
    <3>3. Front(e)' = Front(e)
      BY <3>1 DEF Front
    <3>4. ASSUME phase[e] = "rejected", Front(e).item = i
          PROVE  rows'[i].revision > Base(Front(e))
      <4>1. rows[i].revision > Base(Front(e))
        BY <3>2, <3>4 DEF EditInv, Passed
      <4>2. Front(e) \in Op
        BY <1>1, <3>4, PopStep DEF SyncInv, DeviceInv
      <4>3. Base(Front(e)) \in Nat /\ rows[i].revision \in Nat /\ rows'[i].revision \in Nat
        BY <3>2, <4>2, BaseNat, RowFields
      <4> QED
        BY <3>2, <4>1, <4>3 DEF Advances
    <3> QED
      BY <3>1, <3>2, <3>3, <3>4 DEF EditInv, Passed
  <2> QED
    BY <2>3, <2>4 DEF SeenInv, SeenStep
<1>2. ASSUME SeenInv, UNCHANGED vars PROVE SeenInv'
  <2>1. UNCHANGED <<rows, replica, queue, phase, purged, revived, stacked>>
    BY <1>2 DEF vars, serverVars, deviceVars, historyVars
  <2> QED
    BY <1>2, <2>1 DEF SeenInv, Exempt, EditInv, Passed, Front
<1> QED
  BY <1>1, <1>2

LEMMA SyncInitSeen == SyncInit => SeenInv
<1>1. ASSUME SyncInit, NEW d \in Devices, NEW i \in Items PROVE EditInv(d, i)
  <2>1. /\ queue[d] = <<>> /\ replica[d][i] = NoStored /\ phase[d] = "idle"
    BY <1>1 DEF SyncInit
  <2>2. NoStored.revision = 0
    BY DEF NoStored
  <2> QED
    BY <2>1, <2>2 DEF EditInv, ItemInv, Single, Known, Passed
<1> QED
  BY <1>1 DEF SeenInv

\* What SingleEditsReplaceSeen says of a step.
SinglesReplaceSeen ==
  \A d \in Devices :
    /\ Pushing(d)
    /\ Front(d).item \notin
         purged \cup revived[d] \cup UNION {stacked[e] : e \in Devices}
    => ReplacesSeen(d)

LEMMA PushSeen ==
  ASSUME SyncInv, SeenInv, NEW d \in Devices, Pushing(d), Front(d).item \notin Exempt(d),
         PushUpsert(d) \/ PushDelete(d)
  PROVE  rows[Front(d).item].content = Front(d).seen
<1>1. SyncTypeOK /\ queue[d] # <<>> /\ queue[d] \in Seq(Op)
  BY DEF SyncInv, SyncTypeOK, Pushing
<1>2. Front(d) \in Op /\ Front(d).item \in Items /\ Front(d) = Head(queue[d])
  BY <1>1, PopStep DEF Front
<1>3. Basis(Front(d), rows[Front(d).item])
  <2>1. ItemInv(queue[d], replica[d][Front(d).item], rows[Front(d).item], Front(d).item)
    BY <1>2 DEF SeenInv, EditInv
  <2> QED
    BY <1>1, <1>2, <2>1, OpPopped
<1>4. rows[Front(d).item].revision \in Nat
  BY <1>2, RowsTyped DEF SyncInv
<1>5. rows[Front(d).item].revision = Base(Front(d))
  BY <1>4 DEF PushUpsert, PushDelete, PutItem, PutMatches, DeleteItem, DeleteMatches,
                    Base
<1> QED
  BY <1>3, <1>5 DEF Basis

\* Optimistic concurrency for one edit at a time (engine.rs: push_pending, apply;
\* routes/items.rs: put_item, delete_item): an accepted edit replaces the version the
\* editor showed its user when it was opened (lib.rs: get_item), whatever was
\* interrupted, lost or retried in between.  The excepted items are those edited
\* twice between two syncs, or from an editor under which a sync had brought another
\* version; those purged; and those adopted anew with a delete of them queued.
THEOREM SingleEditsSeen == SyncSpec => SingleEditsReplaceSeen
<1>1. SyncSpec => []SeenInv
  BY SyncInitSeen, SeenSteps, SyncInvariant, PTL DEF SyncSpec
<1>2. SyncInv /\ SeenInv /\ [SyncNext]_vars => [SinglesReplaceSeen]_vars
  BY PushSeen DEF SinglesReplaceSeen, ReplacesSeen, Exempt
<1> QED
  BY <1>1, <1>2, SyncInvariant, PTL DEF SyncSpec, SingleEditsReplaceSeen, SinglesReplaceSeen

-----------------------------------------------------------------------------
(* The rollback guard: the same steps between the guard's own, and           *)
(* disasters.                                                                *)

\* What a step of device d leaves alone.
Elsewhere(d) ==
  \A e \in Devices \ {d} :
    /\ queue'[e] = queue[e] /\ last_seq'[e] = last_seq[e]
    /\ phase'[e] = phase[e] /\ pulled'[e] = pulled[e]

KeepsCursor(d) ==
  /\ last_seq'[d] = last_seq[d] /\ pulled'[d] = pulled[d]
  /\ Pushes(d)' => Pushes(d)
  /\ phase'[d] = "rejected" => queue'[d] # <<>>

TakesSeq(d) ==
  /\ last_seq'[d] = last_seq[d] /\ pulled'[d] = sync_seq
  /\ last_seq[d] <= sync_seq /\ phase'[d] = "push"

MovesCursor(d) ==
  /\ phase[d] = "push" /\ phase'[d] = "done"
  /\ pulled'[d] = pulled[d] /\ pulled[d] <= sync_seq
  /\ last_seq'[d] \in {pulled[d], sync_seq}

LEMMA ServerSteps ==
  ASSUME SyncTypeOK, ServerInv, NEW d \in Devices, Edits(d) \/ SyncStep(d) \/ Failures(d)
  PROVE  ServerMoves /\ UNCHANGED checkpoint
<1>1. CASE PushUpsert(d) \/ PushDelete(d)
  <2>1. queue[d] # <<>>
    BY <1>1 DEF PushUpsert, PushDelete, Pushing
  <2>2. Front(d) \in Op /\ Front(d).item \in Items
    BY <2>1, PopStep
  <2>3. Front(d).revision \in Nat /\ (Front(d).kind = "upsert" => Front(d).content \in Contents)
    BY <2>2, OpFields
  <2>4. CASE PushUpsert(d)
    BY <2>2, <2>3, <2>4, PutMoves DEF PushUpsert, PutItem, WriteRow
  <2>5. CASE PushDelete(d)
    BY <2>2, <2>3, <2>5, DeleteMoves DEF PushDelete, DeleteItem, WriteRow
  <2> QED
    BY <1>1, <2>4, <2>5
<1>2. CASE Pull(d) \/ PullCut(d) \/ AdvanceCursor(d) \/ TailCut(d)
  <2>1. \E old \in SUBSET Expirable : Purge(old)
    BY <1>2 DEF Pull, PullCut, AdvanceCursor, TailCut, TailPull
  <2> QED
    BY <2>1, PurgeMoves DEF Purge
<1>3. CASE \/ Opens(d) \/ Saves(d) \/ PushDeleteAgain(d) \/ PushRejected(d) \/ MergeConflict(d)
           \/ PushNotFound(d) \/ Finish(d) \/ Abandon(d)
           \/ \E op \in report[d], i \in Items : StageCopy(d, op, i)
  <2>1. UNCHANGED serverVars
    BY <1>3, OpensQuietly DEF Saves, SaveItem, RemoveItem, Edit, PushDeleteAgain, PushRejected,
       MergeConflict, PushNotFound, ServerWins, Finish, Abandon, StageCopy
  <2> QED
    BY <2>1, ServerQuiet DEF serverVars
<1> QED
  BY <1>1, <1>2, <1>3, EditCases DEF SyncStep, Failures

LEMMA CycleShape ==
  ASSUME SyncTypeOK, ServerInv, NEW d \in Devices, Edits(d) \/ SyncStep(d) \/ Failures(d)
  PROVE  Elsewhere(d) /\ (KeepsCursor(d) \/ TakesSeq(d) \/ MovesCursor(d))
<1>1. /\ queue \in [Devices -> Seq(Op)] /\ last_seq \in [Devices -> Nat]
      /\ pulled \in [Devices -> Nat]
      /\ phase \in [Devices -> {"idle", "push", "rejected", "done"}]
  BY DEF SyncTypeOK
<1>2. CASE Pull(d)
  BY <1>1, <1>2 DEF Pull, Elsewhere, TakesSeq
<1>3. CASE AdvanceCursor(d)
  BY <1>1, <1>3 DEF AdvanceCursor, TailPull, Purge, Elsewhere, MovesCursor
<1>4. CASE Saves(d) \/ \E op \in report[d], i \in Items : StageCopy(d, op, i)
  <2>1. /\ UNCHANGED <<last_seq, pulled, phase>> /\ phase[d] # "rejected"
        /\ \E op \in Op : Stage(d, op)
    BY <1>4, EditStages, CopyStages DEF Edit, StageCopy
  <2>2. \A e \in Devices \ {d} : queue'[e] = queue[e]
    BY <1>1, <2>1 DEF Stage
  <2> QED
    BY <2>1, <2>2 DEF Elsewhere, KeepsCursor, Pushes
<1>5. CASE PushRejected(d)
  BY <1>1, <1>5 DEF PushRejected, Pushing, Elsewhere, KeepsCursor, Pushes
<1>6. CASE Finish(d) \/ Opens(d)
  BY <1>1, <1>6, OpensQuietly DEF Finish, Elsewhere, KeepsCursor, Pushes, deviceVars
<1>7. ASSUME Fail(d), UNCHANGED <<queue, last_seq, pulled>>
      PROVE  Elsewhere(d) /\ KeepsCursor(d)
  BY <1>1, <1>7 DEF Fail, Elsewhere, KeepsCursor, Pushes
<1>8. CASE Failures(d)
  BY <1>7, <1>8 DEF Failures, PullCut, TailCut, Abandon
<1>9. ASSUME Pop(d), UNCHANGED <<last_seq, pulled>>,
             (UNCHANGED phase /\ phase[d] = "push") \/ phase' = [phase EXCEPT ![d] = "push"],
             Pushes(d)
      PROVE  Elsewhere(d) /\ KeepsCursor(d)
  BY <1>1, <1>9 DEF Pop, Elsewhere, KeepsCursor, Pushes
<1>10. CASE PushUpsert(d) \/ PushDelete(d) \/ PushDeleteAgain(d)
  <2>1. phase[d] = "push" /\ UNCHANGED <<last_seq, pulled>>
    BY <1>10 DEF PushUpsert, PushDelete, PushDeleteAgain, Pushing
  <2>2. (Pop(d) /\ UNCHANGED phase) \/ (UNCHANGED queue /\ Fail(d))
    BY <1>10 DEF PushUpsert, PushDelete, PushDeleteAgain, Accepted
  <2> QED
    BY <1>7, <1>9, <2>1, <2>2 DEF Pushes
<1>11. CASE MergeConflict(d) \/ PushNotFound(d)
  <2>1. /\ Pushes(d) /\ UNCHANGED <<last_seq, pulled>>
        /\ (Pop(d) /\ phase' = [phase EXCEPT ![d] = "push"]) \/ (UNCHANGED queue /\ Fail(d))
    BY <1>11 DEF MergeConflict, PushNotFound, Pushing, ServerWins, Pushes
  <2> QED
    BY <1>7, <1>9, <2>1
<1> QED
  BY <1>2, <1>3, <1>4, <1>5, <1>6, <1>8, <1>10, <1>11, EditCases DEF SyncStep

LEMMA EngineStep ==
  ASSUME SyncTypeOK, ServerInv, NEW d \in Devices, phase[d] = "rejected" => queue[d] # <<>>,
         Runs(d), Record
  PROVE  /\ SyncTypeOK' /\ ServerInv' /\ sync_seq <= sync_seq' /\ UNCHANGED checkpoint
         /\ Elsewhere(d) /\ (KeepsCursor(d) \/ TakesSeq(d) \/ MovesCursor(d))
<1>0. Edits(d) \/ SyncStep(d) \/ Failures(d)
  BY DEF Runs
<1>1. StepTypes /\ EditorTypes'
  BY <1>0, TypeStep, EditorStep DEF Runs
<1>2. ServerMoves /\ UNCHANGED checkpoint
  BY <1>0, ServerSteps
<1>3. HistoryTypes'
  BY RecordTypes
<1>4. SyncTypeOK'
  BY <1>1, <1>2, <1>3 DEF StepTypes, ServerMoves, ServerInv, SyncTypeOK, DurableTypes,
     MemoryTypes, CountTypes, HistoryTypes, EditorTypes
<1> QED
  BY <1>0, <1>2, <1>4, CycleShape DEF ServerMoves

\* What ServerInv says, of the server's tables or of a backup of them.
StoreSound(table, top, horizon, point) ==
  /\ table \in [Items -> Row] /\ top \in Nat /\ horizon \in Nat
  /\ point \in [seq : Nat, tag : Tags] \cup {NoCheckpoint}
  /\ \A i \in Items : table[i].seq <= top /\ table[i].revision <= table[i].seq
  /\ horizon <= top

BackupSound ==
  StoreSound(backup.rows, backup.sync_seq, backup.purged_before_seq, backup.checkpoint)

LEMMA StoreMeaning ==
  ServerInv <=> StoreSound(rows, sync_seq, purged_before_seq, checkpoint)
BY DEF ServerInv, TypeOK, TableShape, RevisionsBehind, StoreSound

LEMMA StoreMeaningNext ==
  ServerInv' <=> StoreSound(rows', sync_seq', purged_before_seq', checkpoint')
BY DEF ServerInv, TypeOK, TableShape, RevisionsBehind, StoreSound

LEMMA ServerSound == ServerInv /\ backup' = Server => BackupSound'
<1> SUFFICES ASSUME ServerInv, backup' = Server PROVE BackupSound'
  OBVIOUS
<1>1. /\ backup'.rows = rows /\ backup'.sync_seq = sync_seq
      /\ backup'.purged_before_seq = purged_before_seq /\ backup'.checkpoint = checkpoint
  BY DEF Server
<1> QED
  BY <1>1, StoreMeaning DEF BackupSound

-----------------------------------------------------------------------------
(* The invariant of the guard, whatever befalls the account. *)

Cursors(d) ==
  /\ phase[d] = "rejected" => queue[d] # <<>>
  /\ Pushes(d) => last_seq[d] <= pulled[d]

GuardedInv ==
  /\ GuardedTypeOK /\ ServerInv /\ BackupSound
  /\ \A d \in Devices : Cursors(d)

\* What a step of device d does to the guard and the alarms.
GuardTypes ==
  /\ guard \in [Devices -> {"out", "in", "synced", "published"}]
  /\ verified \in [Devices -> Nat]
  /\ alarm \in [Devices -> Alarms \cup {NoAlarm}]

GuardElsewhere(d) ==
  \A e \in Devices \ {d} :
    guard'[e] = guard[e] /\ verified'[e] = verified[e] /\ alarm'[e] = alarm[e]

\* Steps of device d by what they do to the engine: one of the engine's own (Runs),
\* or nothing but the end of a cycle, or nothing but a checkpoint.

\* The server's tables and counters stay as they are but for a checkpoint.
StoreKept ==
  /\ UNCHANGED <<rows, sync_seq, purged_before_seq>>
  /\ checkpoint' \in [seq : Nat, tag : Tags] \cup {NoCheckpoint}

Halts(d) ==
  /\ UNCHANGED <<replica, queue, last_seq, pulled, editor, minted, edits, committed>>
  /\ \/ UNCHANGED <<phase, report>>
     \/ phase' = [phase EXCEPT ![d] = "idle"] /\ report' = [report EXCEPT ![d] = {}]
  /\ failures' \in 0..MaxFailures
  /\ StoreKept

LEMMA AlarmHalts ==
  ASSUME GuardedInv, NEW d \in Devices, NEW kind \in Alarms, Alarm(d, kind),
         UNCHANGED editor
  PROVE  Halts(d) /\ GuardTypes' /\ GuardElsewhere(d)
BY DEF GuardedInv, GuardedTypeOK, SyncTypeOK, TypeOK, Alarm, Halts, StoreKept, GuardTypes,
   GuardElsewhere, serverVars, countVars

\* A step of device d, without what goes with it.
OwnStep(d) ==
  \/ (GuardedStep(d) \/ PublishLost(d) \/ Interrupt(d)) /\ UNCHANGED editor
  \/ Work(d)

LEMMA OwnSteps ==
  ASSUME GuardedInv, NEW d \in Devices,
         OwnStep(d)
  PROVE  (Runs(d) \/ Halts(d)) /\ GuardTypes' /\ GuardElsewhere(d)
<1> USE DEF GuardedInv, GuardedTypeOK
<1>0. /\ GuardTypes /\ failures \in 0..MaxFailures
      /\ checkpoint \in [seq : Nat, tag : Tags] \cup {NoCheckpoint}
      /\ last_seq[d] \in Nat /\ device_key[d] \in Tags /\ CheckpointSeq \in Nat
  BY DEF GuardTypes, SyncTypeOK, TypeOK, CheckpointSeq
<1>1. CASE /\ \/ VerifyForged(d) \/ VerifyRewound(d) \/ PullRewound(d) \/ TailRewound(d)
              \/ Withheld(d)
           /\ UNCHANGED editor
  BY <1>1, AlarmHalts DEF VerifyForged, VerifyRewound, PullRewound, TailRewound, Withheld, Alarms
<1>2. CASE Verify(d) /\ UNCHANGED editor
  BY <1>0, <1>2 DEF Verify, Halts, StoreKept, GuardTypes, GuardElsewhere, vars, serverVars,
     deviceVars, countVars
<1>3. CASE RunCycle(d) /\ UNCHANGED editor
  BY <1>0, <1>3 DEF RunCycle, Cycle, Runs, SyncStep, GuardTypes, GuardElsewhere
<1>4. CASE EndCycle(d) /\ UNCHANGED editor
  BY <1>0, <1>4 DEF EndCycle, Runs, SyncStep, GuardTypes, GuardElsewhere
<1>5. CASE HandOver(d) /\ UNCHANGED editor
  BY <1>0, <1>5 DEF HandOver, Runs, SyncStep, GuardTypes, GuardElsewhere
<1>6. CASE Interrupt(d) /\ UNCHANGED editor
  BY <1>0, <1>6 DEF Interrupt, Runs, GuardTypes, GuardElsewhere
<1>7. CASE Work(d)
  BY <1>0, <1>7 DEF Work, Runs, GuardTypes, GuardElsewhere, guardVars
<1>8. ASSUME Checked(d) PROVE GuardTypes' /\ GuardElsewhere(d)
  BY <1>0, <1>8 DEF Checked, GuardTypes, GuardElsewhere
<1>9. CASE Publish(d) /\ UNCHANGED editor
  <2>1. StoreKept /\ failures' = failures
    BY <1>0, <1>9 DEF Publish, PutCheckpoint, Vouched, StoreKept, serverVars
  <2> QED
    BY <1>0, <1>8, <1>9, <2>1 DEF Publish, Checked, Halts, deviceVars
<1>10. CASE PublishLost(d) /\ UNCHANGED editor
  <2>1. StoreKept /\ failures' \in 0..MaxFailures
    BY <1>0, <1>10, SyncEngineAssumption DEF PublishLost, StoreKept, serverVars
  <2> QED
    BY <1>8, <1>10, <2>1 DEF PublishLost, Checked, Halts, deviceVars
<1> QED
  BY <1>1, <1>2, <1>3, <1>4, <1>5, <1>6, <1>7, <1>9, <1>10
     DEF OwnStep, GuardedStep

LEMMA HaltKeeps ==
  ASSUME GuardedInv, NEW d \in Devices, Halts(d), Record
  PROVE  /\ SyncTypeOK' /\ ServerInv' /\ UNCHANGED <<sync_seq, last_seq, pulled>>
         /\ Elsewhere(d) /\ KeepsCursor(d)
<1>1. SyncTypeOK /\ ServerInv /\ Cursors(d)
  BY DEF GuardedInv, GuardedTypeOK
<1>2. ServerInv'
  BY <1>1, StoreMeaning, StoreMeaningNext DEF Halts, StoreKept, StoreSound
<1>3. MemoryTypes'
  BY <1>1 DEF SyncTypeOK, MemoryTypes, Halts
<1>4. SyncTypeOK'
  BY <1>1, <1>2, <1>3, RecordTypes
     DEF ServerInv, SyncTypeOK, MemoryTypes, HistoryTypes, Halts
<1>5. Elsewhere(d) /\ KeepsCursor(d)
  BY <1>1 DEF SyncTypeOK, Cursors, Pushes, Halts, Elsewhere, KeepsCursor
<1> QED
  BY <1>2, <1>4, <1>5 DEF Halts, StoreKept

LEMMA OrdinarySteps ==
  ASSUME GuardedInv, NEW d \in Devices, Ordinary(d)
  PROVE  /\ GuardedInv' /\ sync_seq <= sync_seq'
         /\ Elsewhere(d) /\ GuardElsewhere(d)
         /\ \A e \in Devices : last_seq'[e] >= last_seq[e]
<1>1. OwnStep(d) /\ UNCHANGED <<account_key, device_key, backup, disasters>> /\ Record
  BY DEF Ordinary, OwnStep, GuardUnaffected, keyVars, disasterVars
<1>2. /\ SyncTypeOK /\ ServerInv /\ BackupSound /\ \A e \in Devices : Cursors(e)
      /\ sync_seq \in Nat /\ last_seq \in [Devices -> Nat] /\ pulled \in [Devices -> Nat]
  BY DEF GuardedInv, GuardedTypeOK, SyncTypeOK, TypeOK
<1>3. (Runs(d) \/ Halts(d)) /\ GuardTypes' /\ GuardElsewhere(d)
  BY <1>1, OwnSteps
<1>4. /\ SyncTypeOK' /\ ServerInv' /\ sync_seq <= sync_seq' /\ Elsewhere(d)
      /\ KeepsCursor(d) \/ TakesSeq(d) \/ MovesCursor(d)
  BY <1>1, <1>2, <1>3, EngineStep, HaltKeeps DEF Cursors
<1>5. unpublished' \subseteq Devices
  BY <1>1 DEF GuardedInv, GuardedTypeOK, OwnStep, GuardedStep, Verify, VerifyForged,
     VerifyRewound, Alarm, RunCycle, EndCycle, PullRewound, TailRewound, Withheld, Publish,
     HandOver, PublishLost, Interrupt, Work
<1>6. GuardedTypeOK'
  BY <1>1, <1>3, <1>4, <1>5 DEF GuardedInv, GuardedTypeOK, GuardTypes
<1>7. last_seq'[d] >= last_seq[d]
  BY <1>2, <1>4 DEF KeepsCursor, TakesSeq, MovesCursor, Cursors, Pushes
<1>8. Cursors(d)'
  <2>1. /\ Pushes(d)' => last_seq'[d] <= pulled'[d]
        /\ phase'[d] = "rejected" => queue'[d] # <<>>
    BY <1>2, <1>4 DEF KeepsCursor, TakesSeq, MovesCursor, Cursors, Pushes
  <2> QED
    BY <2>1 DEF Cursors
<1>9. ASSUME NEW e \in Devices \ {d} PROVE Cursors(e)' /\ last_seq'[e] >= last_seq[e]
  <2>1. /\ queue'[e] = queue[e] /\ last_seq'[e] = last_seq[e]
        /\ phase'[e] = phase[e] /\ pulled'[e] = pulled[e]
    BY <1>4 DEF Elsewhere
  <2>2. Cursors(e) /\ last_seq[e] \in Nat
    BY <1>2
  <2> QED
    BY <2>1, <2>2 DEF Cursors, Pushes
<1>10. BackupSound'
  BY <1>1, <1>2 DEF BackupSound
<1> QED
  BY <1>3, <1>4, <1>6, <1>7, <1>8, <1>9, <1>10 DEF GuardedInv

LEMMA RecoveredCursors ==
  ASSUME GuardedInv, NEW d \in Devices, Recovered(d), ServerInv',
         account_key' \in Tags, UNCHANGED device_key,
         disasters' \in SUBSET {"restored", "recovered", "wiped"}
  PROVE  GuardedInv'
<1> USE DEF GuardedInv, GuardedTypeOK
<1>1. [i \in Items |-> NoStored] \in [Items -> Stored]
  BY DEF Stored
<1>2. SyncTypeOK'
  BY <1>1 DEF Recovered, CursorAfter, Closed, SyncTypeOK, ServerInv, countVars, historyVars
<1>3. \A e \in Devices : Cursors(e)'
  BY DEF Recovered, Cursors, Pushes
<1>4. BackupSound'
  BY DEF Recovered, BackupSound
<1> QED
  BY <1>2, <1>3, <1>4 DEF Recovered

LEMMA DisasterSteps ==
  ASSUME GuardedInv, Disaster
  PROVE  GuardedInv'
<1> USE DEF GuardedInv, GuardedTypeOK
<1>1. CASE BackUp
  <2>1. UNCHANGED <<vars, guardVars, keyVars, disasters, unpublished>> /\ backup' = Server
    BY <1>1 DEF BackUp
  <2>2. SyncTypeOK' /\ ServerInv'
    BY <2>1 DEF SyncTypeOK, TypeOK, ServerInv, TableShape, RevisionsBehind, vars, serverVars,
       deviceVars, countVars, historyVars
  <2>3. BackupSound'
    BY <2>1, ServerSound
  <2> QED
    BY <2>1, <2>2, <2>3 DEF vars, deviceVars, guardVars, keyVars, Cursors, Pushes
<1>2. CASE Restore
  <2>1. ServerInv' /\ BackupSound'
    BY <1>2, StoreMeaningNext DEF Restore, BackupSound
  <2>2. SyncTypeOK'
    BY <1>2, <2>1 DEF Restore, ServerInv, SyncTypeOK, deviceVars, countVars, historyVars
  <2> QED
    BY <1>2, <2>1, <2>2 DEF Restore, deviceVars, guardVars, keyVars, Cursors, Pushes
<1>3. ASSUME NEW d \in Devices, RecoverWithKit(d) PROVE GuardedInv'
  <2>1. ServerInv'
    BY <1>3, ServerQuiet DEF RecoverWithKit, ServerMoves, serverVars
  <2> QED
    BY <1>3, <2>1, RecoveredCursors DEF RecoverWithKit, keyVars
<1>4. ASSUME NEW d \in Devices, RecoverByWipe(d) PROVE GuardedInv'
  <2>1. rows' \in [Items -> Row] /\ \A i \in Items : rows'[i] = NoRow
    BY <1>4 DEF RecoverByWipe, Row
  <2>2. ServerInv'
    <3>1. UNCHANGED <<sync_seq, purged_before_seq, checkpoint>>
      BY <1>4 DEF RecoverByWipe
    <3>2. /\ sync_seq \in Nat /\ purged_before_seq \in Nat /\ purged_before_seq <= sync_seq
          /\ checkpoint \in [seq : Nat, tag : Tags] \cup {NoCheckpoint}
      BY DEF ServerInv, TypeOK, TableShape
    <3>3. \A i \in Items : rows'[i].seq <= sync_seq /\ rows'[i].revision <= rows'[i].seq
      BY <2>1, <3>2 DEF NoRow
    <3>4. StoreSound(rows', sync_seq', purged_before_seq', checkpoint')
      BY <2>1, <3>1, <3>2, <3>3 DEF StoreSound
    <3> QED
      BY <3>4, StoreMeaningNext
  <2> QED
    BY <1>4, <2>2, RecoveredCursors DEF RecoverByWipe
<1>5. ASSUME NEW d \in Devices, LogInAgain(d) PROVE GuardedInv'
  <2>1. /\ UNCHANGED <<serverVars, deviceVars, countVars, committed, historyVars>>
        /\ UNCHANGED <<guardVars, account_key, disasterVars, unpublished>>
        /\ device_key' = [device_key EXCEPT ![d] = account_key]
        /\ editor' = [editor EXCEPT ![d] = Closed]
    BY <1>5 DEF LogInAgain
  <2>2. SyncTypeOK' /\ ServerInv'
    BY <2>1 DEF SyncTypeOK, Closed, TypeOK, ServerInv, TableShape, RevisionsBehind, serverVars,
       deviceVars, countVars, historyVars
  <2>3. BackupSound'
    BY <2>1 DEF BackupSound, disasterVars
  <2> QED
    BY <2>1, <2>2, <2>3 DEF deviceVars, guardVars, disasterVars, Cursors, Pushes
<1> QED
  BY <1>1, <1>2, <1>3, <1>4, <1>5 DEF Disaster

LEMMA GuardedInitInv == GuardedInit => GuardedInv
<1> SUFFICES ASSUME GuardedInit PROVE GuardedInv
  OBVIOUS
<1>1. SyncTypeOK /\ ServerInv
  BY SyncInitInv DEF GuardedInit, SyncInv
<1>2. BackupSound
  BY <1>1, StoreMeaning DEF GuardedInit, Server, BackupSound
<1>3. GuardedTypeOK
  BY <1>1, RollbackSyncAssumption DEF GuardedInit, GuardedTypeOK
<1>4. \A d \in Devices : Cursors(d)
  BY DEF GuardedInit, SyncInit, Cursors, Pushes
<1> QED
  BY <1>1, <1>2, <1>3, <1>4 DEF GuardedInv

LEMMA GuardedStutter == GuardedInv /\ UNCHANGED guardedVars => GuardedInv'
<1> SUFFICES ASSUME GuardedInv, UNCHANGED guardedVars PROVE GuardedInv'
  OBVIOUS
<1>1. UNCHANGED <<vars, guardVars, keyVars, disasterVars, unpublished>>
  BY DEF guardedVars
<1>2. SyncTypeOK' /\ ServerInv'
  BY <1>1 DEF GuardedInv, GuardedTypeOK, SyncTypeOK, TypeOK, ServerInv, TableShape,
     RevisionsBehind, vars, serverVars, deviceVars, countVars, historyVars
<1>3. BackupSound'
  BY <1>1 DEF GuardedInv, BackupSound, disasterVars
<1> QED
  BY <1>1, <1>2, <1>3 DEF GuardedInv, GuardedTypeOK, vars, deviceVars, guardVars, keyVars,
     disasterVars, Cursors, Pushes

LEMMA GuardedSteps == GuardedInv /\ [GuardedNext]_guardedVars => GuardedInv'
BY OrdinarySteps, DisasterSteps, GuardedStutter DEF GuardedNext

LEMMA GuardedInvariant == GuardedSpec => []GuardedInv
BY GuardedInitInv, GuardedSteps, PTL DEF GuardedSpec

\* The guard keeps its types around the engine, through restores, recoveries and
\* interrupted cycles (rollback.rs: synchronize).
THEOREM GuardedTyped == GuardedSpec => []GuardedTypeOK
<1>1. GuardedInv => GuardedTypeOK
  BY DEF GuardedInv
<1> QED
  BY <1>1, GuardedInvariant, PTL

\* The cursor only ever advances but for the recovery of the account (engine.rs:
\* advance_cursor): also when the server is restored between two requests.
THEOREM CursorsAdvance == GuardedSpec => CursorAdvances
<1> DEFINE Advance ==
      \A d \in Devices :
        last_seq'[d] < last_seq[d] =>
          disasters = {} /\ disasters' \in {{"recovered"}, {"wiped"}}
<1>1. ASSUME GuardedInv, GuardedNext PROVE Advance
  <2>1. last_seq \in [Devices -> Nat]
    BY <1>1 DEF GuardedInv, GuardedTypeOK, SyncTypeOK
  <2>2. ASSUME UNCHANGED last_seq PROVE Advance
    BY <2>1, <2>2
  <2>3. ASSUME NEW d \in Devices, Ordinary(d) PROVE Advance
    <3>1. GuardedTypeOK'
      BY <1>1, <2>3, OrdinarySteps DEF GuardedInv
    <3>2. \A e \in Devices : last_seq'[e] >= last_seq[e] /\ last_seq'[e] \in Nat
      BY <1>1, <2>3, <3>1, OrdinarySteps DEF GuardedTypeOK, SyncTypeOK
    <3> QED
      BY <2>1, <3>2
  <2>4. CASE BackUp \/ Restore \/ \E d \in Devices : LogInAgain(d)
    BY <2>2, <2>4 DEF BackUp, Restore, LogInAgain, vars, deviceVars
  <2>5. CASE \E d \in Devices : RecoverWithKit(d) \/ RecoverByWipe(d)
    BY <2>5 DEF RecoverWithKit, RecoverByWipe
  <2> QED
    BY <1>1, <2>3, <2>4, <2>5 DEF GuardedNext, Disaster
<1>2. GuardedInv /\ [GuardedNext]_guardedVars => [Advance]_guardedVars
  BY <1>1
<1> QED
  BY <1>2, GuardedInvariant, PTL DEF GuardedSpec, CursorAdvances

-----------------------------------------------------------------------------
(* An honest server is not accused.  As long as nothing was restored or      *)
(* wiped and every moved cursor was published, the checkpoint is the         *)
(* account's own and reaches every cursor that is not about to be published. *)

Peaceful == disasters \subseteq {"recovered"} /\ unpublished = {}

AccountTrusted ==
  /\ CheckpointSeq <= sync_seq
  /\ checkpoint = NoCheckpoint \/ checkpoint.tag = account_key

DeviceTrusted(d) ==
  /\ alarm[d] = NoAlarm
  /\ device_key[d] = account_key
  /\ last_seq[d] <= sync_seq
  /\ Pushes(d) => pulled[d] <= sync_seq
  /\ guard[d] # "synced" => last_seq[d] <= CheckpointSeq
  /\ guard[d] # "out" => verified[d] <= CheckpointSeq
  /\ guard[d] = "in" /\ Pushes(d) => verified[d] <= pulled[d]
  /\ guard[d] = "synced" => verified[d] <= last_seq[d]

Trusted == Peaceful => AccountTrusted /\ \A d \in Devices : DeviceTrusted(d)

\* The numbers the comparisons are about.
LEMMA GuardNumbers ==
  ASSUME GuardedInv, NEW d \in Devices
  PROVE  /\ CheckpointSeq \in Nat /\ sync_seq \in Nat
         /\ last_seq[d] \in Nat /\ pulled[d] \in Nat /\ verified[d] \in Nat
         /\ checkpoint # NoCheckpoint => CheckpointSeq = checkpoint.seq
         /\ checkpoint = NoCheckpoint => CheckpointSeq = 0 /\ checkpoint.seq = -1
BY DEF GuardedInv, GuardedTypeOK, SyncTypeOK, TypeOK, CheckpointSeq, NoCheckpoint

\* No alarm is raised.
LEMMA NoFalseAlarm ==
  ASSUME GuardedInv, AccountTrusted, NEW d \in Devices, DeviceTrusted(d)
  PROVE  ~(\/ VerifyForged(d) \/ VerifyRewound(d) \/ PullRewound(d) \/ TailRewound(d)
           \/ Withheld(d))
<1>1. ~VerifyForged(d)
  BY DEF VerifyForged, Forged, AccountTrusted, DeviceTrusted
<1>2. ~VerifyRewound(d)
  BY GuardNumbers DEF VerifyRewound, Starts, DeviceTrusted
<1>3. ~PullRewound(d)
  BY GuardNumbers DEF PullRewound, DeviceTrusted
<1>4. ~TailRewound(d)
  BY GuardNumbers DEF TailRewound, DeviceTrusted, Pushes
<1>5. ~Withheld(d)
  BY GuardNumbers DEF Withheld, DeviceTrusted
<1> QED
  BY <1>1, <1>2, <1>3, <1>4, <1>5

\* A higher counter or checkpoint leaves the other devices trusted.
LEMMA OthersTrusted ==
  ASSUME GuardedInv, NEW e \in Devices, DeviceTrusted(e), sync_seq' \in Nat,
         sync_seq <= sync_seq', CheckpointSeq' \in Nat, CheckpointSeq <= CheckpointSeq',
         UNCHANGED <<account_key, device_key>>,
         alarm'[e] = alarm[e], last_seq'[e] = last_seq[e], pulled'[e] = pulled[e],
         phase'[e] = phase[e], guard'[e] = guard[e], verified'[e] = verified[e]
  PROVE  DeviceTrusted(e)'
BY GuardNumbers DEF DeviceTrusted, Pushes

LEMMA RunsQuietly ==
  ASSUME GuardedInv, NEW d \in Devices, Runs(d)
  PROVE  /\ sync_seq <= sync_seq' /\ UNCHANGED checkpoint /\ CheckpointSeq' = CheckpointSeq
         /\ KeepsCursor(d) \/ TakesSeq(d) \/ MovesCursor(d)
<1>1. SyncTypeOK /\ ServerInv
  BY DEF GuardedInv, GuardedTypeOK
<1>2. ServerMoves /\ UNCHANGED checkpoint
  BY <1>1, ServerSteps DEF Runs
<1>3. KeepsCursor(d) \/ TakesSeq(d) \/ MovesCursor(d)
  BY <1>1, CycleShape DEF Runs
<1> QED
  BY <1>2, <1>3 DEF ServerMoves, CheckpointSeq

LEMMA TrustedStep ==
  ASSUME GuardedInv, AccountTrusted, NEW d \in Devices, DeviceTrusted(d), Ordinary(d), Peaceful'
  PROVE  AccountTrusted' /\ DeviceTrusted(d)' /\ CheckpointSeq <= CheckpointSeq'
<1> USE DEF GuardedInv, GuardedTypeOK
<1>1. OwnStep(d) /\ UNCHANGED <<account_key, device_key>>
  BY DEF Ordinary, OwnStep, GuardUnaffected, keyVars
<1>2. GuardedInv' /\ sync_seq <= sync_seq'
  BY OrdinarySteps
<1>3. /\ guard \in [Devices -> {"out", "in", "synced", "published"}]
      /\ verified \in [Devices -> Nat] /\ alarm \in [Devices -> Alarms \cup {NoAlarm}]
      /\ phase \in [Devices -> {"idle", "push", "rejected", "done"}]
      /\ last_seq \in [Devices -> Nat] /\ pulled \in [Devices -> Nat]
  BY DEF SyncTypeOK
<1>4. /\ CheckpointSeq \in Nat /\ sync_seq \in Nat /\ sync_seq' \in Nat /\ CheckpointSeq' \in Nat
      /\ last_seq[d] \in Nat /\ pulled[d] \in Nat /\ verified[d] \in Nat
      /\ last_seq'[d] \in Nat /\ pulled'[d] \in Nat /\ verified'[d] \in Nat
  BY <1>2, GuardNumbers DEF SyncTypeOK, TypeOK, CheckpointSeq
<1>5. CASE Verify(d)
  <2>1. UNCHANGED <<sync_seq, checkpoint, last_seq, pulled, phase, alarm>>
        /\ verified'[d] = CheckpointSeq /\ guard'[d] = "in" /\ phase[d] = "idle" /\ guard[d] = "out"
    BY <1>3, <1>5 DEF Verify, Starts, vars, serverVars, deviceVars
  <2>2. CheckpointSeq' = CheckpointSeq
    BY <2>1 DEF CheckpointSeq
  <2> QED
    BY <1>1, <1>4, <2>1, <2>2 DEF AccountTrusted, DeviceTrusted, Pushes
<1>6. ASSUME Runs(d) PROVE AccountTrusted' /\ CheckpointSeq' = CheckpointSeq
  BY <1>1, <1>2, <1>4, <1>6, RunsQuietly DEF AccountTrusted
<1>7. CASE RunCycle(d) /\ UNCHANGED editor
  <2>1. Runs(d) /\ UNCHANGED <<verified, alarm>> /\ guard[d] = "in" /\ guard'[d] \in {"in", "out"}
    BY <1>3, <1>7 DEF RunCycle, Cycle, Runs, SyncStep
  <2>2. UNCHANGED last_seq
    BY <1>7 DEF RunCycle, Cycle, Pull, PushUpsert, PushDelete, PushDeleteAgain, PushRejected,
       MergeConflict, PushNotFound, ServerWins
  <2>3. Pushes(d)' => pulled'[d] <= sync_seq' /\ verified'[d] <= pulled'[d]
    BY <1>2, <1>4, <2>1, RunsQuietly
       DEF KeepsCursor, TakesSeq, MovesCursor, AccountTrusted, DeviceTrusted, Pushes
  <2> QED
    BY <1>1, <1>2, <1>4, <1>6, <2>1, <2>2, <2>3 DEF DeviceTrusted
<1>8. CASE EndCycle(d) /\ UNCHANGED editor
  <2>1. Runs(d) /\ UNCHANGED <<verified, alarm, pulled>> /\ guard[d] = "in"
        /\ guard'[d] = "synced" /\ phase'[d] = "done" /\ phase[d] = "push"
        /\ sync_seq' = sync_seq /\ last_seq'[d] \in {pulled[d], sync_seq}
    BY <1>3, <1>8 DEF EndCycle, AdvanceCursor, TailPull, Purge, Runs, SyncStep
  <2>2. verified[d] <= pulled[d] /\ pulled[d] <= sync_seq /\ verified[d] <= CheckpointSeq
    BY <2>1 DEF DeviceTrusted, Pushes
  <2> QED
    BY <1>1, <1>4, <1>6, <2>1, <2>2 DEF DeviceTrusted, Pushes
<1>9. CASE HandOver(d) /\ UNCHANGED editor
  <2>1. Runs(d) /\ UNCHANGED <<verified, alarm, last_seq, pulled>> /\ guard[d] = "published"
        /\ guard'[d] \in {"out", "published"} /\ ~Pushes(d)'
    BY <1>3, <1>9 DEF HandOver, StageCopy, Finish, Runs, SyncStep, Pushes
  <2> QED
    BY <1>1, <1>2, <1>4, <1>6, <2>1 DEF DeviceTrusted
<1>10. CASE Interrupt(d) /\ UNCHANGED editor
  <2>1. Runs(d) /\ UNCHANGED <<verified, alarm, last_seq, pulled>> /\ guard[d] # "out"
        /\ guard'[d] = "out" /\ ~Pushes(d)' /\ ~Unsaid(d)
    BY <1>3, <1>10 DEF Interrupt, Failures, PullCut, TailCut, Abandon, Fail, Runs, Pushes, Peaceful
  <2>2. last_seq[d] <= CheckpointSeq
    BY <1>4, <2>1 DEF DeviceTrusted, Unsaid
  <2> QED
    BY <1>1, <1>2, <1>4, <1>6, <2>1, <2>2 DEF DeviceTrusted
<1>11. CASE Work(d)
  <2>1. Runs(d) /\ UNCHANGED <<verified, alarm, guard, last_seq, pulled, phase>>
    BY <1>11, EditCases, OpensQuietly DEF Work, Saves, SaveItem, RemoveItem, Edit, Runs, guardVars,
       deviceVars
  <2> QED
    BY <1>1, <1>2, <1>4, <1>6, <2>1 DEF DeviceTrusted, Pushes
<1>12. CASE Publish(d)
  <2>1. /\ UNCHANGED <<verified, last_seq, pulled, phase, sync_seq>>
        /\ guard[d] = "synced" /\ guard'[d] = "published" /\ alarm'[d] = NoAlarm
        /\ verified[d] <= last_seq[d]
    BY <1>3, <1>12 DEF Publish, Served, Checked, deviceVars, PutCheckpoint, serverVars
  <2>2. /\ CheckpointSeq <= CheckpointSeq' /\ last_seq[d] <= CheckpointSeq'
        /\ CheckpointSeq' <= sync_seq
        /\ checkpoint' = NoCheckpoint \/ checkpoint'.tag = account_key
    <3>1. CASE PutCheckpoint(Vouched(d), device_key[d])
      <4>1. /\ checkpoint' = [seq |-> last_seq[d], tag |-> account_key]
            /\ checkpoint.seq < last_seq[d]
        BY <3>1 DEF PutCheckpoint, Vouched, DeviceTrusted
      <4>2. checkpoint' # NoCheckpoint /\ CheckpointSeq' = last_seq[d]
        BY <1>4, <4>1 DEF CheckpointSeq, NoCheckpoint
      <4>3. CheckpointSeq <= last_seq[d]
        BY <1>4, <4>1, GuardNumbers
      <4> QED
        BY <1>4, <4>1, <4>2, <4>3 DEF DeviceTrusted
    <3>2. CASE ~PutCheckpoint(Vouched(d), device_key[d])
      <4>1. checkpoint' = checkpoint /\ CheckpointSeq' = CheckpointSeq
        BY <1>12, <3>2 DEF Publish, serverVars, CheckpointSeq
      <4>2. last_seq[d] <= verified[d] \/ checkpoint.seq >= last_seq[d]
        BY <1>12, <3>2 DEF Publish, Vouched
      <4>3. last_seq[d] <= CheckpointSeq
        BY <1>4, <2>1, <4>2, GuardNumbers DEF DeviceTrusted
      <4> QED
        BY <1>4, <4>1, <4>3 DEF AccountTrusted
    <3> QED
      BY <3>1, <3>2
  <2>3. verified[d] <= CheckpointSeq'
    BY <1>4, <2>1, <2>2
  <2> QED
    BY <1>1, <1>4, <2>1, <2>2, <2>3 DEF AccountTrusted, DeviceTrusted, Pushes
<1>13. CASE PublishLost(d)
  BY <1>13 DEF PublishLost, Peaceful
<1> QED
  BY <1>1, <1>4, <1>5, <1>6, <1>7, <1>8, <1>9, <1>10, <1>11, <1>12, <1>13, NoFalseAlarm, RunsQuietly
     DEF OwnStep, GuardedStep, RunCycle

LEMMA TrustedSteps ==
  ASSUME GuardedInv, Trusted, GuardedNext
  PROVE  Trusted'
<1> SUFFICES ASSUME Peaceful'
             PROVE  AccountTrusted' /\ \A e \in Devices : DeviceTrusted(e)'
  BY DEF Trusted
<1>1. GuardedInv'
  BY GuardedSteps
<1>2. ASSUME NEW d \in Devices, Ordinary(d)
      PROVE  AccountTrusted' /\ \A e \in Devices : DeviceTrusted(e)'
  <2>1. UNCHANGED <<account_key, device_key, disasters>>
    BY <1>2 DEF Ordinary, GuardUnaffected, keyVars, disasterVars
  <2>2. unpublished \subseteq unpublished'
    BY <1>2 DEF Ordinary, GuardedStep, Verify, VerifyForged, VerifyRewound, Alarm, RunCycle,
       EndCycle, PullRewound, TailRewound, Withheld, Publish, HandOver, PublishLost, Interrupt,
       Work
  <2>3. AccountTrusted /\ \A e \in Devices : DeviceTrusted(e)
    BY <2>1, <2>2 DEF Trusted, Peaceful
  <2>4. AccountTrusted' /\ DeviceTrusted(d)' /\ CheckpointSeq <= CheckpointSeq'
    BY <1>2, <2>3, TrustedStep
  <2>5. sync_seq <= sync_seq' /\ Elsewhere(d) /\ GuardElsewhere(d)
    BY <1>2, OrdinarySteps
  <2>6. sync_seq' \in Nat /\ CheckpointSeq' \in Nat
    BY <1>1 DEF GuardedInv, GuardedTypeOK, SyncTypeOK, TypeOK, CheckpointSeq
  <2>7. ASSUME NEW e \in Devices \ {d} PROVE DeviceTrusted(e)'
    BY <2>1, <2>3, <2>4, <2>5, <2>6, OthersTrusted DEF Elsewhere, GuardElsewhere
  <2> QED
    BY <2>4, <2>7
<1>3. ASSUME NEW d \in Devices, RecoverWithKit(d)
      PROVE  AccountTrusted' /\ \A e \in Devices : DeviceTrusted(e)'
  <2>1. /\ Recovered(d) /\ UNCHANGED <<account_key, device_key, sync_seq, checkpoint>>
        /\ disasters = {}
    BY <1>3 DEF RecoverWithKit, serverVars, keyVars
  <2>2. unpublished = {} /\ \A e \in Devices : ~Unsaid(e)
    BY <2>1 DEF Recovered, Peaceful
  <2>3. AccountTrusted /\ \A e \in Devices : DeviceTrusted(e)
    BY <2>1, <2>2 DEF Trusted, Peaceful
  <2>4. CheckpointSeq' = CheckpointSeq
    BY <2>1 DEF CheckpointSeq
  <2>5. ASSUME NEW e \in Devices PROVE DeviceTrusted(e)'
    <3>1. /\ guard'[e] = "out" /\ phase'[e] = "idle" /\ alarm'[e] = alarm[e]
          /\ last_seq'[e] \in {0, last_seq[e]}
      BY <2>1 DEF Recovered, CursorAfter, GuardedInv, GuardedTypeOK, SyncTypeOK
    <3>2. last_seq[e] <= CheckpointSeq
      BY <2>2, <2>3, GuardNumbers DEF DeviceTrusted, Unsaid
    <3> QED
      BY <2>1, <2>3, <2>4, <3>1, <3>2, GuardNumbers DEF DeviceTrusted, Pushes
  <2> QED
    BY <2>1, <2>3, <2>4, <2>5 DEF AccountTrusted
<1>4. CASE BackUp \/ \E d \in Devices : LogInAgain(d)
  <2>1. UNCHANGED <<serverVars, deviceVars, guardVars, account_key, disasters, unpublished>>
    BY <1>4 DEF BackUp, LogInAgain, vars, keyVars, disasterVars
  <2>2. AccountTrusted /\ \A e \in Devices : DeviceTrusted(e)
    BY <2>1 DEF Trusted, Peaceful
  <2>3. UNCHANGED device_key
    BY <1>4, <2>2 DEF BackUp, LogInAgain, SignedIn, DeviceTrusted, keyVars
  <2>4. CheckpointSeq' = CheckpointSeq
    BY <2>1 DEF CheckpointSeq, serverVars
  <2> QED
    BY <2>1, <2>2, <2>3, <2>4
       DEF AccountTrusted, DeviceTrusted, Pushes, serverVars, deviceVars, guardVars
<1>5. CASE Restore \/ \E d \in Devices : RecoverByWipe(d)
  BY <1>5 DEF Restore, RecoverByWipe, Peaceful
<1> QED
  BY <1>2, <1>3, <1>4, <1>5 DEF GuardedNext, Disaster

LEMMA TrustedStutter == GuardedInv /\ Trusted /\ UNCHANGED guardedVars => Trusted'
<1> SUFFICES ASSUME Trusted, UNCHANGED guardedVars PROVE Trusted'
  OBVIOUS
<1>1. UNCHANGED <<vars, guardVars, keyVars, disasterVars, unpublished>>
  BY DEF guardedVars
<1>2. CheckpointSeq' = CheckpointSeq /\ (Peaceful' => Peaceful)
  BY <1>1 DEF CheckpointSeq, vars, serverVars, disasterVars, Peaceful
<1> QED
  BY <1>1, <1>2 DEF Trusted, AccountTrusted, DeviceTrusted, Pushes, vars, serverVars, deviceVars,
     guardVars, keyVars

LEMMA GuardedInitTrusted == GuardedInit => Trusted
BY DEF GuardedInit, SyncInit, Init, Trusted, AccountTrusted, DeviceTrusted, CheckpointSeq, Pushes

\* An honest server is not accused (rollback.rs: synchronize): as long as nothing
\* was restored or wiped and every moved cursor was published, no interleaving of
\* devices, no crash and no lost request of a cycle raises an alarm.
THEOREM HonestServerTrusted == GuardedSpec => []TrustedWhilePublished
<1>1. GuardedInv /\ Trusted /\ [GuardedNext]_guardedVars => Trusted'
  BY TrustedSteps, TrustedStutter
<1>2. Trusted => TrustedWhilePublished
  BY DEF Trusted, Peaceful, DeviceTrusted, TrustedWhilePublished
<1>3. GuardedSpec => []Trusted
  BY <1>1, GuardedInitTrusted, GuardedInvariant, PTL DEF GuardedSpec
<1> QED
  BY <1>2, <1>3, PTL

-----------------------------------------------------------------------------
(* The engine inside the guard.  What was proved of the engine alone holds   *)
(* with alarms and checkpoints around its cycles, and over a recovery with   *)
(* the kit.                                                                  *)

\* The server was neither restored nor wiped.
Undamaged == disasters \subseteq {"recovered"}

EngineInv == SyncInv /\ OnceInv /\ SeenInv

\* The server and the queues stay as they are; cycles may end, and a device may
\* start again with an empty replica.
Rests ==
  /\ UNCHANGED <<rows, sync_seq, purged_before_seq, queue, pulled, minted, committed>>
  /\ UNCHANGED historyVars
  /\ \A e \in Devices :
       /\ phase'[e] \in {phase[e], "idle"} /\ report'[e] \subseteq report[e]
       /\ \/ replica'[e] = replica[e] /\ last_seq'[e] = last_seq[e]
          \/ /\ replica'[e] = [i \in Items |-> NoStored] /\ last_seq'[e] = 0
             /\ phase'[e] = "idle"

LEMMA HaltRests ==
  ASSUME GuardedInv, NEW d \in Devices, Halts(d), Record
  PROVE  Rests
<1>1. /\ stacked \in [Devices -> SUBSET Items] /\ revived \in [Devices -> SUBSET Items]
      /\ orphaned \in [Devices -> SUBSET Items]
      /\ phase \in [Devices -> {"idle", "push", "rejected", "done"}]
      /\ report \in [Devices -> SUBSET Op]
  BY DEF GuardedInv, GuardedTypeOK, SyncTypeOK
<1>2. UNCHANGED <<rows, sync_seq, purged_before_seq, replica, queue, last_seq, pulled, minted,
                  committed>>
  BY DEF Halts, StoreKept
<1>3. {i \in Items : Exists(i) /\ rows'[i] = NoRow} = {}
  BY <1>2 DEF Exists, NoRow
<1>4. stacked' = stacked
  <2>1. \A e \in Devices : stacked'[e] = stacked[e]
    BY <1>1, <1>2 DEF Record
  <2> QED
    BY <1>1, <2>1 DEF Record
<1>5. revived' = revived
  <2>1. \A e \in Devices : revived'[e] = revived[e]
    BY <1>1, <1>2 DEF Record
  <2> QED
    BY <1>1, <2>1 DEF Record
<1>6. purged' = purged /\ orphaned' = orphaned
  <2>1. purged' = purged /\ \A e \in Devices : orphaned'[e] = orphaned[e]
    BY <1>1, <1>3 DEF Record
  <2> QED
    BY <1>1, <2>1 DEF Record
<1>7. \A e \in Devices : phase'[e] \in {phase[e], "idle"} /\ report'[e] \subseteq report[e]
  BY <1>1 DEF Halts
<1> QED
  BY <1>2, <1>4, <1>5, <1>6, <1>7 DEF Rests, historyVars

LEMMA QuietRests ==
  ASSUME UNCHANGED <<serverVars, deviceVars, countVars, committed, historyVars>>
  PROVE  Rests
BY DEF Rests, serverVars, deviceVars, countVars, historyVars

LEMMA KitRests ==
  ASSUME GuardedInv, NEW d \in Devices, RecoverWithKit(d)
  PROVE  Rests
<1>1. /\ replica \in [Devices -> [Items -> Stored]] /\ last_seq \in [Devices -> Nat]
  BY DEF GuardedInv, GuardedTypeOK, SyncTypeOK
<1> QED
  BY <1>1 DEF RecoverWithKit, Recovered, CursorAfter, Rests, serverVars, countVars

\* An empty replica is sound at cursor 0, and no device that rests loses.
LEMMA RestingDevice ==
  ASSUME ServerInv, Rests, NEW e \in Devices, DeviceInv(e)
  PROVE  DeviceInv(e)'
<1>1. /\ sync_seq' = sync_seq /\ pulled' = pulled /\ queue' = queue /\ rows' = rows
      /\ revived' = revived /\ orphaned' = orphaned /\ purged_before_seq' = purged_before_seq
      /\ sync_seq \in Nat
  BY DEF Rests, historyVars, ServerInv, TypeOK
<1>2. Pending(e)' = Pending(e)
  BY <1>1 DEF Pending, Queued
<1>3. CASE replica'[e] = replica[e] /\ last_seq'[e] = last_seq[e]
  <2>1. Pushes(e)' => Pushes(e)
    BY DEF Rests, Pushes
  <2>2. phase'[e] = "rejected" => phase[e] = "rejected"
    BY DEF Rests
  <2>3. \A i \in Items : /\ Covered(e, i, last_seq[e])' <=> Covered(e, i, last_seq[e])
                         /\ Covered(e, i, pulled[e])' <=> Covered(e, i, pulled[e])
    BY <1>1, <1>2, <1>3 DEF Covered
  <2> QED
    BY <1>1, <1>3, <2>1, <2>2, <2>3 DEF DeviceInv
<1>4. CASE replica'[e] = [i \in Items |-> NoStored] /\ last_seq'[e] = 0 /\ phase'[e] = "idle"
  <2>1. ASSUME NEW i \in Items PROVE Covered(e, i, last_seq[e])' /\ Absent(replica'[e][i])
    <3>1. Absent(replica'[e][i])
      BY <1>4 DEF Absent, NoStored
    <3>2. rows[i].revision > 0 => rows[i].seq > 0
      BY RowsTyped DEF ServerInv, RevisionsBehind
    <3> QED
      BY <1>1, <1>4, <3>1, <3>2 DEF Covered, Sound, Agree
  <2> QED
    BY <1>1, <1>4, <2>1 DEF DeviceInv, Pushes
<1> QED
  BY <1>3, <1>4 DEF Rests

LEMMA RestsKeep ==
  ASSUME EngineInv, Rests, SyncTypeOK', ServerInv'
  PROVE  EngineInv'
<1>1. /\ UNCHANGED <<rows, queue, minted, committed, purged, revived, stacked>>
      /\ \A e \in Devices : Queued(e)' = Queued(e)
  BY DEF Rests, historyVars, Queued
<1>2. SyncInv'
  BY RestingDevice DEF EngineInv, SyncInv
<1>3. OnceInv'
  <2>1. \A e \in Devices : Upserts(report'[e]) \subseteq Upserts(report[e])
    BY DEF Rests, Upserts
  <2> QED
    BY <1>1, <2>1 DEF EngineInv, OnceInv
<1>4. ASSUME NEW e \in Devices, NEW i \in Items \ Exempt(e)' PROVE EditInv(e, i)'
  <2>1. EditInv(e, i)
    BY <1>1, <1>4 DEF EngineInv, SeenInv, Exempt
  <2>2. replica'[e][i] \in {replica[e][i], NoStored}
    BY DEF Rests
  <2>3. ItemInv(queue[e], replica'[e][i], rows[i], i)
    BY <2>1, <2>2 DEF EditInv, ItemInv, Shows, Known, NoStored
  <2>4. Passed(e, i)'
    BY <1>1, <2>1 DEF Rests, EditInv, Passed, Front
  <2> QED
    BY <1>1, <2>3, <2>4 DEF EditInv
<1> QED
  BY <1>2, <1>3, <1>4 DEF EngineInv, SeenInv

LEMMA EngineRuns ==
  ASSUME EngineInv, Record, NEW d \in Devices, Runs(d)
  PROVE  EngineInv'
<1>1. SyncNext
  BY DEF SyncNext, Runs
<1> QED
  BY <1>1, SyncSteps, OnceSteps, SeenSteps DEF EngineInv

LEMMA EngineGuarded ==
  ASSUME GuardedInv, Undamaged => EngineInv, [GuardedNext]_guardedVars, Undamaged'
  PROVE  EngineInv'
<1>1. SyncTypeOK' /\ ServerInv'
  BY GuardedSteps DEF GuardedInv, GuardedTypeOK
<1>2. Undamaged
  <2>1. disasters' = disasters \/ disasters = {}
    BY DEF GuardedNext, Ordinary, GuardUnaffected, disasterVars, Disaster, BackUp, Restore,
       RecoverWithKit, RecoverByWipe, LogInAgain, guardedVars
  <2> QED
    BY <2>1 DEF Undamaged
<1>3. ASSUME NEW d \in Devices, Ordinary(d) PROVE EngineInv'
  <2>1. Record /\ (Runs(d) \/ Halts(d))
    BY <1>3, OwnSteps DEF Ordinary, OwnStep
  <2> QED
    BY <1>1, <1>2, <2>1, EngineRuns, HaltRests, RestsKeep
<1>4. CASE UNCHANGED vars \/ \E d \in Devices : LogInAgain(d)
  <2>1. UNCHANGED <<serverVars, deviceVars, countVars, committed, historyVars>>
    BY <1>4 DEF LogInAgain, vars
  <2> QED
    BY <1>1, <1>2, <2>1, QuietRests, RestsKeep
<1>5. ASSUME NEW d \in Devices, RecoverWithKit(d) PROVE EngineInv'
  BY <1>1, <1>2, <1>5, KitRests, RestsKeep
<1>6. CASE Restore \/ \E d \in Devices : RecoverByWipe(d)
  BY <1>6 DEF Restore, RecoverByWipe, Undamaged
<1> QED
  BY <1>3, <1>4, <1>5, <1>6 DEF GuardedNext, Disaster, BackUp, guardedVars

LEMMA GuardedEngine == GuardedSpec => [](Undamaged => EngineInv)
<1>1. GuardedInit => EngineInv
  BY SyncInitInv, SyncInitOnce, SyncInitSeen DEF GuardedInit, EngineInv
<1>2. GuardedInv /\ (Undamaged => EngineInv) /\ [GuardedNext]_guardedVars
        => (Undamaged => EngineInv)'
  BY EngineGuarded
<1> QED
  BY <1>1, <1>2, GuardedInvariant, PTL DEF GuardedSpec

\* The guard never leaves a replica silently wrong (rollback.rs: synchronize;
\* lib.rs: recover_complete): wherever an alarm or a failed publication stops a
\* cycle, and after a recovery with the kit, a device shows what the server has
\* or will still hear of it.
THEOREM GuardedCursorsSound == GuardedSpec => []GuardedCursorSound
<1>1. (Undamaged => EngineInv) => GuardedCursorSound
  BY CoveredMeaning
     DEF Undamaged, EngineInv, SyncInv, DeviceInv, CursorSound, GuardedCursorSound
<1> QED
  BY <1>1, GuardedEngine, PTL

\* Nor does it make the engine push an edit twice, or over a version that the editor
\* did not show its user, beyond the exceptions of the engine alone: alarms, lost
\* publications and a recovery with the kit come between an edit and its push.
THEOREM GuardedEdits ==
  GuardedSpec /\ []Undamaged => CommittedOnce /\ SingleEditsReplaceSeen
<1>1. EngineInv => CommitsOnce /\ SinglesReplaceSeen
  BY UpsertOnce, PushSeen DEF EngineInv, CommitsOnce, SinglesReplaceSeen, ReplacesSeen, Exempt
<1>2. GuardedSpec /\ []Undamaged => []EngineInv
  BY GuardedEngine, PTL
<1>3. EngineInv => [CommitsOnce]_vars /\ [SinglesReplaceSeen]_vars
  BY <1>1
<1> QED
  BY <1>2, <1>3, PTL DEF CommittedOnce, SingleEditsReplaceSeen, CommitsOnce, SinglesReplaceSeen

\* An op leaves a queue only when the server has it or the report holds it
\* (engine.rs: push_pending), also where alarms stop the cycles and the server is
\* restored or wiped between them.
THEOREM GuardedOpsSettled == GuardedSpec => OpsSettled
<1>1. ASSUME UNCHANGED queue PROVE LeavesSettled
  BY <1>1 DEF LeavesSettled, Queued
<1>2. ASSUME GuardedInv, NEW d \in Devices, Ordinary(d) PROVE LeavesSettled
  <2>1. SyncTypeOK /\ ServerInv /\ Cursors(d)
    BY <1>2 DEF GuardedInv, GuardedTypeOK
  <2>2. Runs(d) \/ Halts(d)
    BY <1>2, OwnSteps DEF Ordinary, OwnStep
  <2>3. CASE Runs(d)
    BY <2>1, <2>3, CycleShape, OpLeaves DEF Runs, Elsewhere, Cursors
  <2>4. CASE Halts(d)
    BY <1>1, <2>4 DEF Halts
  <2> QED
    BY <2>2, <2>3, <2>4
<1>3. ASSUME Disaster PROVE LeavesSettled
  <2>1. UNCHANGED queue
    BY <1>3 DEF Disaster, BackUp, Restore, RecoverWithKit, RecoverByWipe, Recovered, LogInAgain,
       vars, deviceVars
  <2> QED
    BY <1>1, <2>1
<1>4. GuardedInv /\ [GuardedNext]_guardedVars => [LeavesSettled]_vars
  BY <1>2, <1>3 DEF GuardedNext, guardedVars
<1> QED
  BY <1>4, GuardedInvariant, PTL DEF GuardedSpec, OpsSettled, LeavesSettled

-----------------------------------------------------------------------------
(* The safety half of convergence, and the server's side.                    *)

\* Nothing is queued, and the cursor is the server's counter.
Done(d) == queue[d] = <<>> /\ last_seq[d] = sync_seq

DoneMirrors ==
  \A d \in Devices :
    Done(d) => \A i \in Items \ (revived[d] \cup orphaned[d]) : Mirrors(d, i)

LEMMA NothingLeftToHear == SyncInv => DoneMirrors
<1> SUFFICES ASSUME SyncInv, NEW d \in Devices, Done(d),
                    NEW i \in Items \ (revived[d] \cup orphaned[d])
             PROVE  Mirrors(d, i)
  BY DEF DoneMirrors
<1>1. SoundFor(d, i)
  BY CoveredMeaning DEF SyncInv, DeviceInv
<1>2. i \notin Pending(d)
  BY DEF Done, Pending, Queued
<1>3. /\ sync_seq \in Nat /\ purged_before_seq \in Nat /\ purged_before_seq <= sync_seq
      /\ rows[i].seq \in Nat /\ rows[i].seq <= sync_seq
  BY RowsTyped DEF SyncInv, ServerInv, TypeOK, TableShape
<1> QED
  BY <1>1, <1>2, <1>3 DEF SoundFor, WillHear, FullResync, Done

\* A device that has nothing queued and whose cursor is the server's counter shows
\* exactly the vault (engine.rs: sync, advance_cursor), but for the items that
\* CursorSound excepts: two such devices show the same.
THEOREM DoneDevicesMirror == SyncSpec => []DoneMirrors
BY NothingLeftToHear, SyncInvariant, PTL

\* The same with the guard around the engine (rollback.rs: synchronize).
THEOREM GuardedDoneMirror == GuardedSpec => [](Undamaged => DoneMirrors)
BY NothingLeftToHear, GuardedEngine, PTL DEF EngineInv

\* To the server, devices with a guard are clients like any others (rollback.rs:
\* synchronize; routes/items.rs, routes/sync.rs): what is proved of the item store
\* holds of it, until it is restored or wiped.
THEOREM GuardImplementsStore == GuardedSpec /\ []Undamaged => Spec
<1>1. ASSUME EngineInv, GuardedInv, NEW d \in Devices, Ordinary(d) PROVE [Next]_serverVars
  <2>1. Runs(d) \/ Halts(d)
    BY <1>1, OwnSteps DEF Ordinary, OwnStep
  <2>2. CASE Runs(d)
    BY <1>1, <2>2, ServerSteps DEF GuardedInv, GuardedTypeOK, Runs, ServerMoves
  <2>3. CASE UNCHANGED serverVars
    BY <2>3
  <2>4. CASE PutCheckpoint(Vouched(d), device_key[d])
    <3>1. Vouched(d) \in 0..sync_seq /\ device_key[d] \in Tags
      BY <1>1 DEF EngineInv, SyncInv, DeviceInv, GuardedInv, GuardedTypeOK, SyncTypeOK, TypeOK,
         Vouched
    <3> QED
      BY <2>4, <3>1 DEF Next
  <2>5. ASSUME NEW kind, Alarm(d, kind) PROVE UNCHANGED serverVars
    BY <2>5 DEF Alarm
  <2>6. CASE Verify(d) \/ PublishLost(d)
    BY <2>3, <2>6 DEF Verify, PublishLost, vars
  <2>7. CASE \/ VerifyForged(d) \/ VerifyRewound(d) \/ PullRewound(d) \/ TailRewound(d)
             \/ Withheld(d)
    BY <2>3, <2>5, <2>7 DEF VerifyForged, VerifyRewound, PullRewound, TailRewound, Withheld
  <2>8. CASE Publish(d)
    BY <2>3, <2>4, <2>8 DEF Publish
  <2>9. CASE \/ (RunCycle(d) \/ EndCycle(d) \/ HandOver(d) \/ Interrupt(d)) /\ UNCHANGED editor
             \/ Work(d)
    BY <2>2, <2>9 DEF RunCycle, Cycle, EndCycle, HandOver, Interrupt, Work, Runs, SyncStep
  <2> QED
    BY <1>1, <2>6, <2>7, <2>8, <2>9 DEF Ordinary, GuardedStep
<1>2. ASSUME UNCHANGED vars \/ \E d \in Devices : RecoverWithKit(d) \/ LogInAgain(d)
      PROVE  [Next]_serverVars
  <2>1. UNCHANGED serverVars
    BY <1>2 DEF RecoverWithKit, LogInAgain, vars
  <2> QED
    BY <2>1
<1>3. ASSUME Restore \/ \E d \in Devices : RecoverByWipe(d) PROVE ~Undamaged'
  BY <1>3 DEF Restore, RecoverByWipe, Undamaged
<1>4. ASSUME EngineInv, GuardedInv, [GuardedNext]_guardedVars, Undamaged'
      PROVE  [Next]_serverVars
  BY <1>1, <1>2, <1>3, <1>4 DEF GuardedNext, Disaster, BackUp, guardedVars
<1>5. GuardedInit => Init
  BY DEF GuardedInit, SyncInit
<1> QED
  BY <1>4, <1>5, GuardedEngine, GuardedInvariant, PTL DEF GuardedSpec, Spec
===============================================================================

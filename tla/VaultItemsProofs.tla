--------------------------- MODULE VaultItemsProofs ---------------------------
(***************************************************************************)
(* What VaultItems promises, for any set of items, contents and tags and   *)
(* any number of writes: its type invariant, distinct sequence numbers,    *)
(* and the purge that never outruns the horizon.                           *)
(***************************************************************************)
EXTENDS VaultItems, TLAPS

\* The inductive invariant: sequence numbers are distinct because none has
\* outrun the counter from which the next one is taken.
SeqInv == TypeOK /\ TableShape /\ SeqsDistinct

\* The fields of a row, whichever of the three kinds it is.
LEMMA RowFields ==
  ASSUME NEW row \in Row
  PROVE  /\ row.revision \in Nat
         /\ row.seq \in Nat
         /\ row.deleted \in BOOLEAN
         /\ row.content \in Contents \cup {NoContent}
         /\ row.revision > 0 => row.seq > 0
<1>1. CASE row \in LiveRow
  <2>1. row.revision \in Nat /\ row.seq \in Nat /\ row.seq > 0
    BY <1>1 DEF LiveRow
  <2>2. row.deleted = FALSE
    BY <1>1 DEF LiveRow
  <2>3. row.content \in Contents
    BY <1>1 DEF LiveRow
  <2> QED BY <2>1, <2>2, <2>3
<1>2. CASE row \in Tombstone
  <2>1. row.revision \in Nat /\ row.seq \in Nat /\ row.seq > 0
    BY <1>2 DEF Tombstone
  <2>2. row.deleted = TRUE
    BY <1>2 DEF Tombstone
  <2>3. row.content = NoContent
    BY <1>2 DEF Tombstone
  <2> QED BY <2>1, <2>2, <2>3
<1>3. CASE row = NoRow
  BY <1>3 DEF NoRow
<1> QED
  BY <1>1, <1>2, <1>3 DEF Row

\* A row that has been written has a revision.
LEMMA WrittenRow ==
  ASSUME NEW row \in LiveRow \cup Tombstone
  PROVE  row.revision > 0
<1>1. CASE row \in LiveRow
  BY <1>1 DEF LiveRow
<1>2. CASE row \in Tombstone
  BY <1>2 DEF Tombstone
<1> QED
  BY <1>1, <1>2

\* What an upsert does to the rows, whatever the revision it was allowed by.
LEMMA PutItemRows ==
  ASSUME TypeOK, NEW i \in Items, NEW r \in 1..(MaxSeq + 1), NEW c \in Contents,
         PutItem(i, r, c)
  PROVE  /\ sync_seq' = sync_seq + 1
         /\ rows' = [rows EXCEPT ![i] = [revision |-> r, seq |-> sync_seq + 1,
                                         deleted |-> FALSE, content |-> c]]
         /\ rows'[i] \in LiveRow
         /\ rows'[i].seq = sync_seq + 1
         /\ UNCHANGED <<purged_before_seq, checkpoint>>
  BY VaultItemsAssumption
     DEF TypeOK, PutItem, WriteRow, next_seq, LiveRow

\* What a delete does to the rows: one live row becomes a tombstone.
LEMMA DeleteItemRows ==
  ASSUME TypeOK, NEW i \in Items, NEW r \in 0..MaxSeq, DeleteItem(i, r)
  PROVE  /\ sync_seq' = sync_seq + 1
         /\ rows' = [rows EXCEPT ![i] =
                       [revision |-> rows[i].revision + 1, seq |-> sync_seq + 1,
                        deleted |-> TRUE, content |-> NoContent]]
         /\ rows'[i] \in Tombstone
         /\ rows'[i].seq = sync_seq + 1
         /\ UNCHANGED <<purged_before_seq, checkpoint>>
<1> DEFINE row == [revision |-> rows[i].revision + 1, seq |-> sync_seq + 1,
                   deleted |-> TRUE, content |-> NoContent]
<1>1. sync_seq \in Nat /\ rows[i].revision \in Nat
  BY RowFields DEF TypeOK
<1>2. /\ sync_seq' = sync_seq + 1
      /\ rows' = [rows EXCEPT ![i] = row]
      /\ UNCHANGED <<purged_before_seq, checkpoint>>
  BY DEF DeleteItem, WriteRow, next_seq
<1>3. row \in Tombstone
  BY <1>1 DEF Tombstone
<1>4. rows'[i] = row
  BY <1>2 DEF TypeOK
<1> QED
  BY <1>2, <1>3, <1>4

\* What a purge does: it removes tombstones and raises the horizon over them.
LEMMA PurgeRows ==
  ASSUME TypeOK, NEW old \in SUBSET Tombstones, Purge(old)
  PROVE  /\ rows' = [i \in Items |-> IF i \in old THEN NoRow ELSE rows[i]]
         /\ purged_before_seq' \in Nat
         /\ purged_before_seq <= purged_before_seq'
         /\ \A i \in old : rows[i].seq <= purged_before_seq'
         /\ \/ purged_before_seq' = purged_before_seq
            \/ \E i \in Items : purged_before_seq' = rows[i].seq
         /\ UNCHANGED <<sync_seq, checkpoint>>
<1>1. \A i \in Items : rows[i].seq \in Nat
  BY RowFields DEF TypeOK
<1>2. old \subseteq Items
  BY DEF Tombstones
<1> QED
  BY <1>1, <1>2 DEF TypeOK, Purge

LEMMA NextSeqInv == SeqInv /\ [Next]_serverVars => SeqInv'
<1> SUFFICES ASSUME SeqInv, [Next]_serverVars
             PROVE  SeqInv'
  OBVIOUS
<1> USE DEF SeqInv
<1>0. /\ sync_seq \in Nat
      /\ \A j \in Items :
           /\ rows[j].seq \in Nat
           /\ rows[j].revision \in Nat
           /\ rows[j].revision > 0 => rows[j].seq > 0
  BY RowFields DEF TypeOK
<1>1. ASSUME NEW i \in Items, NEW r \in 1..(MaxSeq + 1), NEW c \in Contents,
             PutItem(i, r, c)
      PROVE  SeqInv'
  <2>1. TypeOK'
    BY <1>1, PutItemRows DEF TypeOK, Row
  <2>2. TableShape'
    BY <1>0, <1>1, PutItemRows DEF TypeOK, TableShape
  <2>3. SeqsDistinct'
    BY <1>0, <1>1, PutItemRows DEF TypeOK, TableShape, SeqsDistinct, Exists
  <2> QED BY <2>1, <2>2, <2>3
<1>2. ASSUME NEW i \in Items, NEW r \in 0..MaxSeq, DeleteItem(i, r)
      PROVE  SeqInv'
  <2>1. TypeOK'
    BY <1>2, DeleteItemRows DEF TypeOK, Row
  <2>2. TableShape'
    BY <1>0, <1>2, DeleteItemRows DEF TypeOK, TableShape
  <2>3. SeqsDistinct'
    BY <1>0, <1>2, DeleteItemRows DEF TypeOK, TableShape, SeqsDistinct, Exists
  <2> QED BY <2>1, <2>2, <2>3
<1>3. ASSUME NEW old \in SUBSET Tombstones, Purge(old)
      PROVE  SeqInv'
  <2>1. TypeOK'
    BY <1>3, PurgeRows DEF TypeOK, Row
  <2>2. TableShape'
    BY <1>0, <1>3, PurgeRows DEF TypeOK, TableShape, NoRow
  <2>3. SeqsDistinct'
    BY <1>0, <1>3, PurgeRows DEF TypeOK, SeqsDistinct, Exists, NoRow
  <2> QED BY <2>1, <2>2, <2>3
<1>4. ASSUME NEW s \in 0..sync_seq, NEW t \in Tags, PutCheckpoint(s, t)
      PROVE  SeqInv'
  <2>1. s \in Nat
    BY <1>0
  <2> QED
    BY <1>4, <2>1
       DEF TypeOK, TableShape, SeqsDistinct, Exists, PutCheckpoint
<1>5. CASE UNCHANGED serverVars
  BY <1>5 DEF serverVars, TypeOK, TableShape, SeqsDistinct, Exists
<1> QED
  BY <1>1, <1>2, <1>3, <1>4, <1>5 DEF Next

LEMMA InitSeqInv == Init => SeqInv
  BY DEF Init, SeqInv, TypeOK, TableShape, SeqsDistinct, Exists, Row, NoRow,
         NoCheckpoint

LEMMA SpecSeqInv == Spec => []SeqInv
  BY InitSeqInv, NextSeqInv, PTL DEF Spec

\* Every reachable state of the item store is well typed: rows come alive, turn
\* into tombstones and disappear as a whole.
THEOREM TypeCorrect == Spec => []TypeOK
  BY SpecSeqInv, PTL DEF SeqInv

\* No two rows ever carry the same sequence number.
THEOREM SequenceNumbersDistinct == Spec => []SeqsDistinct
  BY SpecSeqInv, PTL DEF SeqInv

\* No step removes a row other than a tombstone under the new horizon.
THEOREM PurgeUnderHorizon == Spec => RowsLeaveUnderHorizon
<1> DEFINE Leaves == \A i \in Items : Exists(i) /\ ~Exists(i)' =>
                       rows[i].deleted /\ rows[i].seq <= purged_before_seq'
<1>1. SeqInv /\ [Next]_serverVars => [Leaves]_serverVars
  <2> SUFFICES ASSUME SeqInv, Next
               PROVE  Leaves
    OBVIOUS
  <2>0. TypeOK
    BY DEF SeqInv
  <2>1. ASSUME NEW i \in Items, NEW r \in 1..(MaxSeq + 1), NEW c \in Contents,
               PutItem(i, r, c)
        PROVE  Leaves
    <3>0. rows'[i] \in LiveRow
      BY <2>0, <2>1, PutItemRows
    <3>1. rows'[i].revision > 0
      BY <3>0, WrittenRow
    <3>2. \A j \in Items \ {i} : rows'[j] = rows[j]
      BY <2>0, <2>1, PutItemRows DEF TypeOK
    <3> QED BY <3>1, <3>2 DEF Exists
  <2>2. ASSUME NEW i \in Items, NEW r \in 0..MaxSeq, DeleteItem(i, r)
        PROVE  Leaves
    <3>0. rows'[i] \in Tombstone
      BY <2>0, <2>2, DeleteItemRows
    <3>1. rows'[i].revision > 0
      BY <3>0, WrittenRow
    <3>2. \A j \in Items \ {i} : rows'[j] = rows[j]
      BY <2>0, <2>2, DeleteItemRows DEF TypeOK
    <3> QED BY <3>1, <3>2 DEF Exists
  <2>3. ASSUME NEW old \in SUBSET Tombstones, Purge(old)
        PROVE  Leaves
    BY <2>0, <2>3, PurgeRows DEF Exists, Tombstones
  <2>4. ASSUME NEW s \in 0..sync_seq, NEW t \in Tags, PutCheckpoint(s, t)
        PROVE  Leaves
    BY <2>4 DEF PutCheckpoint, Exists
  <2> QED
    BY <2>1, <2>2, <2>3, <2>4 DEF Next
<1> QED
  BY SpecSeqInv, <1>1, PTL DEF Spec, RowsLeaveUnderHorizon
=============================================================================

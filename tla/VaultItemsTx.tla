----------------------------- MODULE VaultItemsTx -----------------------------
(***************************************************************************)
(* The handlers of routes/items.rs as the database runs them: several      *)
(* requests at a time, each a deferred SQLite transaction on a connection  *)
(* of the pool (db.rs: WAL, five connections).  A transaction reads its    *)
(* own snapshot, takes the only write lock with its first write, and is    *)
(* refused when another transaction has committed since its snapshot.      *)
(* The module implements VaultItems, where each handler is one step.       *)
(*                                                                         *)
(* SQLite and the sqlx pool are not part of the repository: what they do   *)
(* is modelled from how the handlers use them.                             *)
(***************************************************************************)
EXTENDS VaultItems, FiniteSets

CONSTANTS
  Requests,   \* slots for requests being handled
  NoRequest,  \* nobody holds the write lock
  PoolSize    \* connections in the pool

ASSUME VaultItemsTxAssumption ==
  /\ NoRequest \notin Requests
  /\ PoolSize \in Nat \ {0}

VARIABLES
  op,        \* op[r]: what the request asks for
  pc,        \* pc[r]: how far its handler has come
  view,      \* view[r]: the database as its transaction sees it
  writer,    \* the request that holds the write lock
  elsewhere  \* connections that requests of other accounts, and other routes, hold

txVars == <<op, pc, view, writer>>
ownVars == <<serverVars, txVars>>
allVars == <<ownVars, elsewhere>>

View == [rows : [Items -> Row], sync_seq : Nat, purged_before_seq : Nat]

Committed ==
  [rows |-> rows, sync_seq |-> sync_seq, purged_before_seq |-> purged_before_seq]

\* A listing finds the tombstones that are old by its clock, and the largest of
\* their sequence numbers (purged_max), when it begins.
PutOps == [kind : {"put"}, item : Items, revision : Nat, content : Contents]
DeleteOps == [kind : {"delete"}, item : Items, revision : Nat]
ListOps == [kind : {"list"}, since : Nat, old : SUBSET Items,
            purged_max : Nat]
CheckpointOps == [kind : {"checkpoint"}, seq : Nat, tag : Tags]

ListSince(s) == [kind |-> "list", since |-> s, old |-> {}, purged_max |-> 0]

Ops == PutOps \cup DeleteOps \cup ListOps \cup CheckpointOps

Replies == {"accepted", "unchanged", "conflict", "missing", "listed", "failed"}

\* Mutant: the connection is kept while the 409's row is read on another.
KeptConnections == {"open", "stale", "writing", "written", "rejected"}

\* Handlers that hold a connection, and the handlers still to answer.
\* ("stale": somebody has committed since the snapshot).
InTransaction == {"open", "stale", "writing", "written"}
InFlight == {"received", "rejected"} \cup InTransaction

FreeConnection ==
  elsewhere + Cardinality({r \in Requests : pc[r] \in InTransaction}) < PoolSize

EmptyView ==
  [rows |-> [i \in Items |-> NoRow], sync_seq |-> 0, purged_before_seq |-> 0]

Goto(r, label) == pc' = [pc EXCEPT ![r] = label]

-----------------------------------------------------------------------------
(* A request arrives; its transaction begins with its first SELECT. *)

\* A client sends what it has seen: revisions in use, cursors and checkpoints
\* the server has given out.
Receive(r, o) ==
  /\ pc[r] \in Replies
  /\ op' = [op EXCEPT ![r] = o]
  /\ view' = [view EXCEPT ![r] = EmptyView]
  /\ Goto(r, "received")
  /\ UNCHANGED <<serverVars, writer>>

FindsOld(r, old) ==
  \E max \in IF old = {} THEN {0} ELSE {rows[i].seq : i \in old} :
    /\ \A i \in old : rows[i].seq <= max
    /\ op' = [op EXCEPT ![r].old = old, ![r].purged_max = max]

Begin(r) ==
  /\ pc[r] = "received"
  /\ op[r].kind # "checkpoint"
  /\ FreeConnection
  /\ IF op[r].kind = "list"
       THEN \E old \in SUBSET Tombstones : FindsOld(r, old)
       ELSE UNCHANGED op
  /\ view' = [view EXCEPT ![r] = Committed]
  /\ Goto(r, "open")
  /\ UNCHANGED <<serverVars, writer>>

-----------------------------------------------------------------------------
(* What the handler decides from the row it read. *)

Seen(r) == view[r].rows[op[r].item]

MayPut(r) == op[r].kind = "put" /\ op[r].revision = Seen(r).revision + 1

MayDelete(r) ==
  /\ op[r].kind = "delete"
  /\ Seen(r).revision > 0
  /\ ~Seen(r).deleted
  /\ op[r].revision = Seen(r).revision

\* The handler goes on to write.
Writes(r) == MayPut(r) \/ MayDelete(r) \/ (op[r].kind = "list" /\ op[r].old # {})

\* The answers that need no write; "conflict" needs another read.
Verdict(r) ==
  CASE op[r].kind = "list" -> "listed"
    [] op[r].kind = "delete" /\ Seen(r).revision = 0 -> "missing"
    [] op[r].kind = "delete" /\ Seen(r).deleted -> "unchanged"
    [] OTHER -> "rejected"

Decide(r) ==
  /\ pc[r] \in {"open", "stale"}
  /\ ~Writes(r)
  /\ Goto(r, Verdict(r))
  /\ UNCHANGED <<serverVars, op, view, writer>>

\* conflict_response: the transaction is dropped before the row is read again,
\* on whatever connection the pool has.
ReadConflict(r) ==
  /\ pc[r] = "rejected"
  /\ FreeConnection
  /\ view' = [view EXCEPT ![r] = Committed]
  /\ Goto(r, "conflict")
  /\ UNCHANGED <<serverVars, op, writer>>

-----------------------------------------------------------------------------
(* Writing. *)

\* A write takes the next sequence number before it touches the row; a listing
\* deletes the expired tombstones before it raises the horizon.
\* Mutant: a write that reuses the last sequence number.
FirstStatementSameSeq(r) ==
  IF op[r].kind = "list"
    THEN [view[r] EXCEPT !.rows =
            [i \in Items |-> IF i \in op[r].old THEN NoRow ELSE @[i]]]
    ELSE view[r]

FirstStatement(r) ==
  IF op[r].kind = "list"
    THEN [view[r] EXCEPT !.rows =
            [i \in Items |-> IF i \in op[r].old THEN NoRow ELSE @[i]]]
    ELSE [view[r] EXCEPT !.sync_seq = @ + 1]

\* Mutant: the row and the counter are read outside the transaction that writes.
FirstWriteUnchecked(r) ==
  /\ pc[r] \in {"open", "stale"}
  /\ Writes(r)
  /\ writer = NoRequest
  /\ op[r].kind # "list" => sync_seq < MaxSeq
  /\ writer' = r
  /\ view' = [view EXCEPT ![r] = FirstStatement(r)]
  /\ Goto(r, "writing")
  /\ UNCHANGED <<serverVars, op>>

\* The first write upgrades the transaction: it takes the write lock, provided
\* nobody has committed since the snapshot.
FirstWrite(r) ==
  /\ pc[r] = "open"
  /\ Writes(r)
  /\ writer = NoRequest
  /\ op[r].kind # "list" => sync_seq < MaxSeq
  /\ writer' = r
  /\ view' = [view EXCEPT ![r] = FirstStatement(r)]
  /\ Goto(r, "writing")
  /\ UNCHANGED <<serverVars, op>>

\* SQLITE_BUSY_SNAPSHOT: the handler answers with an error.
RefuseWrite(r) ==
  /\ pc[r] = "stale"
  /\ Writes(r)
  /\ writer = NoRequest
  /\ Goto(r, "failed")
  /\ UNCHANGED <<serverVars, op, view, writer>>

\* SQLITE_BUSY: the lock stays taken for the whole busy timeout.
BusyTimeout(r) ==
  /\ pc[r] \in {"open", "stale"}
  /\ Writes(r)
  /\ writer # NoRequest
  /\ Goto(r, "failed")
  /\ UNCHANGED <<serverVars, op, view, writer>>

NewRow(r) ==
  IF op[r].kind = "put"
    THEN [revision |-> op[r].revision, seq |-> view[r].sync_seq,
          deleted |-> FALSE, content |-> op[r].content]
    ELSE [revision |-> Seen(r).revision + 1, seq |-> view[r].sync_seq,
          deleted |-> TRUE, content |-> NoContent]

RaisedHorizon(r) ==
  IF view[r].purged_before_seq < op[r].purged_max
    THEN op[r].purged_max ELSE view[r].purged_before_seq

SecondWrite(r) ==
  /\ pc[r] = "writing"
  /\ view' = IF op[r].kind = "list"
               THEN [view EXCEPT ![r].purged_before_seq = RaisedHorizon(r)]
               ELSE [view EXCEPT ![r].rows[op[r].item] = NewRow(r)]
  /\ Goto(r, "written")
  /\ UNCHANGED <<serverVars, op, writer>>

\* A commit makes the snapshots of the open transactions stale.
Outdated == [q \in Requests |-> IF pc[q] = "open" THEN "stale" ELSE pc[q]]

Commit(r) ==
  /\ pc[r] = "written"
  /\ rows' = view[r].rows
  /\ sync_seq' = view[r].sync_seq
  /\ purged_before_seq' = view[r].purged_before_seq
  /\ writer' = NoRequest
  /\ pc' = [Outdated EXCEPT ![r] =
              IF op[r].kind = "list" THEN "listed" ELSE "accepted"]
  /\ UNCHANGED <<checkpoint, op, view>>

\* put_checkpoint is one conditional UPDATE outside any transaction.
StoreCheckpoint(r) ==
  /\ pc[r] = "received"
  /\ op[r].kind = "checkpoint"
  /\ FreeConnection
  /\ writer = NoRequest
  /\ \/ /\ PutCheckpoint(op[r].seq, op[r].tag)
        /\ pc' = [Outdated EXCEPT ![r] = "accepted"]
     \/ /\ checkpoint.seq >= op[r].seq
        /\ Goto(r, "accepted")
        /\ UNCHANGED serverVars
  /\ UNCHANGED <<op, view, writer>>

-----------------------------------------------------------------------------
(* What else can happen. *)

\* A request fails: an I/O error, a pool timeout, a client that goes away (the
\* handler's future is dropped).  Its transaction is rolled back.
Fail(r) ==
  /\ pc[r] \in InFlight
  /\ Goto(r, "failed")
  /\ writer' = IF writer = r THEN NoRequest ELSE writer
  /\ UNCHANGED <<serverVars, op, view>>

\* The server dies and starts again: only what was committed survives.
Crash ==
  /\ pc' = [r \in Requests |-> IF pc[r] \in InFlight THEN "failed" ELSE pc[r]]
  /\ writer' = NoRequest /\ elsewhere' = 0
  /\ UNCHANGED <<serverVars, op, view>>

\* Everything else the server does competes for the pool ...
OtherConnects ==
  /\ FreeConnection
  /\ elsewhere' = elsewhere + 1
  /\ UNCHANGED ownVars

OtherReleases ==
  /\ elsewhere > 0
  /\ elsewhere' = elsewhere - 1
  /\ UNCHANGED ownVars

\* ... and commits to the same database: another account, a login, a refresh.
OtherCommit ==
  /\ elsewhere > 0
  /\ writer = NoRequest
  /\ pc' = Outdated
  /\ UNCHANGED <<serverVars, op, view, writer>>

-----------------------------------------------------------------------------
TxInit ==
  /\ Init
  /\ op = [r \in Requests |-> ListSince(0)]
  /\ pc = [r \in Requests |-> "failed"]
  /\ view = [r \in Requests |-> EmptyView]
  /\ writer = NoRequest /\ elsewhere = 0

\* What a client may ask for.
Receives(r) ==
  \/ \E i \in Items, n \in 1..(MaxSeq + 1), c \in Contents :
       Receive(r, [kind |-> "put", item |-> i, revision |-> n, content |-> c])
  \/ \E i \in Items, n \in 0..MaxSeq :
       Receive(r, [kind |-> "delete", item |-> i, revision |-> n])
  \/ \E s \in 0..sync_seq :
       Receive(r, ListSince(s))
  \/ \E s \in 0..sync_seq, t \in Tags :
       Receive(r, [kind |-> "checkpoint", seq |-> s, tag |-> t])

\* The handler's own progress, and its progress once it has a connection.
Connects(r) == Begin(r) \/ ReadConflict(r) \/ StoreCheckpoint(r)
Proceeds(r) ==
  \/ Decide(r)
  \/ FirstWrite(r)
  \/ RefuseWrite(r)
  \/ BusyTimeout(r)
  \/ SecondWrite(r)
  \/ Commit(r)

Handles(r) == Receives(r) \/ Connects(r) \/ Proceeds(r) \/ Fail(r)

TxNext ==
  \/ ((\E r \in Requests : Handles(r)) \/ OtherCommit) /\ UNCHANGED elsewhere
  \/ Crash
  \/ OtherConnects \/ OtherReleases

TxSpec == TxInit /\ [][TxNext]_allVars

\* Handlers run, also those of other requests, which give their connections back; the
\* pool serves those that wait for a connection in turn.
FairTxSpec ==
  /\ TxSpec
  /\ WF_allVars(OtherReleases)
  /\ \A r \in Requests : WF_ownVars(Proceeds(r)) /\ SF_ownVars(Connects(r))

-----------------------------------------------------------------------------
(* Properties. *)

TxTypeOK ==
  /\ TypeOK
  /\ op \in [Requests -> Ops]
  /\ pc \in [Requests -> InFlight \cup Replies]
  /\ view \in [Requests -> View]
  /\ writer \in Requests \cup {NoRequest}

\* Exactly the request between its first write and its commit holds the lock.
LockHeld ==
  \A r \in Requests : writer = r <=> pc[r] \in {"writing", "written"}

\* What a transaction has written so far lies on top of the database as it is
\* now, not as it was: nobody commits between a snapshot and its commit.
ViewsFresh ==
  \A r \in Requests :
    /\ pc[r] = "open" => view[r] = Committed
    /\ pc[r] = "writing" /\ op[r].kind = "list" =>
         view[r] = [Committed EXCEPT !.rows =
                      [i \in Items |-> IF i \in op[r].old THEN NoRow ELSE @[i]]]
    /\ pc[r] = "writing" /\ op[r].kind # "list" =>
         view[r] = [Committed EXCEPT !.sync_seq = @ + 1]

\* Mutant: latest_seq is read outside the listing's transaction.
LatestNow(r) == sync_seq

\* latest_seq and the rows of an answered listing.
LatestListed(r) == view[r].sync_seq
RowsListed(r) ==
  Listed(view[r].rows, view[r].purged_before_seq, op[r].since)

\* A listing is complete up to the latest_seq it reports: no write that another
\* request commits around it falls between the counter it read and the rows it
\* read, so a client may move its cursor there.
ListingComplete ==
  \A r \in Requests, i \in Items :
    /\ pc[r] = "listed"
    /\ Live(i)
    /\ rows[i].seq \in (op[r].since + 1)..LatestListed(r)
    => i \in RowsListed(r) /\ view[r].rows[i] = rows[i]

\* Requests neither starve nor wait for ever for each other's connections, or for
\* those that the rest of the server takes and gives back: each is answered (until
\* the bound on writes is reached).
Answered ==
  \A r \in Requests : pc[r] \in InFlight ~> pc[r] \in Replies \/ sync_seq = MaxSeq
=============================================================================

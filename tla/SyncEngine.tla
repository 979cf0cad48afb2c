------------------------------ MODULE SyncEngine ------------------------------
(***************************************************************************)
(* The devices of one account synchronising with the item store:           *)
(* core/vault-sync (engine.rs) over the on-device replica of               *)
(* apps/desktop-core (store.rs), driven by the desktop's commands          *)
(* (apps/desktop/src-tauri/src/lib.rs: get_item, save_item, delete_item,   *)
(* sync_now).                                                              *)
(*                                                                         *)
(* One sync cycle is a sequence of requests; each request is a step, and   *)
(* the other devices' requests come between them.  The replica, the queue  *)
(* and the cursor are durable (SQLite); the phase and the report live in   *)
(* memory and are lost whenever a request fails, a response does not       *)
(* arrive, the application dies, or the caller ignores the outcome.        *)
(* The editor shows what get_item returned when it was opened, and stays   *)
(* open while the device syncs; one that is closed is not used again.      *)
(***************************************************************************)
EXTENDS VaultItems, Sequences

CONSTANTS
  Devices,      \* the devices signed in to the account
  MaxPending,   \* bound on the op queue of a device
  MaxEdits,     \* bound on the edits the users make, all devices together
  MaxFailures,  \* bound on failed requests, lost responses and crashes
  SlowCycles    \* whether a cycle may outlast TOMBSTONE_TTL_SECS

ASSUME SyncEngineAssumption ==
  /\ MaxPending \in Nat
  /\ MaxEdits \in Nat
  /\ MaxFailures \in Nat
  /\ SlowCycles \in BOOLEAN

VARIABLES
  replica,    \* replica[d]: the items table of device d
  queue,      \* queue[d]: its ops table, in order
  last_seq,   \* last_seq[d]: its cursor
  phase,      \* phase[d]: where its sync cycle stands
  pulled,     \* pulled[d]: pull.latest_seq of the running cycle
  report,     \* report[d]: the losing ops of the running cycle
  editor,     \* editor[d]: what the editor of d shows of the item it is open on
  minted,     \* the identifiers and envelopes created so far
  edits,      \* number of edits made
  failures,   \* number of failures met
  committed,  \* the <<item, content>> pairs the server has ever accepted
  stacked,    \* stacked[d]: items d edited on top of what its editor did not show
  revived,    \* revived[d]: items d adopted anew with its delete still queued
  purged,     \* items whose row has been purged at some time
  orphaned    \* orphaned[d]: items d showed when they were purged, at cursor 0

deviceVars == <<replica, queue, last_seq, phase, pulled, report>>
countVars == <<minted, edits, failures>>
historyVars == <<stacked, revived, purged, orphaned>>
vars == <<serverVars, deviceVars, editor, countVars, committed, historyVars>>

NoStored == [revision |-> 0, deleted |-> FALSE, content |-> NoContent]

Stored == {NoStored}
  \cup [revision : Nat \ {0}, deleted : {FALSE}, content : Contents]
  \cup [revision : Nat \ {0}, deleted : {TRUE}, content : {NoContent}]

\* A pending op.  For an upsert, revision is the one it produces; for a delete
\* it is the base.  What the user saw when making it (seen) is not sent: it is
\* there for the properties.
Op ==
  [kind : {"upsert"}, item : Items, revision : Nat \ {0}, content : Contents,
   seen : Contents \cup {NoContent}]
  \cup
  [kind : {"delete"}, item : Items, revision : Nat \ {0}, content : {NoContent},
   seen : Contents \cup {NoContent}]

Held(d, i) == replica[d][i].revision > 0
Queued(d) == {queue[d][k] : k \in DOMAIN queue[d]}
Pending(d) == {op.item : op \in Queued(d)}

Closed == [i \in Items |-> NoContent]
EditorOn(d, i) == editor[d][i] # NoContent

-----------------------------------------------------------------------------
(* Local edits: stage mirrors the op into the replica and enqueues it, in    *)
(* one transaction.  The base revision is the replica's by then, not that of *)
(* the version the editor shows.                                             *)

\* Mutant: a deleted item keeps its content on the device.
MirrorSoftly(op) ==
  [revision |-> IF op.kind = "upsert" THEN op.revision ELSE op.revision + 1,
   deleted |-> op.kind = "delete",
   content |-> IF op.kind = "upsert" THEN op.content ELSE op.seen]

Mirror(op) ==
  IF op.kind = "upsert"
    THEN [revision |-> op.revision, deleted |-> FALSE, content |-> op.content]
    ELSE [revision |-> op.revision + 1, deleted |-> TRUE,
          content |-> NoContent]

Stage(d, op) ==
  /\ replica' = [replica EXCEPT ![d][op.item] = Mirror(op)]
  /\ queue' = [queue EXCEPT ![d] = Append(@, op)]

\* A command of the user: the session's mutex keeps it out of a sync cycle.
OpenItem(d, i) ==
  /\ phase[d] = "idle"
  /\ edits < MaxEdits
  /\ replica[d][i].content # NoContent
  /\ editor' = [editor EXCEPT ![d] = [Closed EXCEPT ![i] = replica[d][i].content]]
  /\ UNCHANGED <<serverVars, deviceVars, countVars, committed>>

Edit(d, op) ==
  /\ phase[d] = "idle"
  /\ edits < MaxEdits
  /\ Len(queue[d]) < MaxPending
  /\ Stage(d, op)
  /\ editor' = [editor EXCEPT ![d] = Closed]
  /\ edits' = edits + 1
  /\ UNCHANGED <<serverVars, last_seq, phase, pulled, report, failures,
                 committed>>

\* Save the item the editor is open on, or a new one under a fresh UUID.
SaveItem(d, i, c) ==
  /\ EditorOn(d, i) \/ i \notin minted
  /\ c \notin minted
  /\ minted' = minted \cup {i, c}
  /\ Edit(d, [kind |-> "upsert", item |-> i, content |-> c,
              revision |-> replica[d][i].revision + 1,
              seen |-> editor[d][i]])

RemoveItem(d, i) ==
  /\ EditorOn(d, i) /\ Held(d, i)
  /\ UNCHANGED minted
  /\ Edit(d, [kind |-> "delete", item |-> i, content |-> NoContent,
              revision |-> replica[d][i].revision,
              seen |-> editor[d][i]])

-----------------------------------------------------------------------------
(* Applying what the server says. *)

FromRow(row) ==
  [revision |-> row.revision, deleted |-> row.deleted, content |-> row.content]

\* The replica base with the rows of ids laid over it.
Overlay(base, table, ids) ==
  [i \in Items |-> IF i \in ids THEN FromRow(table[i]) ELSE base[i]]

\* The rows of ids up to sequence number upto: a listing is applied row by row
\* in order, each in its own transaction, and may be cut short.
UpTo(table, ids, upto) == {i \in ids : table[i].seq <= upto}

Fail(d) ==
  /\ failures < MaxFailures
  /\ failures' = failures + 1
  /\ phase' = [phase EXCEPT ![d] = "idle"]
  /\ report' = [report EXCEPT ![d] = {}]

\* The request does not reach the server, the application dies between two
\* requests, or the report of a finished cycle is ignored (login, unlock and
\* the second pass of sync_now).
Abandon(d) ==
  /\ phase[d] # "idle"
  /\ Fail(d)
  /\ UNCHANGED <<serverVars, replica, queue, last_seq, pulled, minted, edits,
                 committed>>

\* Tombstones live for 30 days (TOMBSTONE_TTL_SECS) and a cycle lasts seconds:
\* unless cycles are slow, no tombstone is written and expires while one and
\* the same cycle runs.
Expirable ==
  {i \in Tombstones : SlowCycles \/
     \A d \in Devices : phase[d] # "idle" => rows[i].seq <= pulled[d]}

-----------------------------------------------------------------------------
(* Pull: everything since the cursor; items with pending ops are left to the *)
(* push.  A full resync first empties the replica and keeps the queue.       *)

PullInto(d, upto) ==
  LET resync == FullResync(purged_before_seq', last_seq[d])
      ids == Listed(rows', purged_before_seq', last_seq[d]) \ Pending(d)
      base == IF resync THEN [i \in Items |-> NoStored] ELSE replica[d]
  IN  replica' = [replica EXCEPT ![d] =
                    Overlay(base, rows', UpTo(rows', ids, upto))]

Pull(d) ==
  /\ phase[d] = "idle"
  /\ sync_seq >= last_seq[d]
  /\ \E old \in SUBSET Expirable : Purge(old)
  /\ PullInto(d, sync_seq)
  /\ phase' = [phase EXCEPT ![d] = "push"]
  /\ pulled' = [pulled EXCEPT ![d] = sync_seq]
  /\ UNCHANGED <<queue, last_seq, report, countVars, committed>>

\* The response is lost, or the device dies while it applies the pull.
PullCut(d) ==
  /\ phase[d] = "idle"
  /\ sync_seq >= last_seq[d]
  /\ \E old \in SUBSET Expirable : Purge(old)
  /\ (\E upto \in 0..sync_seq : PullInto(d, upto)) \/ UNCHANGED replica
  /\ Fail(d)
  /\ UNCHANGED <<queue, last_seq, pulled, minted, edits, committed>>

-----------------------------------------------------------------------------
(* Push: the ops in order, each popped once the server has answered. *)

Front(d) == Head(queue[d])
Pushing(d) == phase[d] = "push" /\ queue[d] # <<>>

\* Mutant: the whole queue goes with the answered op.
PopAll(d) == queue' = [queue EXCEPT ![d] = <<>>]

Pop(d) == queue' = [queue EXCEPT ![d] = Tail(@)]

\* The accepted op's revision is written to the stored item, if there is one.
NoteRevision(d, revision) ==
  LET i == Front(d).item
  IN  replica' = IF Held(d, i)
                   THEN [replica EXCEPT ![d][i].revision = revision]
                   ELSE replica

\* What follows an accepted push: the device notes the revision and pops the
\* op; or dies between the two; or the response never arrives.
Accepted(d, revision) ==
  \/ /\ NoteRevision(d, revision)
     /\ Pop(d)
     /\ UNCHANGED <<phase, report, failures>>
  \/ /\ NoteRevision(d, revision)
     /\ Fail(d)
     /\ UNCHANGED queue
  \/ /\ Fail(d)
     /\ UNCHANGED <<replica, queue>>

PushUpsert(d) ==
  /\ Pushing(d)
  /\ Front(d).kind = "upsert"
  /\ PutItem(Front(d).item, Front(d).revision, Front(d).content)
  /\ Accepted(d, Front(d).revision)
  /\ committed' = committed \cup {<<Front(d).item, Front(d).content>>}
  /\ UNCHANGED <<last_seq, pulled, minted, edits>>

PushDelete(d) ==
  /\ Pushing(d)
  /\ Front(d).kind = "delete"
  /\ DeleteItem(Front(d).item, Front(d).revision)
  /\ Accepted(d, Front(d).revision + 1)
  /\ UNCHANGED <<last_seq, pulled, minted, edits, committed>>

\* Deleting a tombstone succeeds and changes nothing.
PushDeleteAgain(d) ==
  /\ Pushing(d)
  /\ Front(d).kind = "delete"
  /\ rows[Front(d).item].deleted
  /\ Accepted(d, rows[Front(d).item].revision)
  /\ UNCHANGED <<serverVars, last_seq, pulled, minted, edits, committed>>

\* The revision does not match: the transaction is dropped, and the row the
\* 409 carries is read afterwards.
PushRejected(d) ==
  /\ Pushing(d)
  /\ LET op == Front(d)
     IN  \/ op.kind = "upsert" /\ ~PutMatches(op.item, op.revision)
         \/ op.kind = "delete" /\ Live(op.item)
              /\ ~DeleteMatches(op.item, op.revision)
  /\ phase' = [phase EXCEPT ![d] = "rejected"]
  /\ UNCHANGED <<serverVars, replica, queue, last_seq, pulled, report,
                 countVars, committed>>

\* Server wins: the row is adopted, or the item becomes a tombstone when there
\* is none; the losing op goes to the report, then leaves the queue.
ServerWins(d) ==
  LET op == Front(d)
      i == op.item
      gone == [revision |-> replica[d][i].revision, deleted |-> TRUE,
               content |-> NoContent]
  IN  /\ replica' = IF Exists(i)
                      THEN [replica EXCEPT ![d][i] = FromRow(rows[i])]
                      ELSE IF Held(d, i)
                             THEN [replica EXCEPT ![d][i] = gone]
                             ELSE replica
      /\ \/ /\ Pop(d)
            /\ report' = [report EXCEPT ![d] = @ \cup {op}]
            /\ phase' = [phase EXCEPT ![d] = "push"]
            /\ UNCHANGED failures
         \/ /\ Fail(d)
            /\ UNCHANGED queue
      /\ UNCHANGED <<serverVars, last_seq, pulled, minted, edits, committed>>

MergeConflict(d) == phase[d] = "rejected" /\ ServerWins(d)

\* Mutant: a 404 ends the cycle with an error.
PushNotFoundFails(d) ==
  /\ Pushing(d)
  /\ Front(d).kind = "delete"
  /\ ~Exists(Front(d).item)
  /\ phase' = [phase EXCEPT ![d] = "idle"]
  /\ report' = [report EXCEPT ![d] = {}]
  /\ UNCHANGED <<serverVars, replica, queue, last_seq, pulled, countVars,
                 committed>>

\* 404: a delete of an item the server has no row for.
PushNotFound(d) ==
  /\ Pushing(d)
  /\ Front(d).kind = "delete"
  /\ ~Exists(Front(d).item)
  /\ ServerWins(d)

-----------------------------------------------------------------------------
(* Cursor: a second pull from pull.latest_seq, and only then the new cursor. *)

\* Mutant: the second pull is used for its latest_seq only.
TailIgnored(d) == {}

TailListed(d) == Listed(rows', purged_before_seq', pulled[d])
TailResync(d) == FullResync(purged_before_seq', pulled[d])

\* Mutant: only the first pull is guarded against a rewound server.
TailPullUnguarded(d) ==
  /\ phase[d] = "push"
  /\ queue[d] = <<>>
  /\ \E old \in SUBSET Expirable : Purge(old)

TailPull(d) ==
  /\ phase[d] = "push"
  /\ queue[d] = <<>>
  /\ sync_seq >= pulled[d]
  /\ \E old \in SUBSET Expirable : Purge(old)

AdvanceCursor(d) ==
  /\ TailPull(d)
  /\ replica' = IF TailResync(d) THEN replica
                ELSE [replica EXCEPT ![d] = Overlay(@, rows', TailListed(d))]
  /\ last_seq' = [last_seq EXCEPT ![d] =
                    IF TailResync(d) THEN pulled[d] ELSE sync_seq]
  /\ phase' = [phase EXCEPT ![d] = "done"]
  /\ UNCHANGED <<queue, pulled, report, countVars, committed>>

\* The device dies while it applies the tail: the cursor stays.
TailCut(d) ==
  /\ TailPull(d)
  /\ ~TailResync(d)
  /\ \E upto \in 0..sync_seq :
       replica' = [replica EXCEPT ![d] =
                     Overlay(@, rows', UpTo(rows', TailListed(d), upto))]
  /\ Fail(d)
  /\ UNCHANGED <<queue, last_seq, pulled, minted, edits, committed>>

-----------------------------------------------------------------------------
(* After the cycle: sync_now turns every losing upsert into a new item, the  *)
(* conflicted copy, for the next pass to push; losing deletes are dropped.   *)

StageCopy(d, op, i) ==
  /\ phase[d] = "done"
  /\ op \in report[d]
  /\ op.kind = "upsert"
  /\ i \notin minted
  /\ Stage(d, [kind |-> "upsert", item |-> i, content |-> op.content,
               revision |-> 1, seen |-> NoContent])
  /\ report' = [report EXCEPT ![d] = @ \ {op}]
  /\ minted' = minted \cup {i}
  /\ UNCHANGED <<serverVars, last_seq, phase, pulled, edits, failures,
                 committed>>

Finish(d) ==
  /\ phase[d] = "done"
  /\ \A op \in report[d] : op.kind = "delete"
  /\ phase' = [phase EXCEPT ![d] = "idle"]
  /\ report' = [report EXCEPT ![d] = {}]
  /\ UNCHANGED <<serverVars, replica, queue, last_seq, pulled, countVars,
                 committed>>

-----------------------------------------------------------------------------
SyncInit ==
  /\ Init
  /\ replica = [d \in Devices |-> [i \in Items |-> NoStored]]
  /\ queue = [d \in Devices |-> <<>>]
  /\ last_seq = [d \in Devices |-> 0]
  /\ phase = [d \in Devices |-> "idle"]
  /\ pulled = [d \in Devices |-> 0]
  /\ report = [d \in Devices |-> {}]
  /\ editor = [d \in Devices |-> Closed]
  /\ minted = {}
  /\ edits = 0
  /\ failures = 0
  /\ committed = {}
  /\ stacked = [d \in Devices |-> {}]
  /\ revived = [d \in Devices |-> {}]
  /\ purged = {}
  /\ orphaned = [d \in Devices |-> {}]

\* What a cycle does when nothing fails.
SyncStep(d) ==
  \/ Pull(d)
  \/ PushUpsert(d)
  \/ PushDelete(d)
  \/ PushDeleteAgain(d)
  \/ PushRejected(d)
  \/ MergeConflict(d)
  \/ PushNotFound(d)
  \/ AdvanceCursor(d)
  \/ \E op \in report[d], i \in Items : StageCopy(d, op, i)
  \/ Finish(d)

DeleteQueued(ops, i) ==
  \E k \in DOMAIN ops : ops[k].kind = "delete" /\ ops[k].item = i

\* The op at the end of the queue after a step.
Added(d) == queue'[d][Len(queue'[d])]

\* The history variables the properties use: they follow from the step.
Record ==
  /\ stacked' = [d \in Devices |-> stacked[d] \cup
       {i \in Items : /\ Len(queue'[d]) > Len(queue[d])
                      /\ Added(d).item = i
                      /\ i \in Pending(d) \/ Added(d).seen # replica[d][i].content}]
  /\ revived' = [d \in Devices |-> revived[d] \cup
       {i \in Items : /\ phase[d] = "rejected"
                      /\ replica'[d][i] # replica[d][i]
                      /\ DeleteQueued(queue'[d], i)}]
  /\ LET leaving == {i \in Items : Exists(i) /\ rows'[i] = NoRow}
     IN  /\ purged' = purged \cup leaving
         /\ orphaned' = [d \in Devices |->
              IF last_seq[d] > 0 THEN orphaned[d]
              ELSE orphaned[d] \cup {i \in leaving : Held(d, i)}]

Edits(d) ==
  \/ \E i \in Items : OpenItem(d, i)
  \/ \E i \in Items, c \in Contents : SaveItem(d, i, c)
  \/ \E i \in Items : RemoveItem(d, i)

Failures(d) == PullCut(d) \/ TailCut(d) \/ Abandon(d)

SyncNext ==
  /\ \E d \in Devices :
       \/ Edits(d)
       \/ (SyncStep(d) \/ Failures(d)) /\ UNCHANGED editor
  /\ Record

SyncSpec == SyncInit /\ [][SyncNext]_vars

-----------------------------------------------------------------------------
(* Properties. *)

SyncTypeOK ==
  /\ TypeOK
  /\ replica \in [Devices -> [Items -> Stored]]
  /\ queue \in [Devices -> Seq(Op)]
  /\ last_seq \in [Devices -> Nat]
  /\ phase \in [Devices -> {"idle", "push", "rejected", "done"}]
  /\ pulled \in [Devices -> Nat]
  /\ report \in [Devices -> SUBSET Op]
  /\ editor \in [Devices -> [Items -> Contents \cup {NoContent}]]
  /\ minted \subseteq Items \cup Contents
  /\ edits \in 0..MaxEdits
  /\ failures \in 0..MaxFailures
  /\ committed \subseteq Items \X Contents
  /\ stacked \in [Devices -> SUBSET Items]
  /\ revived \in [Devices -> SUBSET Items]
  /\ purged \subseteq Items
  /\ orphaned \in [Devices -> SUBSET Items]

\* The device shows item i as the server has it.
Mirrors(d, i) ==
  IF Live(i)
    THEN replica[d][i] = FromRow(rows[i])
    ELSE ~Held(d, i) \/ replica[d][i].deleted

\* The next pull of the device will bring item i, or rebuild the replica.
WillHear(d, i) ==
  \/ rows[i].seq > last_seq[d]
  \/ FullResync(purged_before_seq, last_seq[d])

SoundFor(d, i) == i \in Pending(d) \/ Mirrors(d, i) \/ WillHear(d, i)

\* The replica is never silently wrong: whatever was interrupted, lost,
\* retried, purged or resynced, a device shows of an item what the server has,
\* or its cursor will still bring the difference.  Two exceptions: an item that
\* was purged before the device's first cycle ended, when its cursor of 0 asks
\* for no resync (items.rs:121), and one the device adopted anew while its own
\* delete of it was still queued - when the retry of that delete is accepted,
\* NoteRevision keeps the adopted content.
CursorSound ==
  \A d \in Devices : \A i \in Items \ (revived[d] \cup orphaned[d]) :
    SoundFor(d, i)

\* An op leaves a queue only when the server has it or the report holds it.
OpsSettled ==
  [][\A d \in Devices : \A op \in Queued(d) \ Queued(d)' :
       \/ op \in report'[d]
       \/ <<op.item, op.content>> \in committed'
       \/ op.kind = "delete" /\ rows'[op.item].deleted]_vars

\* No edit is lost: it is queued, or was accepted, or waits in a report, or is
\* kept as a conflicted copy ("no keystroke is ever silently discarded",
\* lib.rs:560-561; "rather than dropping it on the floor", types.rs:61).
EditsAccounted ==
  \A c \in Contents \cap minted :
    \/ \E i \in Items : <<i, c>> \in committed
    \/ \E d \in Devices :
         \/ \E k \in DOMAIN queue[d] : queue[d][k].content = c
         \/ \E op \in report[d] : op.content = c

\* An accepted push by d replaces what the editor of d showed when the edit was made.
ReplacesSeen(d) ==
  PushUpsert(d) \/ PushDelete(d) => rows[Front(d).item].content = Front(d).seen

\* Optimistic concurrency for one edit at a time ("Can two devices overwrite each
\* other's writes? No", REVIEW_RESPONSE.md:217): an accepted edit never overwrites or
\* deletes a version its user did not see, whatever was interrupted or retried in
\* between.  The exceptions: items that some device edited twice between two syncs, or
\* from an editor that was open while a sync brought another version, for save_item
\* takes its base from the replica of the moment (lib.rs:506); items whose revisions
\* have started again after a purge; and those the device has adopted anew with its own
\* delete still queued: once the retry of that delete succeeds, the device shows the
\* adopted content under the tombstone's revision, and the next edit passes the check.
SingleEditsReplaceSeen ==
  [][\A d \in Devices :
       /\ Pushing(d)
       /\ Front(d).item \notin
            purged \cup revived[d] \cup UNION {stacked[e] : e \in Devices}
       => ReplacesSeen(d)]_vars

\* An edit takes effect at most once, however often it is retried: a stale op
\* conflicts ("they'll conflict naturally if stale", engine.rs:55).  Once the row
\* is purged nothing is left to conflict with, and a retried create is accepted
\* again.
CommittedOnce ==
  [][\A d \in Devices :
       /\ PushUpsert(d)
       /\ Front(d).item \notin purged
       => <<Front(d).item, Front(d).content>> \notin committed]_vars
=============================================================================

# Basementen Vault, formally

TLA+ models of Basementen Vault, a self-hosted password manager: an axum/SQLite
server that stores encrypted items (`server/vault-server`), a synchronisation
engine (`core/vault-sync`), a desktop core with an on-device replica
(`apps/desktop-core`), the Tauri desktop that drives it (`apps/desktop`), and a
cryptographic core (`core/vault-core`). Every definition is translated from the
code; `PROJECT.json` names the lines behind each of them.

## 1. Inventory

| Component | State | Operations | Hard behaviour | What makes it correct |
|---|---|---|---|---|
| item store (`routes/items.rs`, `db.rs`) | per account: `sync_seq`, `purged_before_seq`, checkpoint; per item: revision, seq, deleted, content | list (with lazy purge), put, delete, put checkpoint | deferred SQLite transactions on a pool of connections; crashes; tombstones that expire under old cursors | a handler is atomic; sequence numbers are unique and ordered; a delta listing is complete for every cursor |
| sync engine (`vault-sync`) | none of its own: a cycle's report | one cycle: pull, push ops one by one, second pull, cursor | other devices between two requests; lost requests and responses; crash between any two steps | the cursor never passes what the replica has not got; ops are settled, not lost; devices converge |
| on-device replica (`store.rs`) | items, ops, last_seq, account metadata, encrypted refresh token | stage, apply_remote, pop, clear, set_last_seq | each call is its own transaction | replica and queue agree after a crash |
| desktop commands (`src-tauri/src/lib.rs`) and editor (`ui/main.js`) | the unlocked session behind one mutex; the item the editor shows | get, save, delete, import, sync_now, login, unlock, lock, recover, change password | reports and errors ignored by some callers; an editor that stays open while a sync changes the replica; commands against the watchdog | an edit replaces what its user saw; conflicts reach the user; alarms are true |
| rollback guard (`rollback.rs`) | verified checkpoint of the cycle | verify, sync, withholding check, publish | checkpoint best-effort; other devices publish meanwhile; restored servers | a rewound server is noticed, an honest one never accused |
| sessions (`auth.rs`, `sessions.rs`, `state.rs`) | session rows in families | login, refresh (rotate), logout, revoke, authenticate | read and write in separate statements; lost responses | what was renewed is retired; revocation sticks; reuse ends the family (a refresh token is meant to work once, section 5) |
| session client (`api.rs`, `lib.rs`) | access and refresh token, the persisted envelope | login, refresh on 401, persist | crash between rotation and persistence | an honest device keeps its session |
| login and lockout (`auth.rs`, `security.rs`, `rate_limit.rs`) | per account: failed attempts, lock; per address: failures in a window, in memory | login, fail, succeed, notify of a new device | parallel attempts, restarts, requests cut at an await, a statement whose error is ignored | counter, lock and warning agree with the failures (all of them are meant to count, section 5); no device signs in unannounced |
| second factor (`mfa.rs`, `totp.rs`) | secret, activation, last used step, recovery codes | enroll, activate, consume, verify, disable, issue codes | parallel requests, clock steps | a code is consumed once (it is meant to be used once, section 5); what is asked for was shown to work; one set of recovery codes |
| accounts (`accounts.rs`) | unverified/verified account rows, verification tokens | register, verify, resend, prelogin | lost mails, repeated registration, expired tokens | one account per address; none stays unverified for ever |
| recovery and password change (`recovery.rs`) | recovery requests, key columns of the account, backup address | start, data, complete, cancel, set and verify backup address, change password | the stages of a request race each other, logins, refreshes, pushes and a change of password; mails get lost; wipe leaves counters behind | the owner is written to, and can withdraw, before keys change; one request is pending at a time; password, kit, items and sessions stay in step |
| auto-lock (`session.rs`, watchdog) | last activity | touch, expire, lock | watchdog against commands | an idle session is dropped |
| cryptographic core (`vault-core`) | none | envelopes, key wrapping, padding, codes | boundaries of formats | decode inverts encode |

How they interact: the desktop holds a mutex over its session and, inside it,
calls the engine with the replica and the API client; the client issues one HTTP
request at a time and renews its session on a 401; the server handles requests
of all devices concurrently, each in its own SQLite transaction. The change
notifier and its event stream exist on the server, but no client subscribes to
them. `PROJECT.json` lists every component, also those left out, and every
hazard with the line where it bites.

## 2. Modules

| Module | Models | Checked by |
|---|---|---|
| `VaultItems` | the item store, one action per handler | everything below |
| `VaultHistory` | the store with a history of its vaults, to state that listings are complete | `MCSyncHistory`, `ItemStoreProofs` |
| `VaultItemsTx` | the same handlers statement by statement: transactions, pool, write lock, failures, crashes; refines `VaultItems` | `MCVaultItemsTx`, `ItemStoreProofs` |
| `SyncEngine` | devices with replica, queue and cursor running the sync cycle against `VaultItems` | `MCSyncHistory`, `MCSyncEngine`, `SyncProofs` |
| `SyncHistory` | `SyncEngine` and `VaultHistory` together: the listings on the tables that devices lead to | `MCSyncHistory` |
| `RollbackSync` | the rollback guard around that cycle, with restored servers and recovered accounts | `MCRollbackSync`, `SyncProofs` |
| `Sessions` | the session rows of the server, statement by statement | `MCSessionClient`, `SessionsProofs` |
| `SessionClient` | a device's tokens, in memory and on disk, against `Sessions` | `MCSessionClient`, `SessionsProofs` |
| `AccountKeys` | what a client derives from a password and a kit, symbolically | through `Recovery` |
| `Recovery` | recovery requests, completion, change of password, with logins, refreshes and pushes in between, statement by statement | `MCRecovery`, `RecoveryProofs` |
| `RecoveryPromise` | the abstract promise: the owner written to, cooled off, not withdrawn, then keys change; refined by `Recovery` | `MCRecovery`, `RecoveryProofs` |
| `Addresses` | registration, verification mails and the backup address, statement by statement | `MCAddresses`, `AddressesProofs` |
| `SecondFactor` | enrollment, activation, use and removal of the second factor, statement by statement | `MCSecondFactor`, `SecondFactorProofs` |
| `Lockout` | a login's failure counter, lock, budgets and alert for a new device, statement by statement | `MCLockout`, `LockoutProofs` |
| `VaultItemsProofs`, `ItemStoreProofs`, `SyncProofs`, `SessionsProofs`, `RecoveryProofs`, `AddressesProofs`, `SecondFactorProofs`, `LockoutProofs` | theorems | the proof system |

`RollbackSync` extends `SyncEngine`, which extends `VaultItems`; `VaultItemsTx` and
`VaultHistory` extend `VaultItems`, and `SyncHistory` extends `SyncEngine` and
`VaultHistory`; `SessionClient` extends `Sessions`. The two
families meet only at the 401 that makes a command rotate the session, so they
are checked apart: a failed request of `SyncEngine` stands for whatever the
session did to it. `Recovery` extends `AccountKeys` and meets the others in what it
says of them: its commit is the `RevokeAll` of `Sessions` and the recovery among
the disasters of `RollbackSync`, its push is an accepted write of the store, and
`HasBackup` is what `Addresses` establishes. `Addresses`, `SecondFactor` and
`Lockout` share no rows with each other: a login is all three in turn, and each
leaves open what the others decide.

### The item store: `VaultItems`

`rows` is the table `vault_items` of one account, a function from identifiers to
rows (`NoRow` where there is none), `sync_seq`, `purged_before_seq` and
`checkpoint` the columns of its `accounts` row. `PutItem`, `DeleteItem`,
`PutCheckpoint` and `Purge` are the handlers that change something; `PutMatches`,
`DeleteMatches`, `FullResync` and `Listed` are what the other answers are made
of. Accounts do not interact in the store, so one is modelled. Envelopes are
opaque. The clock is abstracted: `updated_at` follows the wall clock, which may
be set, so a purge may remove any set of tombstones; it raises the horizon to
the largest of their sequence numbers.

### Transactions: `VaultItemsTx`

A request is received, waits for a connection, begins (its snapshot is `view`),
decides from the row it read, makes its first write - which takes the lock, or is
refused when another transaction has committed since the snapshot ("stale") or
holds the lock for too long - makes its second write, and commits. A 409 reads
the row again after its transaction is dropped. Failures at any point, a crash
of the server and commits of other accounts (which also make snapshots stale,
the file being one) are actions. `elsewhere` counts the connections that the rest of
the server has taken from the pool (`OtherConnects`, `OtherReleases`), so that a
request may find none and has to wait. SQLite and sqlx are external: WAL mode, deferred
`BEGIN`, `SQLITE_BUSY_SNAPSHOT` and `SQLITE_BUSY`, as `db.rs` configures them.

### Devices: `SyncEngine`

Each device has `replica`, `queue` and `last_seq` (SQLite, durable) and `phase`,
`pulled` and `report` (memory). `OpenItem`, `SaveItem` and `RemoveItem` are the desktop's
commands; the session's mutex keeps them out of a running cycle. `editor` is what the
editor of a device shows of its item: what `get_item` returned when it was opened.
It stays open while the device syncs, and `save_item` takes its base revision from the
replica as it is by then; `seen` in an op is what the editor showed. A cycle is
`Pull`, then one push action per op (`PushUpsert`, `PushDelete`,
`PushDeleteAgain`, `PushRejected` with `MergeConflict`, `PushNotFound`), then
`AdvanceCursor`, then `StageCopy` and `Finish` for what `sync_now` does with the
report. `PullCut`, `TailCut`, `Abandon` and the branches of `Accepted` and
`ServerWins` are the failures: requests that never arrive, responses that do not
come back, a device that dies between two of its local transactions, a caller
that ignores the report. The handlers of the server are taken as atomic, which
`VaultItemsTx` justifies; between the check of a refused push and the reading of
the row for its 409 other requests may come.

History variables take the known exceptions out of the properties: `revived` (a
delete retried over a row the device has adopted meanwhile keeps the adopted
content, under the revision of the tombstone, so that the next edit of it passes
the server's check over what its user does not see), `orphaned` (an item deleted
and purged before the device's first cycle ended: cursor 0 never asks for a
resync), `purged` (a retried create of an item that was deleted and purged is
accepted again, a purged row being revision 0) and `stacked` (an edit on top of
what its editor did not show: a second queued edit of an item takes its revision
from the first one, and one from an editor that a sync has overtaken takes it from
what the sync brought; both pass the check over somebody else's write). Each is
what the code does, and each would be a violation without its exception.

### The rollback guard: `RollbackSync`

`guard` is where `synchronize` stands around the cycle of a device: it reads the
checkpoint (`Verify`, or one of the alarms `VerifyForged`, `VerifyRewound`), runs the
cycle (`RunCycle`, `EndCycle`; `PullRewound` and `TailRewound` are the engine's own
guard), compares with what the checkpoint vouched for (`Withheld`) and publishes
(`Publish`, `PublishLost`). A tag is told apart by the vault key that made it:
`account_key` is the account's, `device_key` that of the unlocked session.

Disasters are what the guard is for: the administrator restores a backup, the
account is recovered with or without its kit, devices log in again. At most one
happens in a behaviour. Backup and restore are outside the code (docs/RUNBOOK.md
describes them) and marked external. `unpublished` is a history variable: a device
whose cursor moved and whose checkpoint did not arrive. The history of the
engine (`Record`) is kept along, so that its theorems can be stated of both together.
A recovery resets the cursor of the device that recovers (`CursorAfter`) and keeps its
queue; `GuardedCursorSound` says that nothing is forgotten over it. A login and a
recovery close the editor.

### Sessions: `Sessions`, `SessionClient`

`sessions` is the table of one account, a row per pair of tokens, numbered in the
order of insertion, families named for their first row. Every handler is a few
statements with other requests between them: `StartLogin`, `PurgeExpired`,
`OpenSession`; `MeetRetired`, `RevokeFamily` (reuse); `AcceptRefresh`, `Retire`,
`Renew` (rotation); `Authenticate` and then `Logout`, `RevokeDevice` or
`RevokeOthers`. `RevokeAll` is the last statement of a recovery's transaction.
`Drop` ends a handler anywhere. Credentials, second factor and lockout come
before `StartLogin` and are not part of this module. `AcceptRefresh` is the read of the
row, `Retire` and `Renew` are the two writes; nothing repeats the condition of the read.
`RenewedRetired` therefore says of tokens with a successor that they are retired, and
not that there is one successor: that is `SingleUse`, which the code does not keep.

`SessionClient` gives devices an `access` and a `refresh` token in memory and a
`stored` one on disk. A `call` is the command under way: "sync" writes the token to
disk when it went well, "quiet" is a sync whose outcome its caller ignores, "other"
any other command with a request. A 401 makes the call rotate the session
(`Rotate`) and try once more. `Granted`, `Refused`, `Broken` and `Lost` are the ends
of a login or refresh the device waits for; `Lock` and `Kill` clear the memory.
`Stranger` is anybody else with a token. Login and unlock work outside the mutex
until they open the vault; the interface does not start two of them at once, nor
does the model.

### Recovery: `AccountKeys`, `Recovery`, `RecoveryPromise`

`AccountKeys` is the client's half: a build of `build_registration` takes a new
password and a new kit, named for the number of the build; derived keys, wrapped
keys and the verifier are symbolic, so that whether a password opens a vault is an
equation between names. The ciphers behind it are taken as ideal.

`Recovery` has the key columns of one account (`account`), the Vault Keys its
stored items are encrypted under (`items`), a session per device with the keys it
was opened under, the table of requests, and for each request the mailboxes its
tokens went to (`told`; "nobody", when the mail to the owner got lost: the mailer
keeps that to itself and the handler goes on to the backup address). `call[d]` is
where the command of a device stands. Filing a request is `Start`, `Supersede`,
`InsertRequest`, `WarnOwner` and `MailBackup`, two statements and two mails of
`start` without a transaction; `Cancel` is the link in the mail. Completing one is
`RecoverWithKit` or `RecoverByWipe` (the `data` handler and the new keys the
desktop builds), `Admit` (the lookup), `CheckVerifier`, `CommitRecovery` (the
transaction) and `ShowKit`. A change of password is `StartChange` and
`CommitChange`. `StartLogin`/`OpenSession`, `StartRefresh`/`RenewSession` and
`StartPush`/`PushItem` are what else reads under one set of keys and writes under
the next. `Abandon` ends a command anywhere. The history variable `overtaken`
names the kinds of call that wrote after the keys they had read were replaced,
"start" for two requests filed at once, and "answer" for a new kit whose answer
was lost; each property says which kinds it excepts.

`RecoveryPromise` knows nothing of statements: a request is filed, told or missed (the
owner's mail got lost), withdrawn, admitted and completed, a password is proved and
replaced. `Recovery` implements it
under the mapping at the end of the module: a request is admitted from the lookup
that let its completion in until the commit, so what the promise does not say is
that a withdrawal in between is still heard - the code does not hear it.

### Addresses: `Addresses`

`account` is the row (exists, verified, backup address, its verification),
`tokens` the table `email_tokens`, `inbox` the tokens whose mail has come. A handler
is at `call[c]`: registration inserts the account, then the token, then sends the
mail, and can break off between any two; a resend is throttled by the age of the
newest token; a link is looked up, used and marked in three statements. Setting a
backup address mints a token like any other. The token names the account and not
the address, so `switched` records that a backup address was replaced while a token
of another one was good; `BackupConfirmed` excepts that.

### Second factor: `SecondFactor`

`totp` is the row, `codes` the unused recovery codes. The authenticator's clock is
relative: a tick moves every step one back. `CheckActive`, `SelectTotp` and
`UpdateTotp` are the use of a code, `WriteSecret` the upsert of an enrollment,
`ConfirmSensitive` the use of a code in front of a change of password or of the
backup address, which verifies and consumes nothing ("fresh" or "reused": whether
the code was consumed before), `Activate` and `SetActive` the two statements of an
activation, `DeleteTotp` and `DeleteCodes` those of a removal, `PurgeCodes` and
`InsertCode` the issuing of recovery codes one by one. `spent` and `confirmed` are
history: the newest step of each secret that let somebody in, and the secrets a
code was shown of. `mishaps` names the overlaps the properties except: an
enrollment between the statements of an activation, a removal while a code is on
its way to the row, two issuings.

### Login: `Lockout`

`failed` and `lock` are the columns of the account, `recent` the failures of each
address by age (in memory, lost at a restart), `active` and `ended` the sessions
of each device label. A login that fails is `Login`, `Record`, `CountFailure` and
`Warn`; one that succeeds is `Login`, `Succeed`, `Look`, `CreateSession` and
`Notify`. `Rekey` is the reset of the counters by a recovery or a change of
password. `Abandon` is a handler dropped at an await, `Restart` the server's.
`streak` is the number of logins that failed since the last reset, from the moment they
fail, whether they are counted or not; `warned` and `told` are what was mailed.
`CountFailure` may fail without anybody noticing (`LoseCount`), and a handler may be
dropped before it (`CutShort`). `mishaps` names failures that met at the counter or did
not reach it, sessions that lapsed between the look and the insert, and mails that were
cut short.

`recent` are the failed logins to this account. The budget of an address is charged for
more: logins to other accounts, requests for recovery, and what is typed wrong inside a
session, which is charged without a check. All of it can only refuse a login earlier,
and a login of the model may always not start; no sum over everything that is charged
is claimed, and none would hold.

## 3. Runs

| Run | Shows | Bounds |
|---|---|---|
| `transactions` | the concurrent handlers implement `VaultItems` (`Spec`); what a writer works on is current; a listing is complete up to the `latest_seq` it reports; every request is answered, though it may have to wait for a connection | 2 concurrent requests, 2 connections, of which the rest of the server may hold both, 2 writes, 1 item: conflicts over a row need two requests, and a third is a later reuse of a slot |
| `sync` | a client at any earlier cursor that applies one listing has the vault of now; rows leave only under the horizon; sequence numbers are distinct; cursors are sound, ops are settled, an accepted edit replaces what the editor showed, a retried edit takes effect once | 2 devices, 2 items, 2 contents, 5 writes, queue of 2, 3 edits and 2 failures, 4 of both together, cycles as slow as the expiry of a tombstone: an editor left open over a sync, a retry after a purge and a cut listing fit |
| `converge` | all devices end up with an empty queue and with what the server has, the guard around the cycle included | 3 edits and 1 failure, 3 of both together, 3 items, 3 contents, queue of 3: two edits that conflict and the copy of the loser, one of them interrupted |
| `guard` | an honest server whose checkpoints arrive is not accused; after a recovery with the kit every device is as sound as before; no cursor goes back, except where the recovery resets it | 2 devices, 1 item, 3 writes, 2 edits, 1 failure, any one disaster |
| `client` | ceilings, retired tokens and revocation on the server; the reuse detection ends no living session unless a stranger presented a token, an answer was lost, the process died, or a rotation ended outside a successful sync | 1 device, 2 requests at a time, 3 rows, lifetimes of 1 and 2 ticks, 1 failure, 1 request of a stranger: a row, its successor and one more login fit |
| `recovery` | `Recovery` implements `RecoveryPromise`; one request is pending at a time; password, items, sessions and kit stay in step but for what overtakes them | 2 interchangeable devices, 2 requests, 3 sets of keys, cooling-off and window of 1 tick, 2 ticks, a verified backup address, behaviours cut after a second kind of overlap and where a request is filed too late to cool off: a request whose owner's mail is lost can be completed from the backup address, and one can be superseded, cancelled and completed against another one, a change of password, a login or a refresh |
| `addresses` | a backup address that counts has confirmed itself; no account stays unverified for ever | 2 requests at a time, 2 backup addresses, 2 tokens, lifetimes of 2 and 1 ticks, throttle of 1, 1 failure: the mail of a registration is lost and its token expires, and one address replaces another while its link is open |
| `second_factor` | a code is consumed once; an active secret was confirmed; recovery codes are of one set | 2 requests at a time, 2 secrets, 2 sets of 2 codes, requests up to 1 step old, behaviours cut after a second kind of overlap: names are reused, so the run is of unbounded length |
| `lockout` | counter, lock and warning agree with the failures; an address fails this account fewer times in a window than its budget and one per request that can be under way; a new device is announced | 2 logins at a time, 1 address, 1 device, threshold 2, lock of 1 to 3 ticks, budget 2 in a window of 2, 4 failures in a row: the lock doubles and meets its cap |
| `lost_edit`, `code_reused`, `two_successors` | the disagreements of section 5 | those of `sync`, `second_factor` and `client`, with one failure in the first |

Two devices suffice for the questions asked of the sync: each concerns one device
and "the others", whose writes reach it only through the store. In `client` the
others are strangers. In `recovery`, `second_factor` and `lockout` two actors make
every race the handlers can have over one row, whose statements touch nothing but
that row; what section 4 proves of their safety holds for any number of them, without the
constraints on overlaps. `converge` tells states apart by everything but the history
that `Record` keeps, `recovery` by what a request that is no longer pending can still
matter for, `transactions` by what a request that was answered can (`VIEW`).
Deadlock is not checked where the bounds (`MaxSeq`,
`MaxEdits`, `MaxTokens`, `MaxTime`) stop the system on purpose.

Fairness. `FairTxSpec`: handlers run (weak), those of the rest of the server too, which
give their connections back, and the pool serves the requests that wait for a
connection in turn (strong), as sqlx's fair queue does. Nothing
is assumed about clients. `FairGuardedSpec`: every device comes
back to sync, since each save, delete and import ends in `sync_now`, and so do
login, unlock and the user's sync button; its cycles proceed. Edits and failures
are bounded and not fair: convergence is about what follows the last of them.
`FairSpec` of `Addresses`: the server works on the requests it has and the clock
advances (weak); the owner of an unverified account asks for another link again
and again, one of the mails comes before its token expires, and the owner opens a
link that has come (strong, since a throttle, an expiry or a full server disables
each of these for a while). Without a persistent owner no account is ever
verified, and the code cannot change that; mails and requests may still fail, a
bounded number of times.

## 4. Proofs

All theorems hold for every value of the constants that satisfies the named
assumptions of `VaultItems`, `VaultItemsTx`, `SyncEngine`, `RollbackSync`,
`Sessions`, `Recovery`, `Addresses`, `SecondFactor` and `Lockout` (the sentinels
are not data, the bounds are naturals, the lifetimes are positive).

* `VaultItemsProofs`: `TypeCorrect`, `SequenceNumbersDistinct`,
  `PurgeUnderHorizon`. The inductive invariant `SeqInv` adds to the distinct
  sequence numbers that no row is ahead of the counter (`TableShape`): without it
  the next number could be taken already.
* `ItemStoreProofs`, for clients: `DeltaInvariant` and `ListingsComplete`. The argument: where
  a vault of the past differs from today's, the row has changed since and carries
  a larger sequence number, or it was purged under a horizon that has passed that
  vault (`DifferenceListed`); a listing gives out the first and asks for a resync
  in the second case. A difference at cursor 0 cannot be a purged row, because the
  vault of sequence number 0 is empty (`HistoryShape`).
* `ItemStoreProofs`, for transactions: `TransactionsImplementStore` (`TxSpec => Spec`), `WriteLock`,
  `WritersFresh`, `ListingsWhole`. `TxInv` joins the type invariant, the lock and the freshness of
  open and writing transactions with what a written transaction will commit; with
  it `Commit` is a step of `VaultItems` and everything else a stutter. `WriteLock`
  (one writer at a time) is what the others rest on. `ListingsWhole`: a view stays
  right about the live rows up to its own counter (`SeesLive`), since a live row that
  is new in the table has a new number and a purge takes only tombstones; so a
  listing that answers late, or after its own purge, is still complete up to there.
* `SyncProofs`, for devices: `SyncTyped`, `CursorsSound`, `OpsAllSettled` and
  `SyncImplementsStore` (`SyncSpec => Spec`). `DeviceInv` says of a running cycle that
  the replica is sound at two sequence numbers, the cursor and `pull.latest_seq`
  (`Covered`): the first is what an interruption leaves, the second what
  `AdvanceCursor` may adopt, and where the tail asks for a resync it is what the
  cursor becomes. An item whose last queued op is a delete shows as deleted
  (`DeleteLast`), so that the accepted delete leaves nothing behind. The server's part
  of a step (`ServerMoves`) writes under a new number, or purges under a horizon that
  reaches the row, and so keeps every device sound (`ServerKeepsSound`); the device's
  own part touches one item (`LocalStep`) or lays a listing over the replica.
* `SyncProofs`, for edits: `EditsCommittedOnce` and `SingleEditsSeen`. An edit is told
  apart by its item and its envelope, and two queues hold the same edit only as the
  same op (`OnceInv`); once it was accepted, the row has reached its revision, and a
  row only falls behind again when it is purged. `SeenInv` compares versions by
  revision: on an item that is not excepted there is at most one op, made on the
  version the row has at that revision if it has not moved on (`Basis`); without an
  op the device shows the row's version or an earlier revision (`Known`); a refused
  op has lost for good (`Passed`), so that what is adopted in its place is newer.
  The attempt to prove it is what brought `revived` into the property: no instance
  of the run reaches the five edits of one item it takes to get there.
* `SyncProofs`, for the guard: `GuardedTyped`, `CursorsAdvance` and
  `HonestServerTrusted`. The steps of the engine enter by their shape only: a step
  keeps the cursor, takes a sequence number with the pull, or moves the cursor to one
  (`CycleShape`). `GuardedInv` adds that a cycle under way has pulled at least to its
  cursor, and that the backup is sound, since it may become the database. `Trusted`
  adds, while nothing was restored or wiped and nothing unpublished, that the
  checkpoint has the account's key and reaches every cursor whose cycle does not
  stand right before its publication, and that what a cycle verified is reached by
  what it pulls: each of the five alarms contradicts one of these (`NoFalseAlarm`).
* `SyncProofs`, for the engine inside the guard: `GuardedCursorsSound`, `GuardedEdits`,
  `GuardedOpsSettled`, `GuardedDoneMirror` and `GuardImplementsStore`. The invariants of
  the engine (`EngineInv`: `SyncInv`, `OnceInv`, `SeenInv`) survive the guard because a step
  is one of the engine's or only ends cycles, writes a checkpoint or starts a replica
  again at cursor 0 (`Rests`, `RestsKeep`). A restored server or a wipe ends them
  (`Undamaged`): rows and revisions go back then. That no op is dropped needs none of
  this and holds throughout. `DoneDevicesMirror` and `GuardedDoneMirror` are what
  convergence says apart from progress: an empty queue and a cursor at the server's
  counter mean the vault of the server.
* `SessionsProofs`: `SessionsTyped`, `LifetimesCapped`, `RenewedTokensRetired`,
  `RevocationFinal`. `SessionInv` says of rotations under way what the three
  properties say of rows: a rotation carries the ceiling of its family
  (`CeilingsKept`), its old row is retired before the successor is inserted
  (`RetiredFirst`), and no family that has been revoked has one. The proof splits
  the steps in two: those that insert no row (`NoInsertion`), which only revoke or
  delete rows and move requests where they may go (`MayRotate`), and the two that
  insert one (`Insertion`).
  With devices: `ClientTyped`, `ClientImplementsSessions` (`ClientSpec => Spec`) and
  its consequence `SessionsOfDevices`. What a device holds was given out (`Held`,
  from `Answered`), so whatever it presents is a request `Sessions` knows
  (`ServerView`); `Held` also says that a locked vault has no access token, without
  which a device could be left with an access token and nothing to renew it.
  `ReuseWellFounded` (`NobodyWronglyAccused`) needs an account of which token is where.
  Its invariant `LineInv` follows the line of tokens of every family that is not
  suspected: a device at rest has the newest token of its family in memory, or on
  disk when memory is empty (`Last`: no other row of the family is active and no
  rotation of it is under way, `Alone`), and what the disk has while memory is ahead
  of it is an older token of the same family (`Resting`); a device that waits has it
  at its request, or is about to be given it (`AtWork`). No family is at two devices
  (`Apart`). The server's reuse step then meets only families that are suspected or
  that have no active row left (`Accused`). Time matters as well: the purge of expired rows
  must not take a successor and leave the token it replaced, so the successor's
  window closes no earlier (`SuccessorOf`), which holds since no window reaches
  further than `RefreshTTL` from now (`Clock`). The server's part of the argument is stated once, as what any
  step does to rows and rotations (`Ages`); whether it disturbs a line is then
  decided by whose rotation begins (`Steady`).
* `RecoveryProofs`: `RecoveryTyped`, `PasswordStaysGood`, `ItemsStayReadable`,
  `SessionsStayCurrent`, `KitStaysGood`, `PromiseKept` and `RequestsSupersede`. `RecoveryInv` adds to the
  properties what calls under way may hold: keys on their way carry a password that
  no call has read at the server (`FreshKeys`), a change that was confirmed under the keys in force carries
  their salt (`SaltKept`), whoever may still write under the keys in force holds
  their Vault Key (`VaultKept`), a login or a refresh knows the password it was let in with
  (`LoginsKnown`), both copies agree in every bundle (`Agreement`), the owner's mail
  is sent, or lost, before any other (`OwnerFirst`) and a kit is on its way to the screen
  (`KitKept`). `PromiseKept` maps each statement to a step of `RecoveryPromise` or to
  a stutter; `OwnerFirst` is what makes `Admit` a step of it. `OnePending` adds to
  `OneRequestPending` that nothing is pending, and nobody else inserts, while a request is
  inserted.
* `AddressesProofs`: `AddressesTyped`, `BackupsConfirmed`. While nothing was replaced
  under a good token, no token, and no request that holds or mints one, is of
  another address than the one that is set (`Settled`), and a link that is being
  followed was opened (`Followed`); marking the account is then about that address.
* `SecondFactorProofs`: `FactorTyped`, `CodesCountOnce`, `OnlyConfirmedSecrets`,
  `CodesOfOneSet`. The row remembers the newest step not only of its own secret but
  of every secret whose code is on its way to it (`Counting`): that is why the
  repeated condition of the update suffices even when an enrollment has replaced
  the secret, and why only a removal, which forgets the step, is excepted.
* `LockoutProofs`: `LockoutTyped`, `FailuresAllCounted`, `DevicesAllAnnounced`. The
  invariant adds that a login which has seen a session of its device finds it there
  (`SeenStays`). `FailuresCounted` sets the failures since the reset against the counter
  and the requests that are still to write it (`Rejected`), whose number changes by one
  with a login that fails and with one that is counted (`OneRejected`, `OneCounted`). The
  types say more than their name: of the logins to this account, an address fails
  fewer than its budget and one per request that can be under way, since a login checks
  first and is charged last. `BudgetKept` adds up what is recorded and what is owed; the failures of
  an address are counted one by one (`OneByOne`), so that the theorems about
  cardinalities of finite sets apply. They need the requests under way to be finitely
  many.

`DeltaInv` of `VaultHistory` and `TxTypeOK` of `VaultItemsTx` are proved as parts of
inductive invariants and are in no run.

Only model-checked: liveness under fairness (`Answered`, `Convergence`,
`EventuallyVerified`), which the prover does not handle; these are shown for the
instances of section 3 only. Every invariant and every action property of the passing
runs is a theorem.

## 5. What the code does not promise

Three runs expect a violation:

* `EditsAccounted` (`lost_edit`): a losing edit leaves the durable queue while its
  only copy is in the report, and the report dies with a later failed request, or
  is ignored by login, unlock and the second pass.
* `NoCodeReused` (`code_reused`): `confirm_sensitive` verifies a code and does not ask
  whether it was consumed (recovery.rs:456), so the code of a login serves once more, for
  a change of the password or of the backup address, against mfa.rs:92 and
  docs/THREAT_MODEL.md:174.
* `SingleUse` (`two_successors`): two refreshes with one token that both read the row
  before either retires it are both given a successor (auth.rs:386), against auth.rs:320
  and docs/THREAT_MODEL.md:139.

Modelling met more behaviours in which two parts of the code do not fit. They are
in the models, and the properties name them as exceptions:

* two queued edits of one item: the first loses, the second passes the check over
  the winner; and an edit of what the editor showed before a sync, whose base revision
  `save_item` takes from what the sync brought, passes the check over a version its user
  never saw (`stacked` in `SyncEngine`; docs/REVIEW_RESPONSE.md:217 says that devices
  cannot overwrite each other's writes);
* a device that dies between adopting a row and dropping the delete that lost to it
  retries the delete; if another device has deleted the item meanwhile, the retry is
  accepted and gives the adopted content the revision of the tombstone, and the next
  edit of it passes the check over the delete (`revived`);
* an item deleted and purged before a device's first cycle ended stays on it, and a
  retried create of an item deleted and purged meanwhile is accepted again
  (`orphaned` and `purged`);
* a lost publication of a checkpoint, which the code calls best-effort, makes every
  later cycle of that device report a rollback until another device publishes
  (`unpublished` in `RollbackSync`, rollback.rs:80);
* a restored server is not noticed by a device once others have written past its
  cursor; after a wipe the checkpoint of the old key stays, and every device takes
  it for forged (`TrustedWhilePublished` speaks of neither);
* a rotation outside a successful `sync_now` is not written to disk: after the next
  lock the device replays the retired token itself and the server revokes its
  family (`NobodyWronglyAccused` in `SessionClient`);
* a rotation that had read its row before a revocation inserts its successor all
  the same (`ended` in `Sessions`), also when the revocation is that of a recovery or a
  change of password, after which every other session is said to be signed out: the
  session goes on, and after a wipe it pushes under the old key (`overtaken`, "refresh",
  in `Recovery`);
* the reuse detection revokes the family of the token, where auth.rs:321-322 speaks of
  every session of the account (`RevokeFamily`);
* a vault opened while the network was away has a refresh token and no access token,
  and `authed` needs the latter before it would rotate: it stays offline until it is
  locked and unlocked (api.rs:718; in the model, in no property);
* a change of password that was confirmed before a wipe commits after it with the
  old salt, and the password no longer opens the vault (`overtaken`, "change"); the
  kit still does (`KitOpensVault`);
* a login accepted with the password of before opens its session after the keys
  changed, and a write let in before a wipe lands after it under a key nobody has
  ("login", "push"); the answer that carries a new kit may be lost ("answer");
* a mail to the owner that the mailer fails to deliver is logged and forgotten, and the
  backup address gets its token all the same (mailer.rs:105): a request can be completed
  of which the owner has not heard (`Miss` in `RecoveryPromise`);
* a withdrawal after the completion has looked its token up is answered "Your account is
  unchanged" (recovery.rs:421), and the completion goes through;
* two requests filed at once are both pending, and the cancel link of one leaves the
  other (`overtaken`, "start"; recovery.rs:40);
* the link of a former backup address confirms the present one (`switched`);
* an enrollment between the statements of an activation activates a secret nobody
  confirmed; a code on its way while the factor is removed meets the row of the
  next enrollment; two requests that issue recovery codes leave some of both
  (`mishaps` in `SecondFactor`);
* parallel failures are counted once, and a failure whose UPDATE fails (auth.rs:45), or
  whose handler is dropped before it, is not counted, where docs/THREAT_MODEL.md:125
  counts every failed attempt; wrong passwords and codes inside a session are charged to
  the address without a check (recovery.rs:442); a session that ends while a login of its
  device is between look and insert leaves that login unannounced (`mishaps` in
  `Lockout`).

## 6. Plan

Done: the item store with its transactions, the sync engine, the rollback guard,
sessions and the session client, recovery and change of password against an
abstract promise, accounts and the backup address, the second factor, login and
lockout; theorems on all of them.

Not modelled, and why:

* the in-memory vault, the item helpers, the generator and the import formats of
  the client: sequential conversions of data the server never sees, tested as such;
* padding, envelope and code formats of the cryptographic core: bytes; its key
  hierarchy is in `AccountKeys`;
* change notifications: no client subscribes;
* memory hardening, the server shell (configuration, headers, static files), the
  web interface: no state that a property here would be about;
* the idle clock of the auto-lock: a lock may come at any moment in
  `SessionClient`, which covers every value of the timeout.

Next: a larger instance of `sync` with a third device; imports, which stage many items
under one lock.

------------------------------- MODULE Recovery --------------------------------
(***************************************************************************)
(* Account recovery and the change of the master password: the handlers of *)
(* routes/recovery.rs, statement by statement, and the desktop commands    *)
(* that drive them (recover_start, recover_complete, change_password,      *)
(* login, the renewal of a session, a push of an item).                    *)
(*                                                                         *)
(* A request for recovery is named for its pair of tokens; both travel in  *)
(* one mail, to each mailbox its own.  A mail can get lost, and the mailer *)
(* keeps that to itself.                                                   *)
(* Who reads the mail of an account can file, cancel and complete; what    *)
(* they cannot do without a kit is keep the data.  A device has one        *)
(* command in hand at a time.  A command can die at any stage, with its    *)
(* device, its connection or the server.                                   *)
(***************************************************************************)
EXTENDS AccountKeys

CONSTANTS
  Devices,      \* the devices that hold, or try to get, the account
  MaxRequests,  \* bound on the requests for recovery
  HasBackup,    \* whether a verified backup address is set (see Addresses)
  Cooloff,      \* recovery_cooloff_secs, in ticks of the clock
  Window,       \* COMPLETION_WINDOW_SECS
  MaxBuilds,    \* bound on the sets of keys built
  MaxTime       \* bound on the clock

ASSUME RecoveryAssumption ==
  /\ MaxRequests \in Nat
  /\ HasBackup \in BOOLEAN
  /\ Cooloff \in Nat \ {0}
  /\ Window \in Nat \ {0}
  /\ MaxBuilds \in Nat \ {0}
  /\ MaxTime \in Nat

VARIABLES
  account,   \* the key columns of the account's row
  items,     \* the Vault Keys under which the stored items are encrypted
  session,   \* session[d]: the session of d and the keys it was opened under
  requests,  \* the table recovery_requests
  told,      \* told[q]: where the tokens of q went; "nobody": the owner's mail got lost
  now,       \* the clock
  builds,    \* number of sets of keys built so far
  call,      \* call[d]: where the command of the device stands
  shown,     \* the kits that were shown to the user
  overtaken  \* kinds of call that wrote after what they had read was replaced

vars == <<account, items, session, requests, told, now, builds, call, shown, overtaken>>
serverVars == <<account, items, session, requests, told>>
clientVars == <<builds, shown>>

Requests == 1..MaxRequests
Mailboxes == IF HasBackup THEN {"owner", "backup"} ELSE {"owner"}

Unfiled == [filed |-> FALSE, cancelled |-> FALSE, completed |-> FALSE, usable_at |-> 0]

\* None, or revoked.
SignedOut == [era |-> 0, salt |-> 0, vault |-> 0]

Filing == {"supersede", "insert", "warn", "mail"}
Completing == {"fetched", "admitted", "verified"}
Stages == Filing \cup Completing \cup {"idle", "confirmed", "answer", "login", "refresh", "push"}

\* era: the password of the keys the call has read last.
Idle ==
  [stage |-> "idle", request |-> 0, since |-> 0, era |-> 0, keep |-> FALSE,
   bundle |-> Register(0)]

Era == account.auth.password

At(d, stage) == call[d].stage = stage
Move(d, stage) == call' = [call EXCEPT ![d].stage = stage]
End(d) == call' = [call EXCEPT ![d] = Idle]

\* History: the call writes although the keys it read are no longer in force.
Overtake(d, kind) ==
  overtaken' = IF call[d].era # Era THEN overtaken \cup {kind} ELSE overtaken

-----------------------------------------------------------------------------
(* A request is filed: four steps, none of them in a transaction. *)

Pending(q) == requests[q].filed /\ ~requests[q].cancelled /\ ~requests[q].completed

Unused(q) == ~requests[q].filed /\ \A d \in Devices : call[d].request # q

Fresh(q) == Unused(q) /\ \A p \in Requests : Unused(p) => q <= p

\* The address names the account; a session is not needed.
Start(d, q) ==
  /\ At(d, "idle")
  /\ Fresh(q)
  /\ call' = [call EXCEPT ![d] = [Idle EXCEPT !.stage = "supersede", !.request = q, !.since = now]]
  /\ UNCHANGED <<serverVars, now, clientVars, overtaken>>

\* Mutant: the requests of before are left alone.
SupersedeNone == UNCHANGED requests

SupersedePending ==
  requests' = [q \in Requests |->
                 IF Pending(q) THEN [requests[q] EXCEPT !.cancelled = TRUE] ELSE requests[q]]

\* History: "start", when a request that is about to be inserted is not there yet.
Supersede(d) ==
  /\ At(d, "supersede")
  /\ SupersedePending
  /\ Move(d, "insert")
  /\ overtaken' = IF \E e \in Devices : At(e, "insert") THEN overtaken \cup {"start"} ELSE overtaken
  /\ UNCHANGED <<account, items, session, told, now, clientVars>>

InsertRequest(d) ==
  /\ At(d, "insert")
  /\ requests' = [requests EXCEPT ![call[d].request] =
       [Unfiled EXCEPT !.filed = TRUE, !.usable_at = call[d].since + Cooloff]]
  /\ Move(d, "warn")
  /\ UNCHANGED <<account, items, session, told, now, clientVars, overtaken>>

\* The mail with both tokens, to one mailbox.
Mail(d, mailbox) == told' = [told EXCEPT ![call[d].request] = @ \cup {mailbox}]

\* The mailboxes in which the tokens of a request are.
Holders(q) == told[q] \cap Mailboxes

\* Mutant: an account with a backup address is not written to at its own.
WarnBackupOnly(d) ==
  /\ At(d, "warn")
  /\ IF HasBackup THEN UNCHANGED told ELSE Mail(d, "owner")
  /\ Move(d, "mail")
  /\ UNCHANGED <<account, items, session, requests, now, clientVars, overtaken>>

\* The mailer logs a failure and returns; the handler goes on.
WarnOwner(d) ==
  /\ At(d, "warn")
  /\ Mail(d, "owner") \/ Mail(d, "nobody")
  /\ Move(d, "mail")
  /\ UNCHANGED <<account, items, session, requests, now, clientVars, overtaken>>

\* Mutant: a backup address counts before it is confirmed.
MailUnconfirmed(d) ==
  /\ At(d, "mail")
  /\ \E mailbox \in {"backup", "unconfirmed"} : Mail(d, mailbox)
  /\ End(d)
  /\ UNCHANGED <<account, items, session, requests, now, clientVars, overtaken>>

MailBackup(d) ==
  /\ At(d, "mail")
  /\ \/ HasBackup /\ Mail(d, "backup")
     \/ UNCHANGED told
  /\ End(d)
  /\ UNCHANGED <<account, items, session, requests, now, clientVars, overtaken>>

\* One click in the mail, one statement.
Cancel(q) ==
  /\ Holders(q) # {} /\ Pending(q)
  /\ requests' = [requests EXCEPT ![q].cancelled = TRUE]
  /\ UNCHANGED <<account, items, session, told, now, clientVars, call, overtaken>>

-----------------------------------------------------------------------------
(* A request is completed.  The device first asks for the data, builds new *)
(* keys, and presents them together with the token.                        *)

FindActive(q) == Pending(q) /\ now < requests[q].usable_at + Window

CooledOff(q) == requests[q].usable_at <= now

\* The data are released to the holder of the token.
Released(q) == Holders(q) # {} /\ FindActive(q) /\ CooledOff(q)

Present(d, q, bundle, keep) ==
  /\ At(d, "idle")
  /\ builds < MaxBuilds
  /\ builds' = builds + 1
  /\ call' = [call EXCEPT ![d] =
       [Idle EXCEPT !.stage = "fetched", !.request = q, !.keep = keep, !.bundle = bundle]]
  /\ UNCHANGED <<serverVars, now, shown, overtaken>>

\* With a kit that was once shown, if it still opens the second copy.
RecoverWithKit(d, q) ==
  /\ Released(q)
  /\ \E kit \in shown : Unwraps(kit, account.recovery)
  /\ Present(d, q, RecoverAndRekey(builds + 1, account.salt, account.recovery), TRUE)

RecoverByWipe(d, q) == Released(q) /\ Present(d, q, Register(builds + 1), FALSE)

\* complete looks the token up again; a wipe has nothing else to prove.
Admit(d) ==
  /\ At(d, "fetched")
  /\ FindActive(call[d].request) /\ CooledOff(call[d].request)
  /\ call' = [call EXCEPT ![d].stage = IF call[d].keep THEN "admitted" ELSE "verified",
                          ![d].era = Era]
  /\ UNCHANGED <<serverVars, now, clientVars, overtaken>>

CheckVerifier(d) ==
  /\ At(d, "admitted")
  /\ call[d].bundle.verifier = account.verifier
  /\ call' = [call EXCEPT ![d].stage = "verified", ![d].era = Era]
  /\ UNCHANGED <<serverVars, now, clientVars, overtaken>>

\* A call that is refused, or that dies.
Abandon(d) ==
  /\ ~At(d, "idle")
  /\ End(d)
  /\ overtaken' = IF At(d, "answer") THEN overtaken \cup {"answer"} ELSE overtaken
  /\ UNCHANGED <<serverVars, now, clientVars>>

NoSession == [d \in Devices |-> SignedOut]

\* Mutant: whoever is signed in stays signed in.
RevokeNone == UNCHANGED session

RevokeAll == session' = NoSession

\* Mutant: the rows of the items are left where they are.
KeepItems(d) == items

\* A wipe deletes the items.
ItemsLeft(d) == IF call[d].keep THEN items ELSE {}

\* Mutant: the salt is taken for part of the account, as a change of password does.
KeepSalt(bundle) == [bundle EXCEPT !.salt = account.salt]

\* Every key column is replaced.
Recovered(bundle) ==
  [account EXCEPT !.auth = bundle.auth, !.salt = bundle.salt, !.master = bundle.master,
                  !.recovery = bundle.recovery, !.verifier = bundle.verifier]

\* One transaction.
CommitRecovery(d) ==
  /\ At(d, "verified")
  /\ items' = ItemsLeft(d)
  /\ account' = Recovered(call[d].bundle)
  /\ RevokeAll
  /\ requests' = [requests EXCEPT ![call[d].request].completed = TRUE]
  /\ Move(d, "answer")
  /\ Overtake(d, "complete")
  /\ UNCHANGED <<told, now, clientVars>>

\* The device shows the new kit; after a recovery it keeps nothing.
ShowKit(d) ==
  /\ At(d, "answer")
  /\ shown' = shown \cup {call[d].bundle.recovery.key}
  /\ End(d)
  /\ UNCHANGED <<serverVars, now, builds, overtaken>>

-----------------------------------------------------------------------------
(* The master password is changed. *)

\* Proof of the password in force, derived with the salt the device holds.
SignedIn(d) == session[d] # SignedOut

ConfirmSensitive(d) == SignedIn(d) /\ account.auth.salt = session[d].salt

StartChange(d) ==
  /\ At(d, "idle")
  /\ ConfirmSensitive(d)
  /\ builds < MaxBuilds
  /\ builds' = builds + 1
  /\ call' = [call EXCEPT ![d] =
       [Idle EXCEPT !.stage = "confirmed", !.era = Era,
                    !.bundle = ChangePassword(builds + 1, session[d])]]
  /\ UNCHANGED <<serverVars, now, shown, overtaken>>

\* Mutant: the kit of before is still accepted.
RekeyPassword(bundle) == [account EXCEPT !.auth = bundle.auth, !.master = bundle.master]

\* The salt is not among the columns: it never rotates on a change.
Rekeyed(bundle) ==
  [account EXCEPT !.auth = bundle.auth, !.master = bundle.master,
                  !.recovery = bundle.recovery, !.verifier = bundle.verifier]

\* Every other device is signed out; the caller's session, if it still has one, goes on.
CommitChange(d) ==
  /\ At(d, "confirmed")
  /\ account' = Rekeyed(call[d].bundle)
  /\ session' = [NoSession EXCEPT ![d] =
       IF SignedIn(d) THEN [session[d] EXCEPT !.era = call[d].bundle.auth.password] ELSE SignedOut]
  /\ Move(d, "answer")
  /\ Overtake(d, "change")
  /\ UNCHANGED <<items, requests, told, now, clientVars>>

-----------------------------------------------------------------------------
(* What else reads or writes under these keys. *)

\* Accepted with the password in force; the row it read is what it will answer.
StartLogin(d) ==
  /\ At(d, "idle") /\ ~SignedIn(d)
  /\ account.auth.salt = account.salt
  /\ call' = [call EXCEPT ![d] = [Idle EXCEPT !.stage = "login", !.era = Era, !.bundle = account]]
  /\ UNCHANGED <<serverVars, now, clientVars, overtaken>>

\* The device goes on with the keys the call has read.
Install(d) ==
  session' = [session EXCEPT ![d] =
    [era |-> call[d].bundle.auth.password, salt |-> call[d].bundle.salt,
     vault |-> call[d].bundle.master.vault]]

OpenSession(d) ==
  /\ At(d, "login")
  /\ Install(d)
  /\ End(d)
  /\ Overtake(d, "login")
  /\ UNCHANGED <<account, items, requests, told, now, clientVars>>

\* A refresh token is looked at, and its row is read, before anything is written
\* (Sessions models the rest of a rotation).
StartRefresh(d) ==
  /\ At(d, "idle") /\ SignedIn(d)
  /\ call' = [call EXCEPT ![d] =
       [Idle EXCEPT !.stage = "refresh", !.era = Era,
                    !.bundle = ChangePassword(session[d].era, session[d])]]
  /\ UNCHANGED <<serverVars, now, clientVars, overtaken>>

\* The successor is active whatever became of the session since; the keys are the device's.
RenewSession(d) ==
  /\ At(d, "refresh")
  /\ Install(d)
  /\ End(d)
  /\ Overtake(d, "refresh")
  /\ UNCHANGED <<account, items, requests, told, now, clientVars>>

\* A write of an item: the session is looked at first, the row is written later.
StartPush(d) ==
  /\ At(d, "idle") /\ SignedIn(d)
  /\ call' = [call EXCEPT ![d] =
       [Idle EXCEPT !.stage = "push", !.era = Era, !.bundle = ChangePassword(0, session[d])]]
  /\ UNCHANGED <<serverVars, now, clientVars, overtaken>>

PushItem(d) ==
  /\ At(d, "push")
  /\ items' = items \cup {call[d].bundle.master.vault}
  /\ End(d)
  /\ Overtake(d, "push")
  /\ UNCHANGED <<account, session, requests, told, now, clientVars>>

Tick ==
  /\ now < MaxTime
  /\ now' = now + 1
  /\ UNCHANGED <<serverVars, clientVars, call, overtaken>>

-----------------------------------------------------------------------------
\* An account that was registered once, its kit printed, and nothing else.
Init ==
  /\ account = Register(1)
  /\ items = {}
  /\ session = NoSession
  /\ requests = [q \in Requests |-> Unfiled]
  /\ told = [q \in Requests |-> {}]
  /\ now = 0
  /\ builds = 1
  /\ call = [d \in Devices |-> Idle]
  /\ shown = {1}
  /\ overtaken = {}

Ask(d) ==
  \/ \E q \in Requests : Start(d, q) \/ RecoverWithKit(d, q) \/ RecoverByWipe(d, q)
  \/ StartChange(d)
  \/ StartLogin(d)
  \/ StartRefresh(d)
  \/ StartPush(d)

Serve(d) ==
  \/ Supersede(d)
  \/ InsertRequest(d)
  \/ WarnOwner(d)
  \/ MailBackup(d)
  \/ Admit(d)
  \/ CheckVerifier(d)
  \/ CommitRecovery(d)
  \/ CommitChange(d)
  \/ OpenSession(d)
  \/ RenewSession(d)
  \/ PushItem(d)

Next ==
  \/ \E d \in Devices : Ask(d) \/ Serve(d) \/ ShowKit(d) \/ Abandon(d)
  \/ \E q \in Requests : Cancel(q)
  \/ Tick

Spec == Init /\ [][Next]_vars

-----------------------------------------------------------------------------
(* Properties. *)

Call ==
  [stage : Stages, request : 0..MaxRequests, since : Nat, era : Nat,
   keep : BOOLEAN, bundle : Bundle]

TypeOK ==
  /\ account \in Bundle
  /\ items \subseteq Nat
  /\ session \in [Devices -> [era : Nat, salt : Nat, vault : Nat]]
  /\ requests \in [Requests -> [filed : BOOLEAN, cancelled : BOOLEAN,
                                completed : BOOLEAN, usable_at : Nat]]
  /\ told \in [Requests -> SUBSET (Mailboxes \cup {"nobody"})]
  /\ now \in Nat
  /\ builds \in Nat
  /\ call \in [Devices -> Call]
  /\ shown \subseteq Nat
  /\ overtaken \subseteq {"start", "complete", "change", "login", "refresh", "push", "answer"}

\* The password in force, with the salt that prelogin hands out, is accepted and
\* opens the Vault Key (recovery.rs:704: "Salt and Vault-Key identity are
\* preserved").  Not so when a change of password was confirmed before the keys
\* were replaced and commits after: it writes every column but the salt.
PasswordOpensVault ==
  "change" \notin overtaken =>
    /\ account.auth = DeriveKey(Era, account.salt)
    /\ Unwraps(account.auth, account.master)

\* Every item the server stores can be read with the keys in force: a wipe leaves
\* nothing of the old vault behind, and a recovery with a kit leaves all of it.
\* The exceptions are calls that read the account before its keys changed and write
\* after: a push, a login or a renewal, whose session then pushes under the old
\* Vault Key (auth.rs:386), and a completion or a change.
ItemsReadable ==
  overtaken \cap {"change", "complete", "login", "refresh", "push"} = {} =>
    items \subseteq {account.master.vault}

\* "All previous sessions have been signed out" (recovery.rs:371), and every other
\* one after a change (recovery.rs:722): whoever is signed in has signed in with, or
\* has set, the password in force.  The exceptions are a login that was accepted with
\* the password of before and a renewal that found its session active before; both
\* insert their session after, and it stays.
SessionsCurrent ==
  overtaken \cap {"login", "refresh"} = {} =>
    \A d \in Devices : SignedIn(d) => session[d].era = Era

\* Whatever overtakes what, both copies of the Vault Key and the verifier agree,
\* so that whoever holds the kit in force can set everything right; and that kit
\* is the one shown last, unless the answer that carried it was lost
\* (account.rs:156: the old kit stops working the moment the server stores the
\* new bundle).
KitOpensVault ==
  /\ account.master.vault = account.recovery.vault
  /\ account.verifier = RecoveryVerifier(account.recovery.vault)
  /\ \/ account.recovery.key \in shown
     \/ "answer" \in overtaken
     \/ \E d \in Devices : At(d, "answer") /\ call[d].bundle.recovery.key = account.recovery.key

\* "A new request supersedes any pending one" (recovery.rs:40), and the link that
\* cancels the last one cancels all there is.  The exception are two requests that are
\* filed at once: each looks before the other has inserted.
OneRequestPending ==
  "start" \notin overtaken => \A p, q \in Requests : Pending(p) /\ Pending(q) => p = q

-----------------------------------------------------------------------------
(* The promise that the handlers keep. *)

Status(q) ==
  CASE requests[q].completed -> "completed"
    [] requests[q].cancelled /\ ~requests[q].completed -> "withdrawn"
    [] Pending(q) -> "pending"
    [] OTHER -> "none"

Promise == INSTANCE RecoveryPromise WITH
  Provers <- Devices,
  clock <- now,
  status <- [q \in Requests |-> Status(q)],
  ready <- [q \in Requests |-> requests[q].usable_at],
  told <- {q \in Requests : "owner" \in told[q]},
  missed <- {q \in Requests : "owner" \notin told[q] /\ "nobody" \in told[q]},
  admitted <- {q \in Requests : \E d \in Devices :
                 call[d].request = q /\ call[d].stage \in {"admitted", "verified"}},
  proved <- {d \in Devices : At(d, "confirmed")},
  keys <- account

\* A request the owner was not written to about, that has not cooled off, or that was
\* withdrawn or outdated when its completion began, never changes the account
\* (recovery.rs:3: "e-mail access alone must never silently take over an account").
\* The promise has two exceptions, and they are the code's: a mail to the owner that
\* got lost, after which the backup address is still written to (mailer.rs:105), and
\* a withdrawal that comes after the completion has looked the token up; it is
\* answered "Your account is unchanged" (recovery.rs:421) and is not heard.
RecoveryKeepsPromise == Promise!PromiseSpec
=============================================================================

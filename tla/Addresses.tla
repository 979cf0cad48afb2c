------------------------------- MODULE Addresses -------------------------------
(***************************************************************************)
(* The e-mail addresses of one account and the tokens that confirm them:   *)
(* registration and verification of the account's own address              *)
(* (routes/accounts.rs), and the trusted backup address (routes/           *)
(* recovery.rs, set_backup_email to remove_backup_email).                  *)
(*                                                                         *)
(* Both share the table email_tokens.  A token travels in one mail, which  *)
(* arrives or is lost; opening its link is a request like any other.  Each *)
(* handler is a few statements without a transaction.  Tokens have an age  *)
(* instead of a date, and a token that is too old to be of any effect      *)
(* leaves the table, so that the clock needs no bound.                     *)
(***************************************************************************)
EXTENDS Naturals, FiniteSets

CONSTANTS
  Callers,    \* the requests the server works on at a time
  Backups,    \* the addresses that may become the backup address
  Owner,      \* the address of the account
  NoAddress,
  MaxTokens,  \* bound on the tokens that are in use at a time
  VerifyTTL,  \* VERIFY_TOKEN_TTL_SECS, in ticks of the clock
  BackupTTL,  \* BACKUP_VERIFY_TTL_SECS
  Cooldown,   \* RESEND_COOLDOWN_SECS
  MaxFailures \* bound on the requests that break off, and on the mails that get lost

ASSUME AddressesAssumption ==
  /\ Owner \notin Backups /\ NoAddress \notin Backups \cup {Owner}
  /\ MaxTokens \in Nat \ {0}
  /\ BackupTTL \in Nat \ {0}
  /\ Cooldown \in Nat \ {0}
  /\ MaxFailures \in Nat
  /\ VerifyTTL \in Nat /\ VerifyTTL > Cooldown

VARIABLES
  account,   \* the columns of the account's row
  tokens,    \* the table email_tokens
  inbox,     \* tokens whose mail has arrived
  call,      \* call[c]: where the handler of request c stands
  opened,    \* backup addresses one of whose mails has been opened
  switched,  \* whether the backup address was replaced while a token of another was good
  failures   \* number of failures so far

historyVars == <<opened, switched, failures>>
vars == <<account, tokens, inbox, call, historyVars>>

Tokens == 1..MaxTokens
Addresses == Backups \cup {Owner}

NoAccount ==
  [exists |-> FALSE, verified |-> FALSE, backup |-> NoAddress, backup_verified |-> FALSE]
NoToken == [address |-> NoAddress, age |-> 0, used |-> FALSE]
Idle == [stage |-> "idle", address |-> NoAddress, token |-> 0]

Registered == account.exists

\* The purpose of a token goes with the address it is mailed to.
TTL(address) == IF address = Owner THEN VerifyTTL ELSE BackupTTL
Expired(t) == tokens[t].age >= TTL(tokens[t].address)
Live(address) == {t \in Tokens : tokens[t].address = address /\ ~Expired(t)}

At(c, stage) == call[c].stage = stage
Move(c, stage) == call' = [call EXCEPT ![c].stage = stage]
Begin(c, stage, address) ==
  /\ At(c, "idle")
  /\ call' = [call EXCEPT ![c] = [Idle EXCEPT !.stage = stage, !.address = address]]
End(c) == call' = [call EXCEPT ![c] = Idle]

-----------------------------------------------------------------------------
(* A token is issued and mailed. *)

IssueToken(c) ==
  /\ At(c, "token")
  /\ \E t \in Tokens :
       /\ tokens[t] = NoToken
       /\ \A s \in Tokens : tokens[s] = NoToken => t <= s
       /\ tokens' = [tokens EXCEPT ![t].address = call[c].address]
       /\ call' = [call EXCEPT ![c].stage = "send", ![c].token = t]
  /\ UNCHANGED <<account, inbox, historyVars>>

\* The mail arrives.
Deliver(c) ==
  /\ At(c, "send")
  /\ inbox' = inbox \cup {call[c].token}
  /\ End(c)
  /\ UNCHANGED <<account, tokens, historyVars>>

-----------------------------------------------------------------------------
(* Registration. *)

\* An address that has an account is only sent a note.
Register(c) ==
  /\ Begin(c, "create", Owner)
  /\ ~Registered
  /\ UNCHANGED <<account, tokens, inbox, historyVars>>

\* The address is unique: of two inserts the second fails.
InsertAccount(c) ==
  /\ At(c, "create")
  /\ ~Registered
  /\ account' = [NoAccount EXCEPT !.exists = TRUE]
  /\ Move(c, "token")
  /\ UNCHANGED <<tokens, inbox, historyVars>>

Resend(c) ==
  /\ Begin(c, "throttle", Owner)
  /\ Registered /\ ~account.verified
  /\ UNCHANGED <<account, tokens, inbox, historyVars>>

\* Mutant: an account without a token counts as one that was just sent one.
NeverSent == \A t \in Live(Owner) : tokens[t].age < Cooldown

\* As told from the newest expiry.
RecentlySent == \E t \in Live(Owner) : tokens[t].age < Cooldown

Throttle(c) ==
  /\ At(c, "throttle")
  /\ IF RecentlySent
       THEN End(c)
       ELSE Move(c, "token")
  /\ UNCHANGED <<account, tokens, inbox, historyVars>>

-----------------------------------------------------------------------------
(* The backup address.  Its owner is signed in, which takes a verified      *)
(* account, and proves the password again.                                  *)

SetBackup(c, address) ==
  /\ account.verified
  /\ Begin(c, "set", address)
  /\ UNCHANGED <<account, tokens, inbox, historyVars>>

\* Tokens of another address can still confirm, or are just about to.
Confirmable(address) ==
  \/ \E t \in Tokens : tokens[t].address \in Backups \ {address} /\ ~tokens[t].used
  \/ \E e \in Callers : (At(e, "token") \/ At(e, "use") \/ At(e, "mark"))
                        /\ call[e].address \in Backups \ {address}

\* Mutant: an address that was verified stays so.
ChangeBackup(c) == [account EXCEPT !.backup = call[c].address]

NewBackup(c) == [account EXCEPT !.backup = call[c].address, !.backup_verified = FALSE]

WriteBackup(c) ==
  /\ At(c, "set")
  /\ account' = NewBackup(c)
  /\ switched' = (switched \/ Confirmable(call[c].address))
  /\ Move(c, "token")
  /\ UNCHANGED <<tokens, inbox, opened, failures>>

RemoveBackup(c) ==
  /\ account.verified
  /\ Begin(c, "remove", NoAddress)
  /\ UNCHANGED <<account, tokens, inbox, historyVars>>

\* Mutant: recovery falls back on the account's own address.
FallBack(c) ==
  /\ At(c, "remove")
  /\ account' = [account EXCEPT !.backup = Owner, !.backup_verified = TRUE]
  /\ End(c)
  /\ UNCHANGED <<tokens, inbox, historyVars>>

ClearBackup(c) ==
  /\ At(c, "remove")
  /\ account' = [account EXCEPT !.backup = NoAddress, !.backup_verified = FALSE]
  /\ End(c)
  /\ UNCHANGED <<tokens, inbox, historyVars>>

-----------------------------------------------------------------------------
(* A link is opened. *)

\* Known, not used, and not too old; read before it is written.
Open(c, t) ==
  /\ t \in inbox /\ ~tokens[t].used /\ ~Expired(t)
  /\ At(c, "idle")
  /\ call' = [call EXCEPT ![c] = [stage |-> "use", address |-> tokens[t].address, token |-> t]]
  /\ opened' = opened \cup ({tokens[t].address} \cap Backups)
  /\ UNCHANGED <<account, tokens, inbox, switched, failures>>

UseToken(c) ==
  /\ At(c, "use")
  /\ tokens' = [tokens EXCEPT ![call[c].token].used = TRUE]
  /\ Move(c, "mark")
  /\ UNCHANGED <<account, inbox, historyVars>>

\* The row names the account, not the address the token was mailed to.
Marked(c) ==
  IF call[c].address = Owner
    THEN [account EXCEPT !.verified = TRUE] ELSE [account EXCEPT !.backup_verified = TRUE]

MarkVerified(c) ==
  /\ At(c, "mark")
  /\ account' = Marked(c)
  /\ End(c)
  /\ UNCHANGED <<tokens, inbox, historyVars>>

-----------------------------------------------------------------------------
\* A request is refused, or ends with its connection, the mail or the server.
Abandon(c) ==
  /\ ~At(c, "idle")
  /\ failures < MaxFailures
  /\ failures' = failures + 1
  /\ End(c)
  /\ UNCHANGED <<account, tokens, inbox, opened, switched>>

\* The insert fails, or the purpose is served already.
Refuse(c) ==
  /\ At(c, "create") /\ Registered
  /\ End(c)
  /\ UNCHANGED <<account, tokens, inbox, historyVars>>

Held(t) == \E c \in Callers : call[c].token = t

\* Opening it would change nothing, and no resend looks at it.
Spent(t) ==
  \/ Expired(t)
  \/ tokens[t].used /\ tokens[t].address # Owner
  \/ tokens[t].address = Owner /\ account.verified

Age(t) ==
  CASE tokens[t] = NoToken \/ (Spent(t) /\ ~Held(t)) -> NoToken
    [] Expired(t) /\ Held(t) -> tokens[t]
    [] OTHER -> [tokens[t] EXCEPT !.age = @ + 1]

Tick ==
  /\ tokens' = [t \in Tokens |-> Age(t)]
  /\ inbox' = {t \in inbox : tokens'[t] # NoToken}
  /\ UNCHANGED <<account, call, historyVars>>

Init ==
  /\ account = NoAccount
  /\ tokens = [t \in Tokens |-> NoToken]
  /\ inbox = {}
  /\ call = [c \in Callers |-> Idle]
  /\ opened = {}
  /\ switched = FALSE
  /\ failures = 0

Ask(c) ==
  \/ Register(c)
  \/ Resend(c)
  \/ \E address \in Backups : SetBackup(c, address)
  \/ RemoveBackup(c)
  \/ \E t \in Tokens : Open(c, t)

Serve(c) ==
  \/ InsertAccount(c)
  \/ Refuse(c)
  \/ Throttle(c)
  \/ IssueToken(c)
  \/ Deliver(c)
  \/ WriteBackup(c)
  \/ ClearBackup(c)
  \/ UseToken(c)
  \/ MarkVerified(c)

Next == (\E c \in Callers : Ask(c) \/ Serve(c) \/ Abandon(c)) \/ Tick

Spec == Init /\ [][Next]_vars

\* The server works on what it is asked.  Again and again the owner asks for another
\* link, the mail comes in time, and the owner opens the link that has come.
Fairness ==
  /\ WF_vars(Tick)
  /\ \A c \in Callers : WF_vars(Serve(c))
  /\ SF_vars(\E c \in Callers : Resend(c))
  /\ SF_vars(\E c \in Callers : At(c, "send") /\ ~Expired(call[c].token) /\ Deliver(c))
  /\ SF_vars(\E c \in Callers, t \in Tokens : tokens[t].address = Owner /\ Open(c, t))

FairSpec == Spec /\ Fairness

-----------------------------------------------------------------------------
(* Properties. *)

Stages == {"idle", "create", "throttle", "token", "send", "set", "remove", "use", "mark"}

TypeOK ==
  /\ account \in [exists : BOOLEAN, verified : BOOLEAN,
                  backup : Backups \cup {NoAddress}, backup_verified : BOOLEAN]
  /\ tokens \in [Tokens -> [address : Addresses \cup {NoAddress}, age : Nat, used : BOOLEAN]]
  /\ inbox \subseteq {t \in Tokens : tokens[t] # NoToken}
  /\ call \in [Callers -> [stage : Stages, address : Addresses \cup {NoAddress},
                           token : 0..MaxTokens]]
  /\ opened \subseteq Backups
  /\ switched \in BOOLEAN
  /\ failures \in 0..MaxFailures

\* The backup address that recovery mails go to (recovery.rs:114: "the verified
\* backup address") has opened a link of its own.  The exception is an address
\* that replaced another one while a token of that one was good: the token names
\* the account only.
BackupConfirmed ==
  account.backup # NoAddress /\ account.backup_verified /\ ~switched =>
    account.backup \in opened

\* No account gets "permanently stranded in the unverified state" (accounts.rs:152),
\* wherever a registration, a mail or a verification breaks off.
EventuallyVerified == Registered ~> account.verified
=============================================================================

------------------------------ MODULE SecondFactor ------------------------------
(***************************************************************************)
(* The second factor of one account (routes/mfa.rs, totp.rs, its use in    *)
(* login, routes/auth.rs, and in front of a change of the password or of   *)
(* the backup address, routes/recovery.rs), statement by statement.        *)
(* Whoever enrolls, disables, regenerates or changes one of these is       *)
(* signed in and has typed the password again.                             *)
(*                                                                         *)
(* Time is relative: a step of the authenticator is counted from the step  *)
(* of now, a request by its age; a tick is one step of the authenticator.  *)
(* A code is the secret it belongs to and its step.  Secrets and sets of   *)
(* recovery codes have names that are used again once nothing refers to    *)
(* them.                                                                   *)
(***************************************************************************)
EXTENDS Integers, FiniteSets

CONSTANTS
  Callers,    \* the requests the server works on at a time
  Secrets,    \* names for the secrets, from 1
  Sets,       \* names for the sets of recovery codes, from 1
  SetSize,    \* the number of recovery codes in a set
  MaxLag      \* bound on the age of a request that still has to use its code

ASSUME FactorAssumption ==
  /\ Secrets \subseteq Nat \ {0} /\ Sets \subseteq Nat \ {0}
  /\ SetSize \in Nat \ {0}
  /\ MaxLag \in Nat

VARIABLES
  totp,       \* the row of table totp
  codes,      \* the recovery codes that are not used
  call,       \* call[c]: where the handler of request c stands
  spent,      \* spent[s]: the newest step of secret s that was accepted
  confirmed,  \* secrets of which a code was shown when they were activated
  mishaps     \* what overlapped so far

factorVars == <<totp, codes>>
vars == <<factorVars, call, spent, confirmed, mishaps>>

\* verify_step: the codes of one step before and after now are accepted, too.
Drift == -1 .. 1

\* Before every step that can still be presented.
Never == -2 - MaxLag

NoRow == [secret |-> 0, active |-> FALSE, last |-> Never]
Idle ==
  [op |-> "none", stage |-> "idle", secret |-> 0, step |-> 0, set |-> 0, left |-> 0,
   age |-> 0]

AnyOf(S) == CHOOSE x \in S : TRUE

At(c, stage) == call[c].stage = stage
Move(c, stage) == call' = [call EXCEPT ![c].stage = stage]
Pass(c, stage) == call' = [call EXCEPT ![c] = [Idle EXCEPT !.stage = stage]]
End(c) == call' = [call EXCEPT ![c] = Idle]

Begin(c, op, stage) ==
  /\ At(c, "idle")
  /\ call' = [call EXCEPT ![c] = [Idle EXCEPT !.op = op, !.stage = stage]]
  /\ UNCHANGED <<factorVars, spent, mishaps>>

-----------------------------------------------------------------------------
(* The second factor is asked for. *)

\* A login with the right password.
Login(c) == Begin(c, "login", "check") /\ UNCHANGED confirmed

\* is_totp_active, in front of a login, an enrollment, a disable or a regenerate;
\* a login shows a code of the authenticator or a recovery code.
CheckActive(c) ==
  /\ At(c, "check")
  /\ IF totp.active
       THEN CASE call[c].op = "enroll" -> End(c)
              [] call[c].op = "login" -> Move(c, "select") \/ Pass(c, "redeem")
              [] OTHER -> Move(c, "select")
       ELSE CASE call[c].op = "enroll" -> Pass(c, "enroll")
              [] OTHER -> End(c)
  /\ UNCHANGED <<factorVars, spent, confirmed, mishaps>>

\* consume_totp reads the row; it goes on with a code of that secret, of a step near
\* the time of the request, newer than the last one that was used ...
SelectTotp(c) ==
  /\ At(c, "select")
  /\ \/ \E step \in Drift :
          /\ totp.active /\ step - call[c].age > totp.last
          /\ call' = [call EXCEPT ![c].stage = "update", ![c].secret = totp.secret,
                                  ![c].step = step - call[c].age]
     \/ End(c)
  /\ UNCHANGED <<factorVars, spent, confirmed, mishaps>>

\* What the code was asked for.
Proceed(c) ==
  CASE call[c].op = "login" -> End(c)
    [] call[c].op = "disable" -> Pass(c, "delete")
    [] OTHER -> Pass(c, "purge")

\* Mutant: the condition is not repeated in the update.
Unguarded(c) == totp # NoRow

Guarded(c) == totp # NoRow /\ call[c].step > totp.last

\* ... and writes it under the same condition, whatever secret it holds by then.
UpdateTotp(c) ==
  /\ At(c, "update")
  /\ IF Guarded(c)
       THEN /\ totp' = [totp EXCEPT !.last = call[c].step]
            /\ spent' = [spent EXCEPT ![call[c].secret] = call[c].step]
            /\ mishaps' = IF call[c].step <= spent[call[c].secret]
                            THEN mishaps \cup {"twice"} ELSE mishaps
            /\ Proceed(c)
       ELSE /\ End(c)
            /\ UNCHANGED <<totp, spent, mishaps>>
  /\ UNCHANGED <<codes, confirmed>>

\* One statement: a recovery code is used once.
Redeem(c) ==
  /\ At(c, "redeem")
  /\ \E used \in {{}} \cup {{code} : code \in codes} : codes' = codes \ used
  /\ End(c)
  /\ UNCHANGED <<totp, spent, confirmed, mishaps>>

\* confirm_sensitive verifies a code, of the time it runs at, against the secret of the
\* row; it neither asks for the last step nor writes it.  What the request does next
\* is AccountKeys', Recovery's and Addresses'.
ConfirmSensitive(c) ==
  /\ totp.active
  /\ \E step \in Drift :
       Begin(c, "sensitive", IF step > spent[totp.secret] THEN "fresh" ELSE "reused")
  /\ UNCHANGED confirmed

Confirmed(c) ==
  /\ At(c, "fresh") \/ At(c, "reused")
  /\ End(c)
  /\ UNCHANGED <<factorVars, spent, confirmed, mishaps>>

-----------------------------------------------------------------------------
(* The second factor is set up, and taken away. *)

Enroll(c) == Begin(c, "enroll", "check") /\ UNCHANGED confirmed

Known == {totp.secret} \cup {call[c].secret : c \in Callers}

\* Mutant: a secret that is replaced stays as active as it was.
ReplaceSecret(s) == [totp EXCEPT !.secret = s]

\* The upsert does not touch last_used_step.
Enrolled(s) == [totp EXCEPT !.secret = s, !.active = FALSE]

WriteSecret(c) ==
  /\ At(c, "enroll")
  /\ Secrets \ Known # {}
  /\ totp' = Enrolled(AnyOf(Secrets \ Known))
  /\ confirmed' = {}
  /\ spent' = [spent EXCEPT ![totp'.secret] = Never]
  /\ mishaps' = IF \E e \in Callers : At(e, "activate") THEN mishaps \cup {"enroll"} ELSE mishaps
  /\ End(c)
  /\ UNCHANGED codes

\* The secret is read, a code of it checked (and not consumed) ...
Activate(c) ==
  /\ totp # NoRow /\ ~totp.active
  /\ Begin(c, "none", "activate")
  /\ confirmed' = confirmed \cup {totp.secret}

\* ... and whatever row there is by then becomes active.
SetActive(c) ==
  /\ At(c, "activate")
  /\ totp' = IF totp # NoRow THEN [totp EXCEPT !.active = TRUE] ELSE totp
  /\ Move(c, "purge")
  /\ UNCHANGED <<codes, spent, confirmed, mishaps>>

Disable(c) == Begin(c, "disable", "check") /\ UNCHANGED confirmed
Regenerate(c) == Begin(c, "regenerate", "check") /\ UNCHANGED confirmed

DeleteTotp(c) ==
  /\ At(c, "delete")
  /\ totp' = NoRow
  /\ Move(c, "clear")
  /\ mishaps' = IF \E e \in Callers : At(e, "update") THEN mishaps \cup {"disable"} ELSE mishaps
  /\ UNCHANGED <<codes, spent, confirmed>>

DeleteCodes(c) ==
  /\ At(c, "clear")
  /\ codes' = {}
  /\ End(c)
  /\ UNCHANGED <<totp, spent, confirmed, mishaps>>

\* Two requests at a time replace the recovery codes.
Mixed(c) ==
  mishaps' = IF \E e \in Callers \ {c} : At(e, "insert") THEN mishaps \cup {"codes"} ELSE mishaps

\* Mutant: the new codes join the old ones.
Joined == codes

Purged == {}

\* issue_recovery_codes: the old ones are deleted, the new ones inserted one by one.
PurgeCodes(c) ==
  /\ At(c, "purge")
  /\ LET taken == {code[1] : code \in codes} \cup {call[e].set : e \in Callers}
     IN  /\ Sets \ taken # {}
         /\ call' = [call EXCEPT ![c].stage = "insert", ![c].left = SetSize,
                                 ![c].set = AnyOf(Sets \ taken)]
  /\ codes' = Purged
  /\ Mixed(c)
  /\ UNCHANGED <<totp, spent, confirmed>>

\* Mutant: the loop runs once too often.
LastCode(c) == call[c].left = 0

Last(c) == call[c].left = 1

InsertCode(c) ==
  /\ At(c, "insert")
  /\ codes' = codes \cup {<<call[c].set, call[c].left>>}
  /\ IF Last(c) THEN End(c) ELSE call' = [call EXCEPT ![c].left = @ - 1]
  /\ UNCHANGED <<totp, spent, confirmed, mishaps>>

-----------------------------------------------------------------------------
Abandon(c) ==
  /\ ~At(c, "idle")
  /\ End(c)
  /\ UNCHANGED <<factorVars, spent, confirmed, mishaps>>

\* Only the code depends on the time of the request.
Presenting(c) == call[c].stage \in {"check", "select", "update"}

Tick ==
  /\ \A c \in Callers : Presenting(c) => call[c].age < MaxLag
  /\ totp' = [totp EXCEPT !.last = IF @ > Never THEN @ - 1 ELSE Never]
  /\ call' = [c \in Callers |->
                IF Presenting(c)
                  THEN [call[c] EXCEPT !.age = @ + 1, !.step = IF At(c, "update") THEN @ - 1 ELSE 0]
                  ELSE call[c]]
  /\ spent' = [s \in Secrets |-> IF spent[s] > Never THEN spent[s] - 1 ELSE Never]
  /\ UNCHANGED <<codes, confirmed, mishaps>>

Init ==
  /\ totp = NoRow /\ codes = {}
  /\ call = [c \in Callers |-> Idle]
  /\ spent = [s \in Secrets |-> Never] /\ confirmed = {} /\ mishaps = {}

Request(c) ==
  \/ Login(c) \/ ConfirmSensitive(c)
  \/ Enroll(c) \/ Activate(c) \/ Disable(c) \/ Regenerate(c)

Serve(c) ==
  \/ CheckActive(c) \/ SelectTotp(c) \/ UpdateTotp(c) \/ Redeem(c) \/ Confirmed(c)
  \/ WriteSecret(c) \/ SetActive(c)
  \/ DeleteTotp(c) \/ DeleteCodes(c) \/ PurgeCodes(c) \/ InsertCode(c)

Next == (\E c \in Callers : Request(c) \/ Serve(c) \/ Abandon(c)) \/ Tick

Spec == Init /\ [][Next]_vars

-----------------------------------------------------------------------------
(* Properties. *)

Stages ==
  {"idle", "check", "select", "update", "redeem", "fresh", "reused",
   "enroll", "activate", "delete", "clear", "purge", "insert"}

TypeOK ==
  /\ totp \in [secret : Secrets \cup {0}, active : BOOLEAN, last : Never .. 1]
  /\ totp.active => totp.secret # 0
  /\ codes \subseteq Sets \X (1 .. SetSize)
  /\ \A c \in Callers : call[c].stage \in Stages /\ call[c].age \in 0 .. MaxLag
  /\ spent \in [Secrets -> Never .. 1]
  /\ confirmed \subseteq Secrets

\* "two concurrent requests presenting codes for the same step can't both win"
\* (mfa.rs:122): no two logins, disables or regenerations, the requests that consume a
\* code, are let through by one, however they overlap.  The exception is a code on its
\* way to the row while the factor is taken away: it may meet the row of the next
\* enrollment.
CodeCountsOnce == "disable" \notin mishaps => "twice" \notin mishaps

\* "a sniffed code cannot be replayed inside its validity window (nor across the login
\* and a follow-up sensitive action)" (mfa.rs:92): no change of the password or of the
\* backup address is let through by a code that was consumed, or is older than one.
NoCodeReused == \A c \in Callers : ~At(c, "reused")

\* "MFA only becomes required after activate proves the authenticator works"
\* (mfa.rs:44): a secret that is asked for is one whose code was shown.  The
\* exception is an enrollment between the two statements of an activation.
ActiveSecretConfirmed ==
  totp.active /\ "enroll" \notin mishaps => totp.secret \in confirmed

\* "your previous codes no longer work" (mfa.rs:284): the recovery codes that work
\* are all of one set, unless two requests issued theirs at the same time.
OneSetOfCodes ==
  "codes" \notin mishaps => \A x, y \in codes : x[1] = y[1]
=============================================================================

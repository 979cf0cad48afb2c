----------------------------- MODULE AddressesProofs -----------------------------
(***************************************************************************)
(* Theorems about the addresses of an account (Addresses): the backup      *)
(* address that recovery trusts has opened a link of its own.              *)
(***************************************************************************)
EXTENDS Addresses, TLAPS

(* The inductive invariant. *)

AccountRecord ==
  [exists : BOOLEAN, verified : BOOLEAN,
   backup : Backups \cup {NoAddress}, backup_verified : BOOLEAN]
TokenRecord == [address : Addresses \cup {NoAddress}, age : Nat, used : BOOLEAN]
CallRecord == [stage : Stages, address : Addresses \cup {NoAddress}, token : 0..MaxTokens]

\* What a request holds where it is used.
Proper(x) ==
  /\ x.stage \in {"create", "throttle"} => x.address = Owner
  /\ x.stage = "set" => x.address \in Backups
  /\ x.stage \in {"token", "use", "mark"} => x.address \in Addresses
  /\ x.stage \in {"send", "use", "mark"} => x.token \in Tokens

Holding(x) == x.stage \in {"send", "use", "mark"}

Shape ==
  /\ account \in AccountRecord
  /\ tokens \in [Tokens -> TokenRecord]
  /\ \A t \in Tokens : tokens[t] = NoToken \/ tokens[t].address \in Addresses
  /\ inbox \subseteq {t \in Tokens : tokens[t] # NoToken}
  /\ call \in [Callers -> CallRecord]
  /\ \A c \in Callers : Proper(call[c])
  /\ \A c \in Callers : Holding(call[c]) => tokens[call[c].token] # NoToken
  /\ opened \subseteq Backups
  /\ switched \in BOOLEAN
  /\ failures \in 0..MaxFailures

\* A link that is being followed was opened.
Followed ==
  \A c \in Callers :
    call[c].stage \in {"use", "mark"} /\ call[c].address \in Backups => call[c].address \in opened

\* Nothing of another address can confirm the one that is set.
Settled ==
  ~switched /\ account.backup # NoAddress => ~Confirmable(account.backup)

AddressInv == Shape /\ Followed /\ Settled /\ BackupConfirmed

-----------------------------------------------------------------------------
LEMMA IdleShape ==
  AddressesAssumption => Idle \in CallRecord /\ Proper(Idle) /\ Idle.stage = "idle"
BY DEF AddressesAssumption, Idle, CallRecord, Stages, Proper

LEMMA NoTokenShape ==
  NoToken \in TokenRecord /\ NoToken.address = NoAddress
BY DEF NoToken, TokenRecord

LEMMA Begun ==
  ASSUME AddressesAssumption, NEW stage \in Stages, NEW address \in Addresses \cup {NoAddress}
  PROVE  /\ [Idle EXCEPT !.stage = stage, !.address = address] \in CallRecord
         /\ [Idle EXCEPT !.stage = stage, !.address = address].stage = stage
         /\ [Idle EXCEPT !.stage = stage, !.address = address].address = address
BY IdleShape DEF CallRecord

LEMMA Restaged ==
  ASSUME NEW x \in CallRecord, NEW stage \in Stages
  PROVE  /\ [x EXCEPT !.stage = stage] \in CallRecord
         /\ [x EXCEPT !.stage = stage].stage = stage
         /\ [x EXCEPT !.stage = stage].address = x.address
         /\ [x EXCEPT !.stage = stage].token = x.token
BY DEF CallRecord

\* The call of one request changes.
LEMMA OneCall ==
  ASSUME Shape, NEW c \in Callers, NEW x \in CallRecord, Proper(x),
         call' = [call EXCEPT ![c] = x]
  PROVE  /\ call'[c] = x /\ \A e \in Callers \ {c} : call'[e] = call[e]
         /\ call' \in [Callers -> CallRecord]
         /\ \A e \in Callers : Proper(call'[e])
BY DEF Shape

\* A step that lets nothing confirm that could not before.
LEMMA SettledKept ==
  ASSUME Shape, Settled, BackupConfirmed,
         account'.backup = account.backup,
         account'.backup_verified = account.backup_verified,
         switched' = switched, opened \subseteq opened',
         \A t \in Tokens :
           tokens'[t].address \in Backups /\ ~tokens'[t].used =>
             \/ tokens[t].address = tokens'[t].address /\ ~tokens[t].used
             \/ \E e \in Callers : call[e].stage = "token" /\ call[e].address = tokens'[t].address,
         \A e \in Callers :
           call'[e].stage \in {"token", "use", "mark"} /\ call'[e].address \in Backups =>
             \/ call[e].stage \in {"token", "use", "mark"} /\ call[e].address = call'[e].address
             \/ \E t \in Tokens : tokens[t].address = call'[e].address /\ ~tokens[t].used
  PROVE  Settled' /\ BackupConfirmed'
<1>1. BackupConfirmed'
  BY DEF BackupConfirmed
<1>2. Settled'
  <2>. SUFFICES ASSUME ~switched', account'.backup # NoAddress, Confirmable(account.backup)'
                PROVE  FALSE
    BY DEF Settled
  <2>1. PICK b \in Backups : b = account.backup /\ b = account'.backup
    BY DEF Shape, AccountRecord
  <2>2. ~Confirmable(b)
    BY <2>1 DEF Settled
  <2>3. \/ \E t \in Tokens : tokens'[t].address \in Backups \ {b} /\ ~tokens'[t].used
        \/ \E e \in Callers : /\ call'[e].stage \in {"token", "use", "mark"}
                              /\ call'[e].address \in Backups \ {b}
    BY <2>1 DEF Confirmable, At
  <2>. QED BY <2>2, <2>3 DEF Confirmable, At
<1>. QED BY <1>1, <1>2

\* A step that moves one request where it can confirm nothing.
LEMMA QuietStep ==
  ASSUME AddressInv, NEW c \in Callers, NEW x \in CallRecord, Proper(x),
         call' = [call EXCEPT ![c] = x],
         x.stage \notin {"send", "use", "mark"},
         x.stage = "token" => x.address \notin Backups,
         inbox' \subseteq {t \in Tokens : tokens[t] # NoToken},
         failures' \in 0..MaxFailures,
         UNCHANGED <<account, tokens, opened, switched>>
  PROVE  AddressInv'
<1>1. /\ call'[c] = x /\ \A e \in Callers \ {c} : call'[e] = call[e]
      /\ call' \in [Callers -> CallRecord]
      /\ \A e \in Callers : Proper(call'[e])
  BY OneCall DEF AddressInv
<1>2. Shape'
  BY <1>1 DEF AddressInv, Shape, Holding
<1>3. Followed'
  BY <1>1 DEF AddressInv, Followed
<1>4. Settled' /\ BackupConfirmed'
  BY <1>1, SettledKept DEF AddressInv
<1>. QED BY <1>2, <1>3, <1>4 DEF AddressInv

LEMMA AddressInit == AddressesAssumption /\ Init => AddressInv
<1>. SUFFICES ASSUME AddressesAssumption, Init PROVE AddressInv
  OBVIOUS
<1>1. \A c \in Callers : call[c] = Idle
  BY DEF Init
<1>2. Shape
  <2>1. NoAccount \in AccountRecord
    BY DEF NoAccount, AccountRecord
  <2>2. tokens \in [Tokens -> TokenRecord] /\ \A t \in Tokens : tokens[t] = NoToken
    BY NoTokenShape DEF Init
  <2>3. failures \in 0..MaxFailures
    BY DEF Init, AddressesAssumption
  <2>. QED BY <1>1, <2>1, <2>2, <2>3, IdleShape DEF Init, Shape, Holding
<1>3. Followed
  BY <1>1, IdleShape DEF Followed
<1>4. Settled /\ BackupConfirmed
  BY DEF Init, Settled, BackupConfirmed, NoAccount
<1>. QED BY <1>2, <1>3, <1>4 DEF AddressInv

\* The requests that only begin.
LEMMA BeginKeeps ==
  ASSUME AddressesAssumption, AddressInv, NEW c \in Callers,
         NEW stage \in {"create", "throttle", "set", "remove"},
         NEW address \in Addresses \cup {NoAddress},
         stage \in {"create", "throttle"} => address = Owner,
         stage = "set" => address \in Backups,
         Begin(c, stage, address),
         UNCHANGED <<account, tokens, inbox, historyVars>>
  PROVE  AddressInv'
<1>. DEFINE x == [Idle EXCEPT !.stage = stage, !.address = address]
<1>0. stage \in Stages
  BY DEF Stages
<1>1. x \in CallRecord /\ x.stage = stage /\ x.address = address
  BY <1>0, Begun
<1>2. call' = [call EXCEPT ![c] = x]
  BY DEF Begin
<1>. HIDE DEF x
<1>3. Proper(x)
  BY <1>1 DEF Proper
<1>4. /\ inbox' \subseteq {t \in Tokens : tokens[t] # NoToken}
      /\ failures' \in 0..MaxFailures
      /\ UNCHANGED <<account, tokens, opened, switched>>
  BY DEF AddressInv, Shape, historyVars
<1>. QED BY <1>1, <1>2, <1>3, <1>4, QuietStep

LEMMA ThrottleKeeps ==
  ASSUME AddressesAssumption, AddressInv, NEW c \in Callers, Throttle(c)
  PROVE  AddressInv'
<1>1. /\ inbox' \subseteq {t \in Tokens : tokens[t] # NoToken}
      /\ failures' \in 0..MaxFailures
      /\ UNCHANGED <<account, tokens, opened, switched>>
  BY DEF Throttle, AddressInv, Shape, historyVars
<1>2. CASE End(c)
  <2>1. call' = [call EXCEPT ![c] = Idle]
    BY <1>2 DEF End
  <2>. QED BY <1>1, <2>1, IdleShape, QuietStep
<1>3. CASE Move(c, "token")
  <2>. DEFINE x == [call[c] EXCEPT !.stage = "token"]
  <2>1. call[c] \in CallRecord /\ call[c].address = Owner
    BY DEF Throttle, At, AddressInv, Shape, Proper
  <2>2. x \in CallRecord /\ x.stage = "token" /\ x.address = Owner
    BY <2>1, Restaged DEF Stages
  <2>3. call' = [call EXCEPT ![c] = x]
    BY <1>3 DEF Move, AddressInv, Shape
  <2>. HIDE DEF x
  <2>4. Proper(x) /\ x.address \notin Backups
    BY <2>2 DEF Proper, Addresses, AddressesAssumption
  <2>. QED BY <1>1, <2>2, <2>3, <2>4, QuietStep
<1>. QED BY <1>2, <1>3 DEF Throttle

LEMMA EndKeeps ==
  ASSUME AddressesAssumption, AddressInv, NEW c \in Callers, End(c),
         inbox' \subseteq {t \in Tokens : tokens[t] # NoToken},
         failures' \in 0..MaxFailures,
         UNCHANGED <<account, tokens, opened, switched>>
  PROVE  AddressInv'
<1>1. call' = [call EXCEPT ![c] = Idle]
  BY DEF End
<1>. QED BY <1>1, IdleShape, QuietStep

LEMMA IssueTokenKeeps ==
  ASSUME AddressesAssumption, AddressInv, NEW c \in Callers, IssueToken(c)
  PROVE  AddressInv'
<1>1. PICK t \in Tokens :
        /\ tokens[t] = NoToken
        /\ tokens' = [tokens EXCEPT ![t].address = call[c].address]
        /\ call' = [call EXCEPT ![c].stage = "send", ![c].token = t]
  BY DEF IssueToken
<1>2. /\ call[c].stage = "token" /\ UNCHANGED <<account, inbox, opened, switched, failures>>
  BY DEF IssueToken, At, historyVars
<1>3. PICK a \in Addresses : a = call[c].address
  BY <1>2 DEF AddressInv, Shape, Proper
<1>. DEFINE x == [call[c] EXCEPT !.stage = "send", !.token = t]
<1>0. t \in 0..MaxTokens /\ "send" \in Stages /\ call[c] \in CallRecord
  BY DEF AddressInv, Shape, Tokens, Stages, AddressesAssumption
<1>4. x \in CallRecord /\ x.stage = "send" /\ x.token = t
  BY <1>0 DEF CallRecord
<1>5. call' = [call EXCEPT ![c] = x]
  BY <1>1 DEF AddressInv, Shape
<1>. HIDE DEF x
<1>6. Proper(x)
  BY <1>4 DEF Proper
<1>7. /\ call'[c] = x /\ \A e \in Callers \ {c} : call'[e] = call[e]
      /\ call' \in [Callers -> CallRecord]
      /\ \A e \in Callers : Proper(call'[e])
  BY <1>4, <1>5, <1>6, OneCall DEF AddressInv
<1>8. /\ tokens' \in [Tokens -> TokenRecord] /\ tokens'[t].address = a
      /\ \A s \in Tokens \ {t} : tokens'[s] = tokens[s]
  BY <1>1, <1>3 DEF AddressInv, Shape, TokenRecord
<1>9. tokens'[t] # NoToken
  BY <1>8, NoTokenShape DEF Addresses, AddressesAssumption
<1>10. Shape'
  <2>1. \A e \in Callers : Holding(call'[e]) => tokens'[call'[e].token] # NoToken
    <3>. SUFFICES ASSUME NEW e \in Callers, Holding(call'[e])
                  PROVE  tokens'[call'[e].token] # NoToken
      OBVIOUS
    <3>1. CASE e = c
      BY <1>4, <1>7, <1>9, <3>1
    <3>2. CASE e # c
      <4>1. call[e].token \in Tokens /\ tokens[call[e].token] # NoToken
        BY <1>7, <3>2 DEF AddressInv, Shape, Proper, Holding
      <4>. QED BY <1>7, <1>8, <1>9, <3>2, <4>1
    <3>. QED BY <3>1, <3>2
  <2>2. inbox' \subseteq {s \in Tokens : tokens'[s] # NoToken}
    BY <1>2, <1>8, <1>9 DEF AddressInv, Shape
  <2>. QED BY <1>2, <1>7, <1>8, <2>1, <2>2 DEF AddressInv, Shape
<1>11. Followed'
  BY <1>2, <1>4, <1>7 DEF AddressInv, Followed
<1>12. Settled' /\ BackupConfirmed'
  <2>1. \A s \in Tokens :
           tokens'[s].address \in Backups /\ ~tokens'[s].used =>
             \/ tokens[s].address = tokens'[s].address /\ ~tokens[s].used
             \/ \E e \in Callers : call[e].stage = "token" /\ call[e].address = tokens'[s].address
    BY <1>2, <1>3, <1>8
  <2>2. \A e \in Callers :
           call'[e].stage \in {"token", "use", "mark"} =>
             call[e].stage \in {"token", "use", "mark"} /\ call[e].address = call'[e].address
    BY <1>4, <1>7
  <2>. QED BY <1>2, <2>1, <2>2, SettledKept DEF AddressInv
<1>. QED BY <1>10, <1>11, <1>12 DEF AddressInv

\* The tokens stay as they are, and so does what the requests hold of them.
LEMMA ShapeKept ==
  ASSUME Shape, account' \in AccountRecord,
         call' \in [Callers -> CallRecord], \A e \in Callers : Proper(call'[e]),
         \A e \in Callers :
           Holding(call'[e]) => Holding(call[e]) /\ call'[e].token = call[e].token,
         opened' \subseteq Backups, switched' \in BOOLEAN,
         UNCHANGED <<tokens, inbox, failures>>
  PROVE  Shape'
BY DEF Shape

LEMMA InsertAccountKeeps ==
  ASSUME AddressesAssumption, AddressInv, NEW c \in Callers, InsertAccount(c)
  PROVE  AddressInv'
<1>. DEFINE x == [call[c] EXCEPT !.stage = "token"]
<1>1. call[c] \in CallRecord /\ call[c].address = Owner
  BY DEF InsertAccount, At, AddressInv, Shape, Proper
<1>2. x \in CallRecord /\ x.stage = "token" /\ x.address = Owner
  BY <1>1, Restaged DEF Stages
<1>3. /\ call' = [call EXCEPT ![c] = x]
      /\ account' = [NoAccount EXCEPT !.exists = TRUE]
      /\ UNCHANGED <<tokens, inbox, opened, switched, failures>>
  BY DEF InsertAccount, Move, AddressInv, Shape, historyVars
<1>. HIDE DEF x
<1>4. Proper(x)
  BY <1>2 DEF Proper, Addresses
<1>5. /\ call'[c] = x /\ \A e \in Callers \ {c} : call'[e] = call[e]
      /\ call' \in [Callers -> CallRecord]
      /\ \A e \in Callers : Proper(call'[e])
  BY <1>2, <1>3, <1>4, OneCall DEF AddressInv
<1>6. account' \in AccountRecord /\ account'.backup = NoAddress
  BY <1>3 DEF NoAccount, AccountRecord
<1>7. Shape'
  <2>1. /\ opened' \subseteq Backups /\ switched' \in BOOLEAN
        /\ \A e \in Callers :
             Holding(call'[e]) => Holding(call[e]) /\ call'[e].token = call[e].token
    BY <1>2, <1>3, <1>5 DEF AddressInv, Shape, Holding
  <2>. QED BY <1>3, <1>5, <1>6, <2>1, ShapeKept DEF AddressInv
<1>8. Followed'
  BY <1>2, <1>3, <1>5 DEF AddressInv, Followed
<1>9. Settled' /\ BackupConfirmed'
  BY <1>6 DEF Settled, BackupConfirmed
<1>. QED BY <1>7, <1>8, <1>9 DEF AddressInv

LEMMA WriteBackupKeeps ==
  ASSUME AddressesAssumption, AddressInv, NEW c \in Callers, WriteBackup(c)
  PROVE  AddressInv'
<1>1. PICK b \in Backups : b = call[c].address
  BY DEF WriteBackup, At, AddressInv, Shape, Proper
<1>. DEFINE x == [call[c] EXCEPT !.stage = "token"]
<1>2. x \in CallRecord /\ x.stage = "token" /\ x.address = b
  BY <1>1, Restaged DEF AddressInv, Shape, Stages
<1>3. /\ call' = [call EXCEPT ![c] = x]
      /\ account' = [account EXCEPT !.backup = b, !.backup_verified = FALSE]
      /\ switched' = (switched \/ Confirmable(b))
      /\ UNCHANGED <<tokens, inbox, opened, failures>>
  BY <1>1 DEF WriteBackup, NewBackup, Move, AddressInv, Shape
<1>. HIDE DEF x
<1>4. Proper(x)
  BY <1>2 DEF Proper, Addresses
<1>5. /\ call'[c] = x /\ \A e \in Callers \ {c} : call'[e] = call[e]
      /\ call' \in [Callers -> CallRecord]
      /\ \A e \in Callers : Proper(call'[e])
  BY <1>2, <1>3, <1>4, OneCall DEF AddressInv
<1>6. account' \in AccountRecord /\ account'.backup = b /\ account'.backup_verified = FALSE
  BY <1>3 DEF AddressInv, Shape, AccountRecord
<1>7. Shape'
  <2>1. /\ opened' \subseteq Backups /\ switched' \in BOOLEAN
        /\ \A e \in Callers :
             Holding(call'[e]) => Holding(call[e]) /\ call'[e].token = call[e].token
    BY <1>2, <1>3, <1>5 DEF AddressInv, Shape, Holding
  <2>. QED BY <1>3, <1>5, <1>6, <2>1, ShapeKept DEF AddressInv
<1>8. Followed'
  BY <1>2, <1>3, <1>5 DEF AddressInv, Followed
<1>9. Settled'
  <2>. SUFFICES ASSUME ~switched', Confirmable(account.backup)' PROVE FALSE
    BY DEF Settled
  <2>1. ~Confirmable(b)
    BY <1>3
  <2>2. \/ \E t \in Tokens : tokens[t].address \in Backups \ {b} /\ ~tokens[t].used
        \/ \E e \in Callers : /\ call'[e].stage \in {"token", "use", "mark"}
                              /\ call'[e].address \in Backups \ {b}
    BY <1>3, <1>6 DEF Confirmable, At
  <2>. QED BY <1>2, <1>5, <2>1, <2>2 DEF Confirmable, At
<1>10. BackupConfirmed'
  BY <1>6 DEF BackupConfirmed
<1>. QED BY <1>7, <1>8, <1>9, <1>10 DEF AddressInv

LEMMA ClearBackupKeeps ==
  ASSUME AddressesAssumption, AddressInv, NEW c \in Callers, ClearBackup(c)
  PROVE  AddressInv'
<1>1. /\ call' = [call EXCEPT ![c] = Idle]
      /\ account' = [account EXCEPT !.backup = NoAddress, !.backup_verified = FALSE]
      /\ UNCHANGED <<tokens, inbox, opened, switched, failures>>
  BY DEF ClearBackup, End, historyVars
<1>2. /\ call'[c] = Idle /\ \A e \in Callers \ {c} : call'[e] = call[e]
      /\ call' \in [Callers -> CallRecord]
      /\ \A e \in Callers : Proper(call'[e])
  BY <1>1, IdleShape, OneCall DEF AddressInv
<1>3. account' \in AccountRecord /\ account'.backup = NoAddress
  BY <1>1 DEF AddressInv, Shape, AccountRecord
<1>4. Shape'
  <2>1. /\ opened' \subseteq Backups /\ switched' \in BOOLEAN
        /\ \A e \in Callers :
             Holding(call'[e]) => Holding(call[e]) /\ call'[e].token = call[e].token
    BY <1>1, <1>2, IdleShape DEF AddressInv, Shape, Holding
  <2>. QED BY <1>1, <1>2, <1>3, <2>1, ShapeKept DEF AddressInv
<1>5. Followed'
  BY <1>1, <1>2, IdleShape DEF AddressInv, Followed
<1>6. Settled' /\ BackupConfirmed'
  BY <1>3 DEF Settled, BackupConfirmed
<1>. QED BY <1>4, <1>5, <1>6 DEF AddressInv

LEMMA OpenKeeps ==
  ASSUME AddressesAssumption, AddressInv, NEW c \in Callers, NEW t \in Tokens, Open(c, t)
  PROVE  AddressInv'
<1>1. PICK a \in Addresses : a = tokens[t].address /\ tokens[t] # NoToken /\ ~tokens[t].used
  BY DEF Open, AddressInv, Shape
<1>. DEFINE x == [stage |-> "use", address |-> a, token |-> t]
<1>2. x \in CallRecord /\ x.stage = "use" /\ x.address = a /\ x.token = t
  <2>1. t \in 0..MaxTokens
    BY DEF Tokens, AddressesAssumption
  <2>. QED BY <2>1 DEF CallRecord, Stages
<1>3. /\ call' = [call EXCEPT ![c] = x]
      /\ opened' = opened \cup ({a} \cap Backups)
      /\ UNCHANGED <<account, tokens, inbox, switched, failures>>
  BY <1>1 DEF Open
<1>. HIDE DEF x
<1>4. Proper(x)
  BY <1>2 DEF Proper
<1>5. /\ call'[c] = x /\ \A e \in Callers \ {c} : call'[e] = call[e]
      /\ call' \in [Callers -> CallRecord]
      /\ \A e \in Callers : Proper(call'[e])
  BY <1>2, <1>3, <1>4, OneCall DEF AddressInv
<1>6. Shape'
  <2>1. \A e \in Callers : Holding(call'[e]) => tokens[call'[e].token] # NoToken
    BY <1>1, <1>2, <1>5 DEF AddressInv, Shape
  <2>. QED BY <1>3, <1>5, <2>1 DEF AddressInv, Shape
<1>7. Followed'
  BY <1>2, <1>3, <1>5 DEF AddressInv, Followed
<1>8. Settled' /\ BackupConfirmed'
  <2>1. \A e \in Callers :
           call'[e].stage \in {"token", "use", "mark"} /\ call'[e].address \in Backups =>
             \/ call[e].stage \in {"token", "use", "mark"} /\ call[e].address = call'[e].address
             \/ \E s \in Tokens : tokens[s].address = call'[e].address /\ ~tokens[s].used
    BY <1>1, <1>2, <1>5
  <2>. QED BY <1>3, <2>1, SettledKept DEF AddressInv
<1>. QED BY <1>6, <1>7, <1>8 DEF AddressInv

LEMMA UseTokenKeeps ==
  ASSUME AddressesAssumption, AddressInv, NEW c \in Callers, UseToken(c)
  PROVE  AddressInv'
<1>1. PICK t \in Tokens : t = call[c].token /\ tokens[t] # NoToken /\ call[c].stage = "use"
  BY DEF UseToken, At, AddressInv, Shape, Proper, Holding
<1>. DEFINE x == [call[c] EXCEPT !.stage = "mark"]
<1>2. x \in CallRecord /\ x.stage = "mark" /\ x.token = t /\ x.address = call[c].address
  BY <1>1, Restaged DEF AddressInv, Shape, Stages
<1>3. /\ call' = [call EXCEPT ![c] = x]
      /\ tokens' = [tokens EXCEPT ![t].used = TRUE]
      /\ UNCHANGED <<account, inbox, opened, switched, failures>>
  BY <1>1 DEF UseToken, Move, AddressInv, Shape, historyVars
<1>. HIDE DEF x
<1>4. Proper(x)
  <2>1. call[c].address \in Addresses
    BY <1>1 DEF AddressInv, Shape, Proper
  <2>. QED BY <1>2, <2>1 DEF Proper
<1>5. /\ call'[c] = x /\ \A e \in Callers \ {c} : call'[e] = call[e]
      /\ call' \in [Callers -> CallRecord]
      /\ \A e \in Callers : Proper(call'[e])
  BY <1>2, <1>3, <1>4, OneCall DEF AddressInv
<1>6. /\ tokens' \in [Tokens -> TokenRecord]
      /\ \A s \in Tokens : /\ tokens'[s].address = tokens[s].address
                           /\ ~tokens'[s].used => ~tokens[s].used
      /\ \A s \in Tokens \ {t} : tokens'[s] = tokens[s]
      /\ tokens'[t].used
  BY <1>3 DEF AddressInv, Shape, TokenRecord
<1>7. Shape'
  <2>1. tokens'[t] # NoToken /\ tokens'[t].address \in Addresses
    <3>1. tokens'[t].address \in Addresses
      BY <1>1, <1>6 DEF AddressInv, Shape
    <3>. QED BY <3>1, NoTokenShape DEF Addresses, AddressesAssumption
  <2>2. \A s \in Tokens : tokens[s] # NoToken => tokens'[s] # NoToken
    BY <1>6, <2>1
  <2>3. \A e \in Callers : Holding(call'[e]) => tokens'[call'[e].token] # NoToken
    <3>1. \A e \in Callers : Holding(call'[e]) =>
             call'[e].token \in Tokens /\ tokens[call'[e].token] # NoToken
      BY <1>1, <1>2, <1>5 DEF AddressInv, Shape, Proper, Holding
    <3>. QED BY <2>2, <3>1
  <2>. QED BY <1>3, <1>5, <1>6, <2>1, <2>2, <2>3 DEF AddressInv, Shape
<1>8. Followed'
  BY <1>1, <1>2, <1>3, <1>5 DEF AddressInv, Followed
<1>9. Settled' /\ BackupConfirmed'
  <2>1. \A e \in Callers :
           call'[e].stage \in {"token", "use", "mark"} =>
             call[e].stage \in {"token", "use", "mark"} /\ call[e].address = call'[e].address
    BY <1>1, <1>2, <1>5
  <2>. QED BY <1>3, <1>6, <2>1, SettledKept DEF AddressInv
<1>. QED BY <1>7, <1>8, <1>9 DEF AddressInv

LEMMA MarkVerifiedKeeps ==
  ASSUME AddressesAssumption, AddressInv, NEW c \in Callers, MarkVerified(c)
  PROVE  AddressInv'
<1>1. /\ call' = [call EXCEPT ![c] = Idle] /\ call[c].stage = "mark"
      /\ account' = Marked(c)
      /\ UNCHANGED <<tokens, inbox, opened, switched, failures>>
  BY DEF MarkVerified, At, End, historyVars
<1>2. /\ call'[c] = Idle /\ \A e \in Callers \ {c} : call'[e] = call[e]
      /\ call' \in [Callers -> CallRecord]
      /\ \A e \in Callers : Proper(call'[e])
  BY <1>1, IdleShape, OneCall DEF AddressInv
<1>3. /\ account' \in AccountRecord /\ account'.backup = account.backup
      /\ call[c].address = Owner => account'.backup_verified = account.backup_verified
  BY <1>1 DEF Marked, AddressInv, Shape, AccountRecord
<1>4. Shape'
  <2>1. /\ opened' \subseteq Backups /\ switched' \in BOOLEAN
        /\ \A e \in Callers :
             Holding(call'[e]) => Holding(call[e]) /\ call'[e].token = call[e].token
    BY <1>1, <1>2, IdleShape DEF AddressInv, Shape, Holding
  <2>. QED BY <1>1, <1>2, <1>3, <2>1, ShapeKept DEF AddressInv
<1>5. Followed'
  BY <1>1, <1>2, IdleShape DEF AddressInv, Followed
<1>6. Settled'
  <2>. SUFFICES ASSUME ~switched', account'.backup # NoAddress, Confirmable(account.backup)'
                PROVE  FALSE
    BY DEF Settled
  <2>1. ~Confirmable(account.backup)
    BY <1>1, <1>3 DEF AddressInv, Settled
  <2>. QED BY <1>1, <1>2, <1>3, <2>1, IdleShape DEF Confirmable, At
<1>7. BackupConfirmed'
  <2>. SUFFICES ASSUME account'.backup # NoAddress, account'.backup_verified, ~switched'
                PROVE  account'.backup \in opened'
    BY DEF BackupConfirmed
  <2>1. CASE call[c].address \notin Backups
    <3>1. account'.backup_verified = account.backup_verified
      <4>1. CASE call[c].address = Owner
        BY <1>3, <4>1
      <4>2. CASE call[c].address # Owner
        BY <1>1, <2>1, <4>2 DEF AddressInv, Shape, Proper, Addresses
      <4>. QED BY <4>1, <4>2
    <3>. QED BY <1>1, <1>3, <3>1 DEF AddressInv, BackupConfirmed
  <2>2. CASE call[c].address \in Backups
    <3>1. call[c].address \in opened
      BY <1>1, <2>2 DEF AddressInv, Followed
    <3>2. ~Confirmable(account.backup)
      BY <1>1, <1>3 DEF AddressInv, Settled
    <3>3. call[c].address = account.backup
      BY <1>1, <2>2, <3>2 DEF Confirmable, At
    <3>. QED BY <1>1, <1>3, <3>1, <3>3
  <2>. QED BY <2>1, <2>2
<1>. QED BY <1>4, <1>5, <1>6, <1>7 DEF AddressInv

LEMMA TickKeeps ==
  ASSUME AddressesAssumption, AddressInv, Tick
  PROVE  AddressInv'
<1>1. /\ tokens' = [t \in Tokens |-> Age(t)]
      /\ inbox' = {t \in inbox : tokens'[t] # NoToken}
      /\ UNCHANGED <<account, call, opened, switched, failures>>
  BY DEF Tick, historyVars
<1>2. \A t \in Tokens :
        /\ tokens'[t] \in TokenRecord
        /\ tokens'[t] = NoToken \/
             /\ tokens[t] # NoToken
             /\ tokens'[t].address = tokens[t].address /\ tokens'[t].used = tokens[t].used
        /\ tokens[t] # NoToken /\ Held(t) => tokens'[t] # NoToken
  <2>. SUFFICES ASSUME NEW t \in Tokens
                PROVE  /\ tokens'[t] \in TokenRecord
                       /\ tokens'[t] = NoToken \/
                            /\ tokens[t] # NoToken
                            /\ tokens'[t].address = tokens[t].address
                            /\ tokens'[t].used = tokens[t].used
                       /\ tokens[t] # NoToken /\ Held(t) => tokens'[t] # NoToken
    OBVIOUS
  <2>1. tokens[t] \in TokenRecord /\ tokens'[t] = Age(t)
    BY <1>1 DEF AddressInv, Shape
  <2>2. CASE tokens[t] = NoToken \/ (Spent(t) /\ ~Held(t))
    <3>1. Age(t) = NoToken
      BY <2>2 DEF Age
    <3>. QED BY <2>1, <2>2, <3>1, NoTokenShape
  <2>3. CASE ~(tokens[t] = NoToken \/ (Spent(t) /\ ~Held(t))) /\ Expired(t)
    <3>1. Held(t) /\ Age(t) = tokens[t]
      BY <2>3 DEF Age, Spent
    <3>. QED BY <2>1, <2>3, <3>1
  <2>4. CASE ~(tokens[t] = NoToken \/ (Spent(t) /\ ~Held(t))) /\ ~Expired(t)
    <3>1. tokens[t].age \in Nat
      BY <2>1 DEF TokenRecord
    <3>2. PICK age \in Nat : age = tokens[t].age + 1
      BY <3>1
    <3>3. Age(t) = [tokens[t] EXCEPT !.age = age]
      BY <2>4, <3>2 DEF Age
    <3>. DEFINE r == [tokens[t] EXCEPT !.age = age]
    <3>4. r \in TokenRecord /\ r.address = tokens[t].address /\ r.used = tokens[t].used
      BY <2>1 DEF TokenRecord
    <3>5. tokens'[t] = r
      BY <2>1, <3>3
    <3>. HIDE DEF r
    <3>6. tokens[t] # NoToken /\ tokens[t].address \in Addresses
      BY <2>4 DEF AddressInv, Shape
    <3>7. r # NoToken
      BY <3>4, <3>6, NoTokenShape DEF Addresses, AddressesAssumption
    <3>. QED BY <3>4, <3>5, <3>6, <3>7
  <2>. QED BY <2>2, <2>3, <2>4
<1>3. Shape'
  <2>1. tokens' \in [Tokens -> TokenRecord]
    BY <1>1, <1>2
  <2>2. \A t \in Tokens : tokens'[t] = NoToken \/ tokens'[t].address \in Addresses
    BY <1>2 DEF AddressInv, Shape
  <2>3. \A e \in Callers : Holding(call[e]) => tokens'[call[e].token] # NoToken
    <3>1. \A e \in Callers : Holding(call[e]) =>
             call[e].token \in Tokens /\ tokens[call[e].token] # NoToken
      BY DEF AddressInv, Shape, Proper, Holding
    <3>2. \A e \in Callers : call[e].token \in Tokens => Held(call[e].token)
      BY DEF Held
    <3>. QED BY <1>2, <3>1, <3>2
  <2>. QED BY <1>1, <2>1, <2>2, <2>3 DEF AddressInv, Shape
<1>4. Followed'
  BY <1>1 DEF AddressInv, Followed
<1>5. Settled' /\ BackupConfirmed'
  <2>1. \A t \in Tokens :
           tokens'[t].address \in Backups /\ ~tokens'[t].used =>
             tokens[t].address = tokens'[t].address /\ ~tokens[t].used
    BY <1>2, NoTokenShape DEF AddressesAssumption
  <2>. QED BY <1>1, <2>1, SettledKept DEF AddressInv
<1>. QED BY <1>3, <1>4, <1>5 DEF AddressInv

LEMMA AddressStep ==
  AddressesAssumption /\ AddressInv /\ [Next]_vars => AddressInv'
<1>. SUFFICES ASSUME AddressesAssumption, AddressInv, [Next]_vars PROVE AddressInv'
  OBVIOUS
<1>1. ASSUME NEW c \in Callers, Ask(c) PROVE AddressInv'
  <2>1. CASE Register(c)
    BY <2>1, BeginKeeps DEF Register, Addresses
  <2>2. CASE Resend(c)
    BY <2>2, BeginKeeps DEF Resend, Addresses
  <2>3. ASSUME NEW address \in Backups, SetBackup(c, address) PROVE AddressInv'
    BY <2>3, BeginKeeps DEF SetBackup, Addresses
  <2>4. CASE RemoveBackup(c)
    BY <2>4, BeginKeeps DEF RemoveBackup
  <2>. QED BY <1>1, <2>1, <2>2, <2>3, <2>4, OpenKeeps DEF Ask
<1>2. ASSUME NEW c \in Callers, Serve(c) PROVE AddressInv'
  <2>1. CASE Refuse(c)
    <3>1. /\ End(c) /\ UNCHANGED <<account, tokens, opened, switched>>
          /\ inbox' \subseteq {t \in Tokens : tokens[t] # NoToken}
          /\ failures' \in 0..MaxFailures
      BY <2>1 DEF Refuse, historyVars, AddressInv, Shape
    <3>. QED BY <3>1, EndKeeps
  <2>2. CASE Deliver(c)
    <3>1. call[c].token \in Tokens /\ tokens[call[c].token] # NoToken
      BY <2>2 DEF Deliver, At, AddressInv, Shape, Proper, Holding
    <3>2. /\ End(c) /\ UNCHANGED <<account, tokens, opened, switched>>
          /\ inbox' \subseteq {t \in Tokens : tokens[t] # NoToken}
          /\ failures' \in 0..MaxFailures
      BY <2>2, <3>1 DEF Deliver, historyVars, AddressInv, Shape
    <3>. QED BY <3>2, EndKeeps
  <2>. QED
    BY <1>2, <2>1, <2>2, InsertAccountKeeps, ThrottleKeeps, IssueTokenKeeps,
       WriteBackupKeeps, ClearBackupKeeps, UseTokenKeeps, MarkVerifiedKeeps DEF Serve
<1>3. ASSUME NEW c \in Callers, Abandon(c) PROVE AddressInv'
  <2>1. failures' \in 0..MaxFailures
    BY <1>3 DEF Abandon, AddressInv, Shape, AddressesAssumption
  <2>2. /\ End(c) /\ UNCHANGED <<account, tokens, opened, switched>>
        /\ inbox' \subseteq {t \in Tokens : tokens[t] # NoToken}
    BY <1>3 DEF Abandon, AddressInv, Shape
  <2>. QED BY <2>1, <2>2, EndKeeps
<1>4. CASE UNCHANGED vars
  BY <1>4 DEF vars, historyVars, AddressInv, Shape, Followed, Settled, BackupConfirmed,
              Confirmable, At
<1>. QED BY <1>1, <1>2, <1>3, <1>4, TickKeeps DEF Next

LEMMA AddressInvariant == Spec => []AddressInv
<1>1. Init => AddressInv
  BY AddressInit, AddressesAssumption
<1>2. AddressInv /\ [Next]_vars => AddressInv'
  BY AddressStep, AddressesAssumption
<1>. QED BY <1>1, <1>2, PTL DEF Spec

-----------------------------------------------------------------------------
(* The theorems. *)

\* The rows of the account and of its tokens have their types, and a mail is of a
\* token that is in the table (accounts.rs: issue_verification_email; recovery.rs:
\* set_backup_email).
THEOREM AddressesTyped == Spec => []TypeOK
<1>1. AddressInv => TypeOK
  BY DEF AddressInv, Shape, TypeOK, AccountRecord, TokenRecord, CallRecord
<1>. QED BY <1>1, AddressInvariant, PTL

\* A backup address that counts as verified (recovery.rs:114) has opened a link of its
\* own, unless it replaced another one while a token of that one was good.
THEOREM BackupsConfirmed == Spec => []BackupConfirmed
<1>1. AddressInv => BackupConfirmed
  BY DEF AddressInv
<1>. QED BY <1>1, AddressInvariant, PTL
=============================================================================

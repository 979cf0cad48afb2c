---------------------------- MODULE RecoveryProofs ----------------------------
(***************************************************************************)
(* Theorems about account recovery (Recovery): the handlers keep the       *)
(* promise of RecoveryPromise, and the keys of the account stay usable.    *)
(***************************************************************************)
EXTENDS Recovery, TLAPS

(* The inductive invariant. *)

\* The parts of a set of keys belong together.
KeysAgree(keys) ==
  /\ keys.master.vault = keys.recovery.vault
  /\ keys.verifier = RecoveryVerifier(keys.recovery.vault)
  /\ keys.master.key = keys.auth

Agreement == KeysAgree(account) /\ \A d \in Devices : KeysAgree(call[d].bundle)

\* The owner is written to, and the mail may be lost.
OwnerMailed(q) == "owner" \in told[q] \/ "nobody" \in told[q]

\* Who is told of a request is told after the owner; what is completed was told.
OwnerFirst ==
  /\ \A q \in Requests :
       /\ requests[q].filed \/ requests[q] = Unfiled
       /\ told[q] # {} => OwnerMailed(q) /\ requests[q].filed
  /\ \A d \in Devices :
       /\ call[d].since <= now
       /\ At(d, "supersede") \/ At(d, "insert") =>
            /\ call[d].request \in Requests
            /\ requests[call[d].request] = Unfiled
            /\ \A e \in Devices \ {d} : call[e].request # call[d].request
       /\ At(d, "warn") \/ At(d, "mail") =>
            call[d].request \in Requests /\ requests[call[d].request].filed
       /\ At(d, "mail") => OwnerMailed(call[d].request)
       /\ call[d].stage \in Completing =>
            call[d].request \in Requests /\ told[call[d].request] # {}

\* Keys on their way to the server, whose password nobody has read there yet.
Building(d) == call[d].stage \in Completing \cup {"confirmed"}
NewPassword(d) == call[d].bundle.auth.password

FreshKeys ==
  /\ Era <= builds
  /\ \A d \in Devices :
       /\ call[d].era <= builds
       /\ Building(d) =>
            /\ 0 < NewPassword(d) /\ NewPassword(d) <= builds /\ NewPassword(d) # Era
            /\ \A e \in Devices : call[e].era # NewPassword(d)
            /\ \A e \in Devices \ {d} : Building(e) => NewPassword(e) # NewPassword(d)

\* A call that read the keys in force.
Current(d, stage) == At(d, stage) /\ call[d].era = Era

SaltKept ==
  /\ \A d \in Devices :
       call[d].stage \in Completing => call[d].bundle.auth.salt = call[d].bundle.salt
  /\ "change" \notin overtaken =>
       /\ account.auth.salt = account.salt
       /\ \A d \in Devices :
            Current(d, "confirmed") => call[d].bundle.auth.salt = account.salt

Undisturbed == overtaken \cap {"change", "complete", "login", "refresh", "push"} = {}

VaultKept ==
  Undisturbed =>
    /\ items \subseteq {account.master.vault}
    /\ \A d \in Devices :
         /\ SignedIn(d) => session[d].vault = account.master.vault
         /\ \/ Current(d, "confirmed") \/ Current(d, "push")
            \/ Current(d, "login") \/ Current(d, "refresh")
            \/ Current(d, "verified") /\ call[d].keep
            => call[d].bundle.master.vault = account.master.vault

Timely == overtaken \cap {"login", "refresh"} = {}

LoginsKnown ==
  /\ \A d \in Devices : At(d, "login") => call[d].era = NewPassword(d)
  /\ Timely => \A d \in Devices : At(d, "refresh") => call[d].era = NewPassword(d)
  /\ SessionsCurrent

KitKept ==
  \/ account.recovery.key \in shown
  \/ "answer" \in overtaken
  \/ \E d \in Devices : At(d, "answer") /\ call[d].bundle.recovery.key = account.recovery.key

RecoveryInv ==
  /\ TypeOK
  /\ Agreement
  /\ OwnerFirst
  /\ FreshKeys
  /\ SaltKept
  /\ VaultKept
  /\ LoginsKnown
  /\ KitKept

-----------------------------------------------------------------------------
(* Keys. *)

LEMMA BuildKeys ==
  ASSUME NEW build \in Nat, NEW salt \in Nat, NEW vault \in Nat
  PROVE  /\ BuildRegistration(build, salt, vault) \in Bundle
         /\ KeysAgree(BuildRegistration(build, salt, vault))
         /\ BuildRegistration(build, salt, vault).auth = DeriveKey(build, salt)
         /\ BuildRegistration(build, salt, vault).salt = salt
         /\ BuildRegistration(build, salt, vault).master.vault = vault
         /\ BuildRegistration(build, salt, vault).recovery.key = build
  BY DEF BuildRegistration, KeysAgree, Bundle, Key, DeriveKey, Wrap, RecoveryVerifier

LEMMA IdleCall == Idle \in Call /\ KeysAgree(Idle.bundle)
<1>1. Register(0) \in Bundle /\ KeysAgree(Register(0))
  BY BuildKeys DEF Register
<1> QED
  BY <1>1, RecoveryAssumption DEF Idle, Call, Stages

LEMMA Numbers ==
  ASSUME TypeOK
  PROVE  /\ builds \in Nat /\ now \in Nat /\ Era \in Nat
         /\ account.salt \in Nat /\ account.recovery.vault \in Nat
         /\ \A d \in Devices :
              /\ call[d].era \in Nat /\ call[d].since \in Nat /\ NewPassword(d) \in Nat
              /\ call[d].request \in 0..MaxRequests
              /\ session[d].salt \in Nat /\ session[d].vault \in Nat
  BY DEF TypeOK, Call, Bundle, Key, Era, NewPassword

-----------------------------------------------------------------------------
(* What most steps leave alone. *)

\* A step that touches neither the account nor what is built for it.
LEMMA KeysLeft ==
  ASSUME RecoveryInv,
         UNCHANGED <<account, builds>>,
         overtaken \subseteq overtaken',
         \A e \in Devices :
           \/ call'[e] = call[e]
           \/ /\ call'[e].stage \in Filing \cup {"idle"}
              /\ call'[e].era \in {0, call[e].era}
              /\ KeysAgree(call'[e].bundle)
  PROVE  /\ Agreement' /\ FreshKeys' /\ SaltKept'
         /\ Era' = Era
         /\ \A e \in Devices :
              \/ call'[e] = call[e]
              \/ call'[e].stage \notin {"confirmed", "push", "login", "refresh", "verified"}
<1>1. Agreement'
  BY DEF RecoveryInv, Agreement, KeysAgree, RecoveryVerifier
<1>2. \A e \in Devices :
        \/ call'[e] = call[e]
        \/ /\ ~Building(e)' /\ call'[e].stage \notin Completing
           /\ call'[e].stage \notin {"confirmed", "push", "login", "refresh", "verified"}
  BY DEF Building, Filing, Completing
<1>3. Era' = Era
  BY DEF Era
<1>4. FreshKeys'
  BY <1>2, <1>3, Numbers DEF RecoveryInv, FreshKeys, Building, NewPassword
<1>5. SaltKept'
  BY <1>2, <1>3 DEF RecoveryInv, SaltKept, Current, At
<1> QED
  BY <1>1, <1>2, <1>3, <1>4, <1>5

\* Neither what is stored nor read under the keys.
LEMMA LightStep ==
  ASSUME RecoveryInv,
         UNCHANGED <<account, items, session, builds>>,
         overtaken \subseteq overtaken',
         \A e \in Devices :
           \/ call'[e] = call[e]
           \/ /\ call'[e].stage \in Filing \cup {"idle"}
              /\ call'[e].era \in {0, call[e].era}
              /\ KeysAgree(call'[e].bundle)
  PROVE  Agreement' /\ FreshKeys' /\ SaltKept' /\ VaultKept' /\ LoginsKnown'
<1>1. /\ Agreement' /\ FreshKeys' /\ SaltKept'
      /\ Era' = Era
      /\ \A e \in Devices :
           \/ call'[e] = call[e]
           \/ call'[e].stage \notin {"confirmed", "push", "login", "refresh", "verified"}
  BY KeysLeft
<1>2. VaultKept'
  BY <1>1 DEF RecoveryInv, VaultKept, Undisturbed, Current, At, SignedIn
<1>3. LoginsKnown'
  BY <1>1 DEF RecoveryInv, LoginsKnown, Timely, SessionsCurrent, At, NewPassword, SignedIn
<1> QED
  BY <1>1, <1>2, <1>3

\* A step after which no request is filed, mailed or completed that was not before.
LEMMA RequestsLeft ==
  ASSUME RecoveryInv,
         UNCHANGED <<requests, told>>, now \in Nat, now' \in Nat, now <= now',
         \A e \in Devices :
           \/ call'[e] = call[e]
           \/ /\ call'[e].since \in {0, call[e].since}
              /\ call'[e].request \in {0, call[e].request}
              /\ call'[e].stage \notin Filing
              /\ call'[e].stage \in Completing =>
                   call[e].stage \in Completing /\ call'[e].request = call[e].request
  PROVE  OwnerFirst'
<1>1. \A e \in Devices : call[e].since \in Nat /\ call'[e].since <= now'
  BY Numbers DEF RecoveryInv, OwnerFirst, OwnerMailed
<1>2. 0 \notin Requests
  BY DEF Requests
<1>3. \A e \in Devices :
        At(e, "supersede")' \/ At(e, "insert")' \/ At(e, "warn")' \/ At(e, "mail")' =>
          call'[e] = call[e]
  BY DEF At, Filing
<1> QED
  BY <1>1, <1>2, <1>3 DEF RecoveryInv, OwnerFirst, OwnerMailed, At

\* Nobody but the device itself forgets a kit that is to be shown.
LEMMA KitWaits ==
  ASSUME RecoveryInv,
         account'.recovery = account.recovery, shown \subseteq shown',
         overtaken \subseteq overtaken',
         \A e \in Devices : ~At(e, "answer") \/ call'[e] = call[e]
  PROVE  KitKept'
  BY DEF RecoveryInv, KitKept, At

LEMMA CallWritten ==
  ASSUME TypeOK, NEW d \in Devices, NEW x \in Call, call' = [call EXCEPT ![d] = x]
  PROVE  /\ call' \in [Devices -> Call]
         /\ call'[d] = x
         /\ \A e \in Devices \ {d} : call'[e] = call[e]
  BY DEF TypeOK

\* The stages have different names, and none is the empty call's.
LEMMA IdleFields ==
  /\ Idle.stage = "idle" /\ Idle.request = 0 /\ Idle.since = 0 /\ Idle.era = 0
  /\ KeysAgree(Idle.bundle)
  BY IdleCall DEF Idle

LEMMA Moved ==
  ASSUME RecoveryInv, NEW d \in Devices, NEW stage \in Stages, Move(d, stage)
  PROVE  /\ call' \in [Devices -> Call]
         /\ call'[d] = [call[d] EXCEPT !.stage = stage]
         /\ call'[d].stage = stage /\ call'[d].request = call[d].request
         /\ call'[d].since = call[d].since /\ call'[d].era = call[d].era
         /\ call'[d].bundle = call[d].bundle /\ call'[d].keep = call[d].keep
         /\ \A e \in Devices \ {d} : call'[e] = call[e]
         /\ KeysAgree(call'[d].bundle)
<1>1. [call[d] EXCEPT !.stage = stage] \in Call
  BY DEF RecoveryInv, TypeOK, Call
<1>2. call' = [call EXCEPT ![d] = [call[d] EXCEPT !.stage = stage]]
  BY DEF Move
<1>3. call[d] \in Call
  BY DEF RecoveryInv, TypeOK
<1> QED
  BY <1>1, <1>2, <1>3, CallWritten DEF RecoveryInv, Agreement, Call

LEMMA Ended ==
  ASSUME RecoveryInv, NEW d \in Devices, End(d)
  PROVE  /\ call' \in [Devices -> Call]
         /\ call'[d] = Idle
         /\ \A e \in Devices \ {d} : call'[e] = call[e]
  BY IdleCall, CallWritten DEF RecoveryInv, End

-----------------------------------------------------------------------------
(* A request is filed. *)

LEMMA StartInv ==
  ASSUME RecoveryInv, NEW d \in Devices, NEW q \in Requests, Start(d, q)
  PROVE  RecoveryInv'
<1> DEFINE x == [Idle EXCEPT !.stage = "supersede", !.request = q, !.since = now]
<1>0. now \in Nat /\ q \in 0..MaxRequests /\ "supersede" \in Stages
  BY Numbers DEF RecoveryInv, Requests, Stages, Filing
<1>1. /\ x \in Call
      /\ x.stage = "supersede" /\ x.request = q /\ x.since = now /\ x.era = 0
      /\ KeysAgree(x.bundle)
  <2>1. x \in Call /\ x.bundle = Idle.bundle
    BY <1>0, IdleCall DEF Call
  <2> QED
    BY <2>1, IdleCall, IdleFields DEF Call
<1>2. call' = [call EXCEPT ![d] = x]
  BY DEF Start
<1> HIDE DEF x
<1>3. /\ call' \in [Devices -> Call]
      /\ call'[d] = x
      /\ \A e \in Devices \ {d} : call'[e] = call[e]
  BY <1>1, <1>2, CallWritten DEF RecoveryInv
<1>4. UNCHANGED <<account, items, session, requests, told, now, builds, shown, overtaken>>
  BY DEF Start, serverVars, clientVars
<1>5. TypeOK'
  BY <1>3, <1>4 DEF RecoveryInv, TypeOK
<1>6. Agreement' /\ FreshKeys' /\ SaltKept' /\ VaultKept' /\ LoginsKnown'
  BY <1>1, <1>3, <1>4, LightStep DEF Filing
<1>7. requests[q] = Unfiled /\ (\A e \in Devices : call[e].request # q) /\ At(d, "idle")
  BY DEF RecoveryInv, OwnerFirst, OwnerMailed, Start, Fresh, Unused
<1>8. OwnerFirst'
  <2>1. \A p \in Requests : OwnerMailed(p)' = OwnerMailed(p)
    BY <1>4 DEF OwnerMailed
  <2>2. \A p \in Requests :
          /\ requests'[p].filed \/ requests'[p] = Unfiled
          /\ told'[p] # {} => OwnerMailed(p)' /\ requests'[p].filed
    BY <1>4, <2>1 DEF RecoveryInv, OwnerFirst
  <2>3. \A e \in Devices : call'[e].since <= now'
    BY <1>1, <1>3, <1>4, Numbers DEF RecoveryInv, OwnerFirst
  <2> QED
    BY <1>1, <1>3, <1>4, <1>7, <2>1, <2>2, <2>3 DEF RecoveryInv, OwnerFirst, At, Completing
<1>9. KitKept'
  BY <1>3, <1>4, <1>7, KitWaits DEF At
<1> QED
  BY <1>5, <1>6, <1>8, <1>9 DEF RecoveryInv

LEMMA SupersedeInv ==
  ASSUME RecoveryInv, NEW d \in Devices, Supersede(d)
  PROVE  RecoveryInv'
<1>1. /\ At(d, "supersede") /\ Move(d, "insert") /\ "insert" \in Stages
      /\ UNCHANGED <<account, items, session, told, now, builds, shown>>
      /\ overtaken' \in {overtaken, overtaken \cup {"start"}}
  BY DEF Supersede, clientVars, Stages, Filing
<1>2. /\ requests' \in [Requests -> [filed : BOOLEAN, cancelled : BOOLEAN,
                                     completed : BOOLEAN, usable_at : Nat]]
      /\ \A q \in Requests :
           /\ requests'[q].filed = requests[q].filed
           /\ ~requests[q].filed => requests'[q] = requests[q]
  BY DEF Supersede, SupersedePending, Pending, RecoveryInv, TypeOK
<1>3. /\ call' \in [Devices -> Call]
      /\ call'[d].stage = "insert" /\ call'[d].request = call[d].request
      /\ call'[d].since = call[d].since /\ call'[d].era = call[d].era
      /\ \A e \in Devices \ {d} : call'[e] = call[e]
      /\ KeysAgree(call'[d].bundle)
  BY <1>1, Moved
<1>4. TypeOK'
  BY <1>1, <1>2, <1>3 DEF RecoveryInv, TypeOK
<1>5. Agreement' /\ FreshKeys' /\ SaltKept' /\ VaultKept' /\ LoginsKnown'
  BY <1>1, <1>3, LightStep DEF Filing
<1>6. \A q \in Requests : requests[q] = Unfiled => requests'[q] = Unfiled
  BY <1>2 DEF Unfiled
<1>7. OwnerFirst'
  <2>1. \A q \in Requests :
          /\ requests'[q].filed \/ requests'[q] = Unfiled
          /\ told'[q] # {} => OwnerMailed(q)' /\ requests'[q].filed
    BY <1>1, <1>2, <1>6 DEF RecoveryInv, OwnerFirst, OwnerMailed
  <2>2. \A e \in Devices : call'[e].request = call[e].request /\ call'[e].since = call[e].since
    BY <1>3
  <2>3. \A e \in Devices :
          At(e, "supersede")' \/ At(e, "insert")' => At(e, "supersede") \/ At(e, "insert")
    BY <1>1, <1>3 DEF At
  <2>4. \A e \in Devices : e # d => call'[e] = call[e]
    BY <1>3
  <2> QED
    BY <1>1, <1>2, <1>3, <1>6, <2>1, <2>2, <2>3, <2>4
       DEF RecoveryInv, OwnerFirst, OwnerMailed, At, Completing
<1>8. KitKept'
  BY <1>1, <1>3, KitWaits DEF At
<1> QED
  BY <1>4, <1>5, <1>7, <1>8 DEF RecoveryInv

LEMMA InsertRequestInv ==
  ASSUME RecoveryInv, NEW d \in Devices, InsertRequest(d)
  PROVE  RecoveryInv'
<1> DEFINE q == call[d].request
<1> DEFINE row == [Unfiled EXCEPT !.filed = TRUE, !.usable_at = call[d].since + Cooloff]
<1>1. /\ At(d, "insert") /\ Move(d, "warn") /\ "warn" \in Stages
      /\ requests' = [requests EXCEPT ![q] = row]
      /\ UNCHANGED <<account, items, session, told, now, builds, shown, overtaken>>
  BY DEF InsertRequest, clientVars, Stages, Filing
<1>2. /\ row \in [filed : BOOLEAN, cancelled : BOOLEAN, completed : BOOLEAN, usable_at : Nat]
      /\ row.filed
  <2>1. call[d].since + Cooloff \in Nat
    BY Numbers, RecoveryAssumption DEF RecoveryInv
  <2> QED
    BY <2>1 DEF Unfiled
<1> HIDE DEF row
<1>3. /\ call' \in [Devices -> Call]
      /\ call'[d].stage = "warn" /\ call'[d].request = q
      /\ call'[d].since = call[d].since /\ call'[d].era = call[d].era
      /\ \A e \in Devices \ {d} : call'[e] = call[e]
      /\ KeysAgree(call'[d].bundle)
  BY <1>1, Moved
<1>4. TypeOK'
  BY <1>1, <1>2, <1>3 DEF RecoveryInv, TypeOK
<1>5. Agreement' /\ FreshKeys' /\ SaltKept' /\ VaultKept' /\ LoginsKnown'
  BY <1>1, <1>3, LightStep DEF Filing
<1>6. /\ q \in Requests /\ requests[q] = Unfiled
      /\ \A e \in Devices \ {d} : call[e].request # q
  BY <1>1 DEF RecoveryInv, OwnerFirst, OwnerMailed
<1>7. /\ requests'[q].filed
      /\ \A p \in Requests \ {q} : requests'[p] = requests[p]
  BY <1>1, <1>2, <1>6 DEF RecoveryInv, TypeOK
<1>8. OwnerFirst'
  BY <1>1, <1>3, <1>6, <1>7 DEF RecoveryInv, OwnerFirst, OwnerMailed, At, Completing
<1>9. KitKept'
  BY <1>1, <1>3, KitWaits DEF At
<1> QED
  BY <1>4, <1>5, <1>8, <1>9 DEF RecoveryInv

LEMMA WarnOwnerInv ==
  ASSUME RecoveryInv, NEW d \in Devices, WarnOwner(d)
  PROVE  RecoveryInv'
<1>0. PICK q \in Requests : q = call[d].request /\ requests[q].filed
  BY DEF WarnOwner, RecoveryInv, OwnerFirst
<1>1. /\ At(d, "warn") /\ Move(d, "mail") /\ "mail" \in Stages
      /\ \E reader \in {"owner", "nobody"} : told' = [told EXCEPT ![q] = @ \cup {reader}]
      /\ UNCHANGED <<account, items, session, requests, now, builds, shown, overtaken>>
  BY <1>0 DEF WarnOwner, Mail, clientVars, Stages, Filing
<1>2. /\ call' \in [Devices -> Call]
      /\ call'[d].stage = "mail" /\ call'[d].request = q
      /\ call'[d].since = call[d].since /\ call'[d].era = call[d].era
      /\ \A e \in Devices \ {d} : call'[e] = call[e]
      /\ KeysAgree(call'[d].bundle)
  BY <1>0, <1>1, Moved
<1>3. TypeOK'
  BY <1>0, <1>1, <1>2 DEF RecoveryInv, TypeOK, Mailboxes
<1>4. Agreement' /\ FreshKeys' /\ SaltKept' /\ VaultKept' /\ LoginsKnown'
  BY <1>1, <1>2, LightStep DEF Filing
<1>5. /\ OwnerMailed(q)'
      /\ \A p \in Requests : told[p] \subseteq told'[p] /\ (p # q => told'[p] = told[p])
  <2>2. PICK reader \in {"owner", "nobody"} : told' = [told EXCEPT ![q] = @ \cup {reader}]
    BY <1>1
  <2>3. /\ told'[q] = told[q] \cup {reader}
        /\ \A p \in Requests \ {q} : told'[p] = told[p]
    BY <2>2 DEF RecoveryInv, TypeOK
  <2> QED
    BY <2>2, <2>3 DEF OwnerMailed
<1>6. OwnerFirst'
  <2>1. \A p \in Requests : OwnerMailed(p) => OwnerMailed(p)'
    BY <1>5 DEF OwnerMailed
  <2>2. \A p \in Requests : told'[p] # {} => OwnerMailed(p)' /\ requests'[p].filed
    BY <1>0, <1>1, <1>5, <2>1 DEF RecoveryInv, OwnerFirst
  <2> QED
    BY <1>0, <1>1, <1>2, <1>5, <2>1, <2>2 DEF RecoveryInv, OwnerFirst, At, Completing
<1>7. KitKept'
  BY <1>1, <1>2, KitWaits DEF At
<1> QED
  BY <1>3, <1>4, <1>6, <1>7 DEF RecoveryInv

LEMMA MailBackupInv ==
  ASSUME RecoveryInv, NEW d \in Devices, MailBackup(d)
  PROVE  RecoveryInv'
<1> DEFINE q == call[d].request
<1>1. /\ At(d, "mail") /\ End(d)
      /\ UNCHANGED <<account, items, session, requests, now, builds, shown, overtaken>>
  BY DEF MailBackup, clientVars
<1>2. /\ call' \in [Devices -> Call]
      /\ call'[d] = Idle
      /\ \A e \in Devices \ {d} : call'[e] = call[e]
  BY <1>1, Ended
<1>3. /\ q \in Requests /\ requests[q].filed
      /\ OwnerMailed(q)
  BY <1>1 DEF RecoveryInv, OwnerFirst, OwnerMailed
<1>4. /\ told' \in [Requests -> SUBSET (Mailboxes \cup {"nobody"})]
      /\ \A p \in Requests : told[p] \subseteq told'[p] /\ (p # q => told'[p] = told[p])
  BY DEF MailBackup, Mail, Mailboxes, RecoveryInv, TypeOK
<1>5. TypeOK'
  BY <1>1, <1>2, <1>4 DEF RecoveryInv, TypeOK
<1>6. Agreement' /\ FreshKeys' /\ SaltKept' /\ VaultKept' /\ LoginsKnown'
  BY <1>1, <1>2, IdleFields, LightStep
<1>7. 0 \notin Requests
  BY DEF Requests
<1>8. OwnerFirst'
  BY <1>1, <1>2, <1>3, <1>4, <1>7, IdleFields, Numbers
     DEF RecoveryInv, OwnerFirst, OwnerMailed, At, Completing
<1>9. KitKept'
  BY <1>1, <1>2, KitWaits DEF At
<1> QED
  BY <1>5, <1>6, <1>8, <1>9 DEF RecoveryInv

LEMMA CancelInv ==
  ASSUME RecoveryInv, NEW q \in Requests, Cancel(q)
  PROVE  RecoveryInv'
<1>1. /\ requests[q].filed
      /\ requests' = [requests EXCEPT ![q].cancelled = TRUE]
      /\ UNCHANGED <<account, items, session, told, now, builds, shown, call, overtaken>>
  BY DEF Cancel, Pending, clientVars
<1>2. TypeOK'
  BY <1>1 DEF RecoveryInv, TypeOK
<1>3. Agreement' /\ FreshKeys' /\ SaltKept' /\ VaultKept' /\ LoginsKnown'
  BY <1>1, LightStep
<1>4. /\ requests'[q].filed
      /\ \A p \in Requests \ {q} : requests'[p] = requests[p]
  BY <1>1 DEF RecoveryInv, TypeOK
<1>5. requests[q] # Unfiled
  BY <1>1 DEF Unfiled
<1>6. OwnerFirst'
  BY <1>1, <1>4, <1>5 DEF RecoveryInv, OwnerFirst, OwnerMailed, At
<1>7. KitKept'
  BY <1>1, KitWaits
<1> QED
  BY <1>2, <1>3, <1>6, <1>7 DEF RecoveryInv

LEMMA TickInv == RecoveryInv /\ Tick => RecoveryInv'
<1> SUFFICES ASSUME RecoveryInv, Tick PROVE RecoveryInv'
  OBVIOUS
<1>1. /\ UNCHANGED <<account, items, session, requests, told, builds, shown, call, overtaken>>
      /\ now \in Nat /\ now' = now + 1
  BY Numbers DEF Tick, serverVars, clientVars, RecoveryInv
<1>2. TypeOK'
  BY <1>1 DEF RecoveryInv, TypeOK
<1>3. Agreement' /\ FreshKeys' /\ SaltKept' /\ VaultKept' /\ LoginsKnown'
  BY <1>1, LightStep
<1>4. OwnerFirst'
  BY <1>1, RequestsLeft
<1>5. KitKept'
  BY <1>1, KitWaits
<1> QED
  BY <1>2, <1>3, <1>4, <1>5 DEF RecoveryInv

\* A command that is answered, refused or cut short.
LEMMA EndInv ==
  ASSUME RecoveryInv, NEW d \in Devices, End(d), KitKept',
         UNCHANGED <<serverVars, now, builds>>,
         overtaken \subseteq overtaken', overtaken' \subseteq overtaken \cup {"answer"},
         shown' \subseteq Nat
  PROVE  RecoveryInv'
<1>1. /\ call' \in [Devices -> Call]
      /\ call'[d] = Idle
      /\ \A e \in Devices \ {d} : call'[e] = call[e]
  BY Ended
<1>2. TypeOK'
  BY <1>1 DEF RecoveryInv, TypeOK, serverVars
<1>3. Agreement' /\ FreshKeys' /\ SaltKept' /\ VaultKept' /\ LoginsKnown'
  BY <1>1, IdleFields, LightStep DEF serverVars
<1>4. now \in Nat
  BY Numbers DEF RecoveryInv
<1>5. OwnerFirst'
  BY <1>1, <1>4, IdleFields, RequestsLeft DEF serverVars, Filing, Completing
<1> QED
  BY <1>2, <1>3, <1>5 DEF RecoveryInv

LEMMA AbandonInv ==
  ASSUME RecoveryInv, NEW d \in Devices, Abandon(d)
  PROVE  RecoveryInv'
<1>1. /\ End(d) /\ UNCHANGED <<serverVars, now, builds, shown>>
      /\ overtaken' = IF At(d, "answer") THEN overtaken \cup {"answer"} ELSE overtaken
  BY DEF Abandon, clientVars
<1>2. KitKept'
  <2>1. CASE At(d, "answer")
    BY <1>1, <2>1 DEF KitKept
  <2>2. CASE ~At(d, "answer")
    BY <1>1, <2>2, Ended, KitWaits DEF serverVars
  <2> QED BY <2>1, <2>2
<1>3. shown \subseteq Nat
  BY DEF RecoveryInv, TypeOK
<1> QED
  BY <1>1, <1>2, <1>3, EndInv

LEMMA ShowKitInv ==
  ASSUME RecoveryInv, NEW d \in Devices, ShowKit(d)
  PROVE  RecoveryInv'
<1>1. /\ End(d) /\ UNCHANGED <<serverVars, now, builds, overtaken>>
      /\ shown' = shown \cup {call[d].bundle.recovery.key}
  BY DEF ShowKit
<1>2. /\ \A e \in Devices \ {d} : call'[e] = call[e]
      /\ account' = account
  BY <1>1, Ended DEF serverVars
<1>3. KitKept'
  BY <1>1, <1>2 DEF RecoveryInv, KitKept, At
<1>4. call[d].bundle.recovery.key \in Nat /\ shown \subseteq Nat
  <2>1. call[d] \in Call /\ shown \subseteq Nat
    BY DEF RecoveryInv, TypeOK
  <2> QED
    BY <2>1 DEF Call, Bundle
<1>5. shown' \subseteq Nat
  BY <1>1, <1>4
<1> QED
  BY <1>1, <1>3, <1>5, EndInv

-----------------------------------------------------------------------------
(* A request is completed, and the master password changed. *)

\* A call of d that is as the invariant has it, with the numbers of builds after it.
Sound(d, x) ==
  /\ KeysAgree(x.bundle)
  /\ x.era \in 0 .. builds'
  /\ \A e \in Devices \ {d} : Building(e) => x.era # NewPassword(e)
  /\ x.stage \in Completing \cup {"confirmed"} =>
       LET p == x.bundle.auth.password
       IN  /\ p \in 1 .. builds' /\ p # Era /\ p # x.era
           /\ \A e \in Devices \ {d} :
                call[e].era # p /\ (Building(e) => NewPassword(e) # p)
  /\ x.stage \in Completing => x.bundle.auth.salt = x.bundle.salt
  /\ "change" \notin overtaken /\ x.stage = "confirmed" => x.bundle.auth.salt = account.salt
  /\ Undisturbed /\ x.era = Era
       /\ \/ x.stage \in {"confirmed", "push", "login", "refresh"}
          \/ x.stage = "verified" /\ x.keep
     => x.bundle.master.vault = account.master.vault
  /\ x.stage = "login" => x.era = x.bundle.auth.password
  /\ x.stage = "refresh" /\ Timely => x.era = x.bundle.auth.password

LEMMA SoundStep ==
  ASSUME RecoveryInv, NEW d \in Devices, NEW x \in Call, Sound(d, x),
         call'[d] = x, \A e \in Devices \ {d} : call'[e] = call[e],
         UNCHANGED <<account, items, session, overtaken>>,
         builds' \in Nat, builds <= builds'
  PROVE  Agreement' /\ FreshKeys' /\ SaltKept' /\ VaultKept' /\ LoginsKnown'
<1>1. Agreement'
  BY DEF RecoveryInv, Agreement, KeysAgree, RecoveryVerifier, Sound
<1>2. Era' = Era /\ Era \in Nat /\ builds \in Nat
  BY Numbers DEF RecoveryInv, Era
<1>3. FreshKeys'
  <2>1. Era' <= builds'
    BY <1>2 DEF RecoveryInv, FreshKeys
  <2>2. ASSUME NEW e \in Devices PROVE call'[e].era <= builds'
    BY <1>2, Numbers DEF RecoveryInv, FreshKeys, Sound
  <2>3. ASSUME NEW e \in Devices \ {d}, Building(e)'
        PROVE  /\ Building(e)
               /\ NewPassword(e)' = NewPassword(e)
               /\ 0 < NewPassword(e) /\ NewPassword(e) <= builds'
               /\ NewPassword(e) # Era
               /\ \A f \in Devices : call'[f].era # NewPassword(e)
               /\ \A f \in Devices \ {e} : Building(f)' => NewPassword(f)' # NewPassword(e)
    <3>1. Building(e) /\ NewPassword(e)' = NewPassword(e)
      BY <2>3 DEF Building, NewPassword
    <3>2. 0 < NewPassword(e) /\ NewPassword(e) <= builds' /\ NewPassword(e) # Era
      BY <1>2, <3>1, Numbers DEF RecoveryInv, FreshKeys
    <3>3. \A f \in Devices : call'[f].era # NewPassword(e)
      BY <3>1 DEF RecoveryInv, FreshKeys, Sound
    <3>4. ASSUME NEW f \in Devices \ {e}, Building(f)' PROVE NewPassword(f)' # NewPassword(e)
      BY <3>1, <3>4 DEF RecoveryInv, FreshKeys, Sound, Building, NewPassword
    <3> QED BY <3>1, <3>2, <3>3, <3>4
  <2>4. ASSUME Building(d)'
        PROVE  /\ 0 < NewPassword(d)' /\ NewPassword(d)' <= builds'
               /\ NewPassword(d)' # Era
               /\ \A f \in Devices : call'[f].era # NewPassword(d)'
               /\ \A f \in Devices \ {d} : Building(f)' => NewPassword(f)' # NewPassword(d)'
    <3> DEFINE p == x.bundle.auth.password
    <3>1. /\ NewPassword(d)' = p
          /\ p \in 1 .. builds' /\ p # Era /\ p # x.era
          /\ \A e \in Devices \ {d} : call[e].era # p /\ (Building(e) => NewPassword(e) # p)
      BY <2>4 DEF Sound, Building, NewPassword
    <3>2. \A f \in Devices \ {d} :
            (Building(f)' <=> Building(f)) /\ NewPassword(f)' = NewPassword(f)
      BY DEF Building, NewPassword
    <3> QED BY <3>1, <3>2
  <2> QED
    BY <1>2, <2>1, <2>2, <2>3, <2>4 DEF FreshKeys
<1>4. SaltKept'
  BY <1>2 DEF RecoveryInv, SaltKept, Current, At, Sound
<1>5. VaultKept'
  BY <1>2 DEF RecoveryInv, VaultKept, Undisturbed, Current, At, SignedIn, Sound
<1>6. LoginsKnown'
  BY <1>2 DEF RecoveryInv, LoginsKnown, Timely, SessionsCurrent, At, NewPassword, SignedIn, Sound
<1> QED
  BY <1>1, <1>3, <1>4, <1>5, <1>6

LEMMA PresentInv ==
  ASSUME RecoveryInv, NEW d \in Devices, NEW q \in Requests,
         NEW bundle \in Bundle, NEW keep \in BOOLEAN,
         Present(d, q, bundle, keep), Released(q), KeysAgree(bundle),
         bundle.auth.password = builds + 1, bundle.auth.salt = bundle.salt
  PROVE  RecoveryInv'
<1> DEFINE x == [Idle EXCEPT !.stage = "fetched", !.request = q, !.keep = keep, !.bundle = bundle]
<1>0. q \in 0..MaxRequests /\ "fetched" \in Stages
  BY DEF RecoveryInv, Requests, Stages, Completing, RecoveryAssumption
<1>1. /\ x \in Call
      /\ x.stage = "fetched" /\ x.request = q /\ x.since = 0 /\ x.era = 0 /\ x.bundle = bundle
  <2>1. x \in Call
    BY <1>0, IdleCall DEF Call
  <2> QED
    BY <2>1, IdleCall, IdleFields DEF Call
<1>2. call' = [call EXCEPT ![d] = x]
  BY DEF Present
<1> HIDE DEF x
<1>3. /\ call' \in [Devices -> Call]
      /\ call'[d] = x
      /\ \A e \in Devices \ {d} : call'[e] = call[e]
  BY <1>1, <1>2, CallWritten DEF RecoveryInv
<1>4. /\ UNCHANGED <<account, items, session, requests, told, now, shown, overtaken>>
      /\ At(d, "idle") /\ builds' = builds + 1
      /\ builds \in Nat /\ Era \in Nat /\ now \in Nat
  BY Numbers DEF Present, serverVars, RecoveryInv
<1>5. TypeOK'
  BY <1>3, <1>4 DEF RecoveryInv, TypeOK
<1>6. Sound(d, x)
  <2>1. \A e \in Devices : Building(e) => NewPassword(e) # 0 /\ NewPassword(e) # builds + 1
    BY <1>4, Numbers DEF RecoveryInv, FreshKeys
  <2>2. Era # builds + 1 /\ \A e \in Devices : call[e].era # builds + 1
    BY <1>4, Numbers DEF RecoveryInv, FreshKeys
  <2> QED
    BY <1>1, <1>4, <2>1, <2>2 DEF Sound
<1>7. Agreement' /\ FreshKeys' /\ SaltKept' /\ VaultKept' /\ LoginsKnown'
  BY <1>1, <1>3, <1>4, <1>6, SoundStep
<1>8. OwnerFirst'
  <2>1. told[q] # {} /\ requests[q] # Unfiled
    BY DEF Released, Holders, RecoveryInv, OwnerFirst, OwnerMailed, Unfiled
  <2> QED
    BY <1>1, <1>3, <1>4, <2>1 DEF RecoveryInv, OwnerFirst, OwnerMailed, At
<1>9. KitKept'
  BY <1>3, <1>4, KitWaits DEF At
<1> QED
  BY <1>5, <1>7, <1>8, <1>9 DEF RecoveryInv

LEMMA RecoverWithKitInv ==
  ASSUME RecoveryInv, NEW d \in Devices, NEW q \in Requests, RecoverWithKit(d, q)
  PROVE  RecoveryInv'
<1> DEFINE bundle == RecoverAndRekey(builds + 1, account.salt, account.recovery)
<1>1. builds + 1 \in Nat /\ account.salt \in Nat /\ account.recovery.vault \in Nat
  BY Numbers DEF RecoveryInv
<1>2. /\ bundle \in Bundle /\ KeysAgree(bundle)
      /\ bundle.auth = DeriveKey(builds + 1, account.salt) /\ bundle.salt = account.salt
  BY <1>1, BuildKeys DEF RecoverAndRekey
<1>3. bundle.auth.password = builds + 1 /\ bundle.auth.salt = bundle.salt
  BY <1>2 DEF DeriveKey
<1>4. Present(d, q, bundle, TRUE) /\ Released(q)
  BY DEF RecoverWithKit
<1> HIDE DEF bundle
<1> QED
  BY <1>2, <1>3, <1>4, PresentInv

LEMMA RecoverByWipeInv ==
  ASSUME RecoveryInv, NEW d \in Devices, NEW q \in Requests, RecoverByWipe(d, q)
  PROVE  RecoveryInv'
<1> DEFINE bundle == Register(builds + 1)
<1>1. builds + 1 \in Nat
  BY Numbers DEF RecoveryInv
<1>2. /\ bundle \in Bundle /\ KeysAgree(bundle)
      /\ bundle.auth = DeriveKey(builds + 1, builds + 1) /\ bundle.salt = builds + 1
  BY <1>1, BuildKeys DEF Register
<1>3. bundle.auth.password = builds + 1 /\ bundle.auth.salt = bundle.salt
  BY <1>2 DEF DeriveKey
<1>4. Present(d, q, bundle, FALSE) /\ Released(q)
  BY DEF RecoverByWipe
<1> HIDE DEF bundle
<1> QED
  BY <1>2, <1>3, <1>4, PresentInv

\* A completion that goes on with the keys it finds in the row.
LEMMA KeysRead ==
  ASSUME RecoveryInv, NEW d \in Devices, call[d].stage \in {"fetched", "admitted"},
         NEW stage \in {"admitted", "verified"},
         call' = [call EXCEPT ![d].stage = stage, ![d].era = Era],
         stage = "verified" /\ call[d].keep => call[d].bundle.verifier = account.verifier,
         UNCHANGED <<serverVars, now, clientVars, overtaken>>
  PROVE  RecoveryInv'
<1> DEFINE x == [call[d] EXCEPT !.stage = stage, !.era = Era]
<1>1. call[d] \in Call /\ Era \in Nat /\ builds \in Nat /\ now \in Nat /\ stage \in Stages
  BY Numbers DEF RecoveryInv, TypeOK, Stages, Completing
<1>2. /\ x \in Call
      /\ x.stage = stage /\ x.era = Era /\ x.request = call[d].request
      /\ x.since = call[d].since /\ x.bundle = call[d].bundle /\ x.keep = call[d].keep
  BY <1>1 DEF Call
<1>3. call' = [call EXCEPT ![d] = x]
  BY <1>1
<1> HIDE DEF x
<1>4. /\ call' \in [Devices -> Call]
      /\ call'[d] = x
      /\ \A e \in Devices \ {d} : call'[e] = call[e]
  BY <1>2, <1>3, CallWritten DEF RecoveryInv
<1>5. UNCHANGED <<account, items, session, requests, told, now, builds, shown, overtaken>>
  BY DEF serverVars, clientVars
<1>6. TypeOK'
  BY <1>4, <1>5 DEF RecoveryInv, TypeOK
<1>7. Sound(d, x)
  <2>1. KeysAgree(call[d].bundle) /\ KeysAgree(account)
    BY DEF RecoveryInv, Agreement
  <2>2. stage = "verified" /\ call[d].keep => call[d].bundle.master.vault = account.master.vault
    BY <2>1 DEF KeysAgree, RecoveryVerifier
  <2>3. Building(d) /\ NewPassword(d) = x.bundle.auth.password
    BY <1>2 DEF Building, NewPassword, Completing
  <2>4. NewPassword(d) \in 1 .. builds /\ Era <= builds
    BY <1>1, <2>3, Numbers DEF RecoveryInv, FreshKeys
  <2>5. call[d].bundle.auth.salt = call[d].bundle.salt
    BY DEF RecoveryInv, SaltKept, Completing
  <2>6. /\ NewPassword(d) # Era
        /\ \A e \in Devices \ {d} :
             /\ call[e].era # NewPassword(d)
             /\ Building(e) => NewPassword(e) # Era /\ NewPassword(e) # NewPassword(d)
    BY <2>3 DEF RecoveryInv, FreshKeys
  <2> QED
    BY <1>1, <1>2, <1>5, <2>1, <2>2, <2>3, <2>4, <2>5, <2>6 DEF Sound
<1>8. Agreement' /\ FreshKeys' /\ SaltKept' /\ VaultKept' /\ LoginsKnown'
  <2>1. builds' \in Nat /\ builds <= builds'
    BY <1>1, <1>5
  <2> QED
    BY <1>2, <1>4, <1>5, <1>7, <2>1, SoundStep
<1>9. OwnerFirst'
  <2>1. call'[d].stage \in Completing /\ call'[d].stage \notin Filing
    BY <1>2, <1>4 DEF Completing, Filing
  <2> QED
    BY <1>1, <1>2, <1>4, <1>5, <2>1, RequestsLeft DEF Completing
<1>10. KitKept'
  BY <1>4, <1>5, KitWaits DEF At
<1> QED
  BY <1>6, <1>8, <1>9, <1>10 DEF RecoveryInv

LEMMA AdmitInv ==
  ASSUME RecoveryInv, NEW d \in Devices, Admit(d)
  PROVE  RecoveryInv'
<1>1. CASE call[d].keep
  BY <1>1, KeysRead DEF Admit, At
<1>2. CASE ~call[d].keep
  BY <1>2, KeysRead DEF Admit, At
<1> QED BY <1>1, <1>2

LEMMA CheckVerifierInv ==
  ASSUME RecoveryInv, NEW d \in Devices, CheckVerifier(d)
  PROVE  RecoveryInv'
  BY KeysRead DEF CheckVerifier, At

\* A command that has read the keys in force, of a device that had nothing in hand.
LEMMA BeginInv ==
  ASSUME RecoveryInv, NEW d \in Devices, At(d, "idle"),
         NEW stage \in {"confirmed", "login", "refresh", "push"}, NEW bundle \in Bundle,
         call' = [call EXCEPT ![d] = [Idle EXCEPT !.stage = stage, !.era = Era, !.bundle = bundle]],
         UNCHANGED <<serverVars, now, shown, overtaken>>,
         KeysAgree(bundle), builds' \in Nat, builds <= builds',
         stage = "confirmed" =>
           /\ bundle.auth.password = builds + 1 /\ builds' = builds + 1
           /\ "change" \notin overtaken => bundle.auth.salt = account.salt,
         Undisturbed => bundle.master.vault = account.master.vault,
         stage = "login" => Era = bundle.auth.password,
         stage = "refresh" /\ Timely => Era = bundle.auth.password
  PROVE  RecoveryInv'
<1> DEFINE x == [Idle EXCEPT !.stage = stage, !.era = Era, !.bundle = bundle]
<1>1. Era \in Nat /\ builds \in Nat /\ now \in Nat /\ stage \in Stages
  BY Numbers DEF RecoveryInv, Stages
<1>2. x \in Call
  BY <1>1, IdleCall DEF Call
<1>3. /\ x.stage = stage /\ x.era = Era /\ x.request = 0 /\ x.since = 0 /\ x.bundle = bundle
  BY <1>2, IdleCall, IdleFields DEF Call
<1> HIDE DEF x
<1>4. /\ call' \in [Devices -> Call]
      /\ call'[d] = x
      /\ \A e \in Devices \ {d} : call'[e] = call[e]
  BY <1>2, CallWritten DEF RecoveryInv, x
<1>5. UNCHANGED <<account, items, session, requests, told, now, shown, overtaken>>
  BY DEF serverVars
<1>6. TypeOK'
  BY <1>4, <1>5 DEF RecoveryInv, TypeOK
<1>7. Sound(d, x)
  <2>1. \A e \in Devices : Building(e) => NewPassword(e) # Era /\ NewPassword(e) # builds + 1
    BY <1>1, Numbers DEF RecoveryInv, FreshKeys
  <2>2. Era <= builds /\ Era # builds + 1 /\ \A e \in Devices : call[e].era # builds + 1
    BY <1>1, Numbers DEF RecoveryInv, FreshKeys
  <2>3. x.stage \notin Completing /\ x.stage # "verified"
    BY <1>3 DEF Completing
  <2> QED
    BY <1>1, <1>3, <2>1, <2>2, <2>3 DEF Sound
<1>8. Agreement' /\ FreshKeys' /\ SaltKept' /\ VaultKept' /\ LoginsKnown'
  BY <1>2, <1>4, <1>5, <1>7, SoundStep
<1>9. OwnerFirst'
  <2>1. /\ call'[d].since = 0 /\ call'[d].request = 0
        /\ call'[d].stage \notin Filing /\ call'[d].stage \notin Completing
    BY <1>3, <1>4 DEF Completing, Filing
  <2>2. now' \in Nat /\ now <= now'
    BY <1>1, <1>5
  <2> QED
    BY <1>1, <1>4, <1>5, <2>1, <2>2, RequestsLeft
<1>10. KitKept'
  BY <1>4, <1>5, KitWaits DEF At
<1> QED
  BY <1>6, <1>8, <1>9, <1>10 DEF RecoveryInv

\* What a device builds keeps the salt and the Vault Key of its session.
LEMMA ChangedKeys ==
  ASSUME RecoveryInv, NEW d \in Devices, NEW build \in Nat
  PROVE  /\ ChangePassword(build, session[d]) \in Bundle
         /\ KeysAgree(ChangePassword(build, session[d]))
         /\ ChangePassword(build, session[d]).auth.password = build
         /\ ChangePassword(build, session[d]).auth.salt = session[d].salt
         /\ ChangePassword(build, session[d]).master.vault = session[d].vault
<1> DEFINE salt == session[d].salt
           vault == session[d].vault
           built == BuildRegistration(build, salt, vault)
<1>1. salt \in Nat /\ vault \in Nat
  BY Numbers DEF RecoveryInv
<1>2. ChangePassword(build, session[d]) = built
  BY DEF ChangePassword
<1>3. DeriveKey(build, salt).password = build /\ DeriveKey(build, salt).salt = salt
  BY DEF DeriveKey
<1>4. /\ built \in Bundle /\ KeysAgree(built)
      /\ built.auth = DeriveKey(build, salt) /\ built.master.vault = vault
  <2> HIDE DEF salt, vault
  <2> QED
    BY <1>1, BuildKeys
<1> QED
  BY <1>2, <1>3, <1>4

LEMMA StartChangeInv ==
  ASSUME RecoveryInv, NEW d \in Devices, StartChange(d)
  PROVE  RecoveryInv'
<1>1. /\ At(d, "idle") /\ SignedIn(d) /\ account.auth.salt = session[d].salt
      /\ builds' = builds + 1 /\ builds \in Nat
      /\ call' = [call EXCEPT ![d] = [Idle EXCEPT !.stage = "confirmed", !.era = Era,
                                        !.bundle = ChangePassword(builds + 1, session[d])]]
      /\ UNCHANGED <<serverVars, now, shown, overtaken>>
  BY Numbers DEF StartChange, ConfirmSensitive, RecoveryInv
<1>2. "change" \notin overtaken => session[d].salt = account.salt
  BY <1>1 DEF RecoveryInv, SaltKept
<1>3. Undisturbed => session[d].vault = account.master.vault
  BY <1>1 DEF RecoveryInv, VaultKept
<1> DEFINE bundle == ChangePassword(builds + 1, session[d])
<1>4. /\ bundle \in Bundle /\ KeysAgree(bundle) /\ bundle.auth.password = builds + 1
      /\ bundle.auth.salt = session[d].salt /\ bundle.master.vault = session[d].vault
  <2>1. builds + 1 \in Nat
    BY <1>1
  <2> QED
    BY <2>1, ChangedKeys
<1>5. call' = [call EXCEPT ![d] =
        [Idle EXCEPT !.stage = "confirmed", !.era = Era, !.bundle = bundle]]
  BY <1>1
<1> HIDE DEF bundle
<1>6. builds' \in Nat /\ builds <= builds'
  BY <1>1
<1>7. /\ "change" \notin overtaken => bundle.auth.salt = account.salt
      /\ Undisturbed => bundle.master.vault = account.master.vault
  BY <1>2, <1>3, <1>4
<1> QED
  BY <1>1, <1>4, <1>5, <1>6, <1>7, BeginInv

LEMMA StartLoginInv ==
  ASSUME RecoveryInv, NEW d \in Devices, StartLogin(d)
  PROVE  RecoveryInv'
<1>1. account \in Bundle /\ KeysAgree(account) /\ builds \in Nat
  BY Numbers DEF RecoveryInv, TypeOK, Agreement
<1>2. /\ At(d, "idle")
      /\ call' = [call EXCEPT ![d] =
           [Idle EXCEPT !.stage = "login", !.era = Era, !.bundle = account]]
      /\ UNCHANGED <<serverVars, now, shown, overtaken>>
      /\ builds' = builds
  BY DEF StartLogin, clientVars
<1>3. builds' \in Nat /\ builds <= builds'
  BY <1>1, <1>2
<1>4. Era = account.auth.password
  BY DEF Era
<1> QED
  BY <1>1, <1>2, <1>3, <1>4, BeginInv

LEMMA StartRefreshInv ==
  ASSUME RecoveryInv, NEW d \in Devices, StartRefresh(d)
  PROVE  RecoveryInv'
<1>1. /\ Undisturbed => session[d].vault = account.master.vault
      /\ Timely => session[d].era = Era
  BY DEF RecoveryInv, VaultKept, LoginsKnown, Timely, SessionsCurrent, StartRefresh
<1> DEFINE bundle == ChangePassword(session[d].era, session[d])
<1>2. /\ bundle \in Bundle /\ KeysAgree(bundle)
      /\ bundle.master.vault = session[d].vault
      /\ bundle.auth.password = session[d].era
  <2>1. session[d].era \in Nat
    BY DEF RecoveryInv, TypeOK
  <2> QED
    BY <2>1, ChangedKeys
<1>3. /\ At(d, "idle")
      /\ call' = [call EXCEPT ![d] =
           [Idle EXCEPT !.stage = "refresh", !.era = Era, !.bundle = bundle]]
      /\ UNCHANGED <<serverVars, now, shown, overtaken>>
      /\ builds' = builds
  BY DEF StartRefresh, clientVars
<1> HIDE DEF bundle
<1>4. builds' \in Nat /\ builds <= builds'
  BY <1>3, Numbers DEF RecoveryInv
<1>5. /\ Undisturbed => bundle.master.vault = account.master.vault
      /\ Timely => Era = bundle.auth.password
  BY <1>1, <1>2
<1> QED
  BY <1>2, <1>3, <1>4, <1>5, BeginInv

LEMMA StartPushInv ==
  ASSUME RecoveryInv, NEW d \in Devices, StartPush(d)
  PROVE  RecoveryInv'
<1>1. Undisturbed => session[d].vault = account.master.vault
  BY DEF RecoveryInv, VaultKept, StartPush
<1> DEFINE bundle == ChangePassword(0, session[d])
<1>2. /\ bundle \in Bundle /\ KeysAgree(bundle)
      /\ bundle.master.vault = session[d].vault
  BY ChangedKeys
<1>3. /\ At(d, "idle")
      /\ call' = [call EXCEPT ![d] = [Idle EXCEPT !.stage = "push", !.era = Era, !.bundle = bundle]]
      /\ UNCHANGED <<serverVars, now, shown, overtaken>>
      /\ builds' = builds
  BY DEF StartPush, clientVars
<1> HIDE DEF bundle
<1>4. builds' \in Nat /\ builds <= builds'
  BY <1>3, Numbers DEF RecoveryInv
<1>5. Undisturbed => bundle.master.vault = account.master.vault
  BY <1>1, <1>2
<1> QED
  BY <1>2, <1>3, <1>4, <1>5, BeginInv

-----------------------------------------------------------------------------
(* What is written under the keys, and the keys themselves. *)

LEMMA OvertakeLeaves ==
  ASSUME RecoveryInv, NEW d \in Devices,
         NEW kind \in {"complete", "change", "login", "refresh", "push"},
         Overtake(d, kind)
  PROVE  /\ overtaken \subseteq overtaken'
         /\ overtaken' \subseteq {"start", "complete", "change", "login", "refresh", "push",
                                   "answer"}
         /\ kind \notin overtaken' => call[d].era = Era
         /\ Undisturbed' => Undisturbed /\ call[d].era = Era
  BY DEF Overtake, RecoveryInv, TypeOK, Undisturbed

LEMMA PushItemInv ==
  ASSUME RecoveryInv, NEW d \in Devices, PushItem(d)
  PROVE  RecoveryInv'
<1> DEFINE vault == call[d].bundle.master.vault
<1>1. /\ At(d, "push") /\ End(d) /\ Overtake(d, "push")
      /\ items' = items \cup {vault}
      /\ UNCHANGED <<account, session, requests, told, now, builds, shown>>
  BY DEF PushItem, clientVars
<1>2. /\ call' \in [Devices -> Call]
      /\ call'[d] = Idle
      /\ \A e \in Devices \ {d} : call'[e] = call[e]
  BY <1>1, Ended
<1>3. /\ overtaken \subseteq overtaken'
      /\ overtaken' \subseteq {"start", "complete", "change", "login", "refresh", "push", "answer"}
      /\ Undisturbed' => Undisturbed /\ call[d].era = Era
  BY <1>1, OvertakeLeaves
<1>4. vault \in Nat
  <2>1. call[d] \in Call
    BY DEF RecoveryInv, TypeOK
  <2> QED
    BY <2>1 DEF Call, Bundle
<1>5. TypeOK'
  BY <1>1, <1>2, <1>3, <1>4 DEF RecoveryInv, TypeOK
<1>6. /\ Agreement' /\ FreshKeys' /\ SaltKept'
      /\ Era' = Era
      /\ \A e \in Devices :
           \/ call'[e] = call[e]
           \/ call'[e].stage \notin {"confirmed", "push", "login", "refresh", "verified"}
  BY <1>1, <1>2, <1>3, IdleFields, KeysLeft
<1>7. Undisturbed /\ call[d].era = Era => vault = account.master.vault
  BY <1>1 DEF RecoveryInv, VaultKept, Current
<1>8. VaultKept'
  BY <1>1, <1>3, <1>6, <1>7 DEF RecoveryInv, VaultKept, Current, At, SignedIn
<1>9. LoginsKnown'
  BY <1>1, <1>3, <1>6
     DEF RecoveryInv, LoginsKnown, Timely, SessionsCurrent, At, NewPassword, SignedIn
<1>10. now \in Nat
  BY Numbers DEF RecoveryInv
<1>11. OwnerFirst'
  BY <1>1, <1>2, <1>10, IdleFields, RequestsLeft DEF Filing, Completing
<1>12. KitKept'
  BY <1>1, <1>2, <1>3, KitWaits DEF At
<1> QED
  BY <1>5, <1>6, <1>8, <1>9, <1>11, <1>12 DEF RecoveryInv

\* A session that begins, or goes on, with what the call has read.
LEMMA InstallInv ==
  ASSUME RecoveryInv, NEW d \in Devices, NEW kind \in {"login", "refresh"},
         At(d, kind), Install(d), End(d), Overtake(d, kind),
         UNCHANGED <<account, items, requests, told, now, clientVars>>
  PROVE  RecoveryInv'
<1> DEFINE opened == [era |-> NewPassword(d), salt |-> call[d].bundle.salt,
                      vault |-> call[d].bundle.master.vault]
<1>1. /\ At(d, kind) /\ End(d) /\ Overtake(d, kind)
      /\ session' = [session EXCEPT ![d] = opened]
      /\ UNCHANGED <<account, items, requests, told, now, builds, shown>>
  BY DEF Install, clientVars, NewPassword
<1>2. /\ call' \in [Devices -> Call]
      /\ call'[d] = Idle
      /\ \A e \in Devices \ {d} : call'[e] = call[e]
  BY <1>1, Ended
<1>3. /\ overtaken \subseteq overtaken'
      /\ overtaken' \subseteq {"start", "complete", "change", "login", "refresh", "push", "answer"}
      /\ Timely' => Timely /\ call[d].era = Era
      /\ Undisturbed' => Undisturbed /\ call[d].era = Era
  BY <1>1, OvertakeLeaves DEF Timely
<1>4. opened \in [era : Nat, salt : Nat, vault : Nat]
  <2>1. call[d] \in Call
    BY DEF RecoveryInv, TypeOK
  <2> QED
    BY <2>1 DEF Call, Bundle, Key, NewPassword
<1>5. /\ session' \in [Devices -> [era : Nat, salt : Nat, vault : Nat]]
      /\ session'[d] = opened
      /\ \A e \in Devices \ {d} : session'[e] = session[e]
  BY <1>1, <1>4 DEF RecoveryInv, TypeOK
<1>6. TypeOK'
  BY <1>1, <1>2, <1>3, <1>5 DEF RecoveryInv, TypeOK
<1>7. /\ Agreement' /\ FreshKeys' /\ SaltKept'
      /\ Era' = Era
      /\ \A e \in Devices :
           \/ call'[e] = call[e]
           \/ call'[e].stage \notin {"confirmed", "push", "login", "refresh", "verified"}
  BY <1>1, <1>2, <1>3, IdleFields, KeysLeft
<1>8. /\ Timely => call[d].era = NewPassword(d)
      /\ Undisturbed /\ call[d].era = Era => opened.vault = account.master.vault
  BY <1>1 DEF RecoveryInv, LoginsKnown, VaultKept, Current
<1>9. opened.era = NewPassword(d)
  OBVIOUS
<1> HIDE DEF opened
<1>10. VaultKept'
  BY <1>1, <1>3, <1>5, <1>7, <1>8 DEF RecoveryInv, VaultKept, Current, At, SignedIn
<1>11. LoginsKnown'
  BY <1>1, <1>3, <1>5, <1>7, <1>8, <1>9
     DEF RecoveryInv, LoginsKnown, Timely, SessionsCurrent, At, NewPassword, SignedIn
<1>12. now \in Nat
  BY Numbers DEF RecoveryInv
<1>13. OwnerFirst'
  BY <1>1, <1>2, <1>12, IdleFields, RequestsLeft DEF Filing, Completing
<1>14. KitKept'
  BY <1>1, <1>2, <1>3, KitWaits DEF At
<1> QED
  BY <1>6, <1>7, <1>10, <1>11, <1>13, <1>14 DEF RecoveryInv

LEMMA OpenSessionInv ==
  ASSUME RecoveryInv, NEW d \in Devices, OpenSession(d)
  PROVE  RecoveryInv'
  BY InstallInv DEF OpenSession

LEMMA RenewSessionInv ==
  ASSUME RecoveryInv, NEW d \in Devices, RenewSession(d)
  PROVE  RecoveryInv'
  BY InstallInv DEF RenewSession

\* A call that replaces the keys of the account by its own.
LEMMA KeysReplaced ==
  ASSUME RecoveryInv, NEW d \in Devices, Building(d), Move(d, "answer"),
         account'.auth = call[d].bundle.auth, account'.master = call[d].bundle.master,
         account'.recovery = call[d].bundle.recovery, account'.verifier = call[d].bundle.verifier,
         UNCHANGED <<shown, builds>>
  PROVE  /\ Agreement' /\ FreshKeys' /\ KitKept'
         /\ Era' = NewPassword(d)
         /\ call' \in [Devices -> Call]
         /\ call'[d].stage = "answer" /\ call'[d].request = call[d].request
         /\ call'[d].since = call[d].since
         /\ \A e \in Devices \ {d} : call'[e] = call[e] /\ call[e].era # Era'
<1>1. /\ call' \in [Devices -> Call]
      /\ call'[d].stage = "answer" /\ call'[d].request = call[d].request
      /\ call'[d].since = call[d].since /\ call'[d].era = call[d].era
      /\ call'[d].bundle = call[d].bundle
      /\ \A e \in Devices \ {d} : call'[e] = call[e]
  <2>1. "answer" \in Stages
    BY DEF Stages
  <2> QED
    BY <2>1, Moved
<1>2. Era' = NewPassword(d)
  BY DEF Era, NewPassword
<1>3. \A e \in Devices : call[e].era # NewPassword(d)
  BY DEF RecoveryInv, FreshKeys
<1>4. Agreement'
  BY <1>1 DEF RecoveryInv, Agreement, KeysAgree, RecoveryVerifier
<1>5. FreshKeys'
  <2>1. ~Building(d)' /\ \A e \in Devices \ {d} :
           (Building(e)' <=> Building(e)) /\ NewPassword(e)' = NewPassword(e)
    BY <1>1 DEF Building, NewPassword, Completing
  <2>2. \A e \in Devices : call'[e].era = call[e].era
    BY <1>1
  <2> QED
    BY <1>2, <1>3, <2>1, <2>2, Numbers DEF RecoveryInv, FreshKeys
<1>6. KitKept'
  BY <1>1 DEF KitKept, At
<1> QED
  BY <1>1, <1>2, <1>3, <1>4, <1>5, <1>6

LEMMA CommitRecoveryInv ==
  ASSUME RecoveryInv, NEW d \in Devices, CommitRecovery(d)
  PROVE  RecoveryInv'
<1> DEFINE bundle == call[d].bundle
<1> DEFINE q == call[d].request
<1>1. /\ At(d, "verified") /\ Move(d, "answer") /\ Overtake(d, "complete")
      /\ items' = ItemsLeft(d) /\ account' = Recovered(bundle) /\ session' = NoSession
      /\ requests' = [requests EXCEPT ![q].completed = TRUE]
      /\ UNCHANGED <<told, now, builds, shown>>
  BY DEF CommitRecovery, RevokeAll, clientVars
<1>2. Building(d) /\ call[d].stage \in Completing
  BY <1>1 DEF At, Building, Completing
<1>3. call[d] \in Call /\ bundle \in Bundle /\ account \in Bundle
  BY DEF RecoveryInv, TypeOK, Call
<1>4. account' \in Bundle
  BY <1>1, <1>3 DEF Recovered, Bundle
<1>5. /\ account'.auth = bundle.auth /\ account'.salt = bundle.salt
      /\ account'.master = bundle.master
      /\ account'.recovery = bundle.recovery /\ account'.verifier = bundle.verifier
  BY <1>1, <1>3 DEF Recovered, Bundle
<1>6. /\ Agreement' /\ FreshKeys' /\ KitKept'
      /\ call' \in [Devices -> Call]
      /\ call'[d].stage = "answer" /\ call'[d].request = q
      /\ call'[d].since = call[d].since
      /\ \A e \in Devices \ {d} : call'[e] = call[e] /\ call[e].era # Era'
  BY <1>1, <1>2, <1>5, KeysReplaced
<1>7. /\ overtaken \subseteq overtaken'
      /\ overtaken' \subseteq {"start", "complete", "change", "login", "refresh", "push", "answer"}
      /\ Undisturbed' => Undisturbed /\ call[d].era = Era
  BY <1>1, OvertakeLeaves
<1>8. /\ session' \in [Devices -> [era : Nat, salt : Nat, vault : Nat]]
      /\ \A e \in Devices : ~SignedIn(e)'
  BY <1>1 DEF NoSession, SignedOut, SignedIn
<1>9. /\ q \in Requests /\ requests[q].filed
      /\ requests'[q].filed
      /\ \A p \in Requests \ {q} : requests'[p] = requests[p]
  <2>1. q \in Requests /\ told[q] # {}
    BY <1>2 DEF RecoveryInv, OwnerFirst, OwnerMailed
  <2>2. requests[q].filed
    BY <2>1 DEF RecoveryInv, OwnerFirst, OwnerMailed
  <2> QED
    BY <1>1, <2>1, <2>2 DEF RecoveryInv, TypeOK
<1>10. TypeOK'
  <2>1. requests' \in [Requests -> [filed : BOOLEAN, cancelled : BOOLEAN,
                                    completed : BOOLEAN, usable_at : Nat]]
    <3>1. requests \in [Requests -> [filed : BOOLEAN, cancelled : BOOLEAN,
                                     completed : BOOLEAN, usable_at : Nat]]
      BY DEF RecoveryInv, TypeOK
    <3>2. requests' = [requests EXCEPT ![q].completed = TRUE] /\ q \in Requests
      BY <1>1, <1>9
    <3> HIDE DEF q
    <3> QED
      BY <3>1, <3>2
  <2>2. items' \subseteq Nat
    BY <1>1 DEF ItemsLeft, RecoveryInv, TypeOK
  <2> QED
    BY <1>1, <1>4, <1>6, <1>7, <1>8, <2>1, <2>2 DEF RecoveryInv, TypeOK
<1>11. OwnerFirst'
  <2>1. requests[q] # Unfiled
    BY <1>9 DEF Unfiled
  <2>2. \A p \in Requests : requests'[p].filed \/ requests'[p] = Unfiled
    BY <1>9 DEF RecoveryInv, OwnerFirst, OwnerMailed
  <2>3. \A p \in Requests : requests'[p].filed = requests[p].filed
    BY <1>9 DEF RecoveryInv, TypeOK
  <2>4. \A p \in Requests : requests[p] = Unfiled => requests'[p] = Unfiled
    BY <1>9, <2>1
  <2>5. \A e \in Devices : call'[e].request = call[e].request /\ call'[e].since = call[e].since
    BY <1>6
  <2>6. \A e \in Devices : e # d => call'[e] = call[e]
    BY <1>6
  <2> QED
    BY <1>1, <1>6, <2>2, <2>3, <2>4, <2>5, <2>6
       DEF RecoveryInv, OwnerFirst, OwnerMailed, At, Completing
<1>12. SaltKept'
  <2>1. bundle.auth.salt = bundle.salt
    BY <1>2 DEF RecoveryInv, SaltKept
  <2> QED
    BY <1>5, <1>6, <2>1 DEF RecoveryInv, SaltKept, Current, At, Completing
<1>13. VaultKept'
  <2>1. ASSUME Undisturbed' PROVE items' \subseteq {account'.master.vault}
    <3>1. CASE call[d].keep
      <4>1. bundle.master.vault = account.master.vault /\ items \subseteq {account.master.vault}
        BY <1>1, <1>7, <2>1, <3>1 DEF RecoveryInv, VaultKept, Current
      <4> QED
        BY <1>1, <1>5, <3>1, <4>1 DEF ItemsLeft
    <3>2. CASE ~call[d].keep
      BY <1>1, <3>2 DEF ItemsLeft
    <3> QED BY <3>1, <3>2
  <2> QED
    BY <1>6, <1>8, <2>1 DEF VaultKept, Current, At
<1>14. LoginsKnown'
  BY <1>6, <1>7, <1>8 DEF RecoveryInv, LoginsKnown, Timely, SessionsCurrent, At, NewPassword
<1> QED
  BY <1>6, <1>10, <1>11, <1>12, <1>13, <1>14 DEF RecoveryInv

LEMMA CommitChangeInv ==
  ASSUME RecoveryInv, NEW d \in Devices, CommitChange(d)
  PROVE  RecoveryInv'
<1> DEFINE bundle == call[d].bundle
<1> DEFINE own == IF SignedIn(d) THEN [session[d] EXCEPT !.era = bundle.auth.password]
                                 ELSE SignedOut
<1>1. /\ At(d, "confirmed") /\ Move(d, "answer") /\ Overtake(d, "change")
      /\ account' = Rekeyed(bundle) /\ session' = [NoSession EXCEPT ![d] = own]
      /\ UNCHANGED <<items, requests, told, now, builds, shown>>
  BY DEF CommitChange, clientVars
<1>2. Building(d)
  BY <1>1 DEF At, Building
<1>3. /\ call[d] \in Call /\ bundle \in Bundle /\ account \in Bundle
      /\ session[d] \in [era : Nat, salt : Nat, vault : Nat]
      /\ bundle.auth.password \in Nat
  BY DEF RecoveryInv, TypeOK, Call, Bundle, Key
<1>4. account' \in Bundle
  BY <1>1, <1>3 DEF Rekeyed, Bundle
<1>5. /\ account'.auth = bundle.auth /\ account'.salt = account.salt
      /\ account'.master = bundle.master
      /\ account'.recovery = bundle.recovery /\ account'.verifier = bundle.verifier
  BY <1>1, <1>3 DEF Rekeyed, Bundle
<1>6. /\ Agreement' /\ FreshKeys' /\ KitKept'
      /\ Era' = NewPassword(d)
      /\ call' \in [Devices -> Call]
      /\ call'[d].stage = "answer" /\ call'[d].request = call[d].request
      /\ call'[d].since = call[d].since
      /\ \A e \in Devices \ {d} : call'[e] = call[e] /\ call[e].era # Era'
  BY <1>1, <1>2, <1>5, KeysReplaced
<1>7. /\ overtaken \subseteq overtaken'
      /\ overtaken' \subseteq {"start", "complete", "change", "login", "refresh", "push", "answer"}
      /\ "change" \notin overtaken' => call[d].era = Era
      /\ Undisturbed' => Undisturbed /\ call[d].era = Era
  BY <1>1, OvertakeLeaves
<1>8. /\ own \in [era : Nat, salt : Nat, vault : Nat]
      /\ own # SignedOut => SignedIn(d) /\ own.era = NewPassword(d) /\ own.vault = session[d].vault
  BY <1>3 DEF SignedOut, NewPassword
<1> HIDE DEF own
<1>9. /\ session' \in [Devices -> [era : Nat, salt : Nat, vault : Nat]]
      /\ session'[d] = own
      /\ \A e \in Devices \ {d} : session'[e] = SignedOut
  BY <1>1, <1>8 DEF NoSession, SignedOut
<1>10. TypeOK'
  BY <1>1, <1>4, <1>6, <1>7, <1>9 DEF RecoveryInv, TypeOK
<1>11. now \in Nat
  BY Numbers DEF RecoveryInv
<1>12. OwnerFirst'
  BY <1>1, <1>6, <1>11, RequestsLeft DEF Filing, Completing
<1>13. SaltKept'
  <2>1. call[d].era = Era /\ "change" \notin overtaken => bundle.auth.salt = account.salt
    BY <1>1 DEF RecoveryInv, SaltKept, Current
  <2> QED
    BY <1>5, <1>6, <1>7, <2>1 DEF RecoveryInv, SaltKept, Current, At, Completing
<1>14. VaultKept'
  <2>1. Undisturbed' =>
          /\ bundle.master.vault = account.master.vault
          /\ items \subseteq {account.master.vault}
          /\ SignedIn(d) => session[d].vault = account.master.vault
    BY <1>1, <1>7 DEF RecoveryInv, VaultKept, Current
  <2> QED
    BY <1>1, <1>5, <1>6, <1>8, <1>9, <2>1 DEF VaultKept, Current, At, SignedIn
<1>15. LoginsKnown'
  BY <1>6, <1>7, <1>8, <1>9
     DEF RecoveryInv, LoginsKnown, Timely, SessionsCurrent, At, NewPassword, SignedIn
<1> QED
  BY <1>6, <1>10, <1>12, <1>13, <1>14, <1>15 DEF RecoveryInv

-----------------------------------------------------------------------------
(* The invariant holds. *)

LEMMA InitInv == Init => RecoveryInv
<1> SUFFICES ASSUME Init PROVE RecoveryInv
  OBVIOUS
<1>1. /\ account \in Bundle /\ KeysAgree(account)
      /\ account.auth = DeriveKey(1, 1) /\ account.salt = 1
      /\ account.recovery.key = 1
  BY BuildKeys DEF Init, Register
<1>2. Era = 1 /\ account.auth.salt = account.salt
  BY <1>1 DEF Era, DeriveKey
<1>3. /\ builds = 1 /\ items = {} /\ overtaken = {} /\ shown = {1} /\ now = 0
      /\ call = [d \in Devices |-> Idle] /\ session = NoSession
      /\ requests = [q \in Requests |-> Unfiled] /\ told = [q \in Requests |-> {}]
  BY DEF Init
<1>4. TypeOK
  BY <1>1, <1>3, IdleCall DEF TypeOK, NoSession, SignedOut, Unfiled
<1>5. Agreement
  BY <1>1, <1>3, IdleFields DEF Agreement
<1>6. OwnerFirst
  BY <1>3, IdleFields DEF OwnerFirst, OwnerMailed, At, Completing
<1>7. FreshKeys
  BY <1>2, <1>3, IdleFields DEF FreshKeys, Building, Completing
<1>8. \A d \in Devices : ~SignedIn(d)
  BY <1>3 DEF NoSession, SignedIn
<1>9. SaltKept
  BY <1>2, <1>3, IdleFields DEF SaltKept, Current, At, Completing
<1>10. VaultKept
  BY <1>3, <1>8, IdleFields DEF VaultKept, Current, At
<1>11. LoginsKnown
  BY <1>3, <1>8, IdleFields DEF LoginsKnown, Timely, SessionsCurrent, At
<1>12. KitKept
  BY <1>1, <1>3 DEF KitKept
<1> QED
  BY <1>4, <1>5, <1>6, <1>7, <1>9, <1>10, <1>11, <1>12 DEF RecoveryInv

LEMMA StutterInv == RecoveryInv /\ UNCHANGED vars => RecoveryInv'
<1> SUFFICES ASSUME RecoveryInv, UNCHANGED vars PROVE RecoveryInv'
  OBVIOUS
<1>1. /\ UNCHANGED <<account, items, session, requests, told, now, builds, call, shown, overtaken>>
      /\ now \in Nat
  BY Numbers DEF vars, RecoveryInv
<1>2. TypeOK'
  BY <1>1 DEF RecoveryInv, TypeOK
<1>3. Agreement' /\ FreshKeys' /\ SaltKept' /\ VaultKept' /\ LoginsKnown'
  BY <1>1, LightStep
<1>4. OwnerFirst'
  BY <1>1, RequestsLeft
<1>5. KitKept'
  BY <1>1, KitWaits
<1> QED
  BY <1>2, <1>3, <1>4, <1>5 DEF RecoveryInv

LEMMA RecoverySteps == RecoveryInv /\ [Next]_vars => RecoveryInv'
<1> SUFFICES ASSUME RecoveryInv, [Next]_vars PROVE RecoveryInv'
  OBVIOUS
<1>1. ASSUME NEW d \in Devices, Ask(d) PROVE RecoveryInv'
  BY <1>1, StartInv, RecoverWithKitInv, RecoverByWipeInv, StartChangeInv, StartLoginInv,
     StartRefreshInv, StartPushInv DEF Ask
<1>2. ASSUME NEW d \in Devices, Serve(d) PROVE RecoveryInv'
  BY <1>2, SupersedeInv, InsertRequestInv, WarnOwnerInv, MailBackupInv, AdmitInv,
     CheckVerifierInv, CommitRecoveryInv, CommitChangeInv, OpenSessionInv, RenewSessionInv,
     PushItemInv DEF Serve
<1>3. ASSUME NEW d \in Devices, ShowKit(d) \/ Abandon(d) PROVE RecoveryInv'
  BY <1>3, ShowKitInv, AbandonInv
<1>4. ASSUME NEW q \in Requests, Cancel(q) PROVE RecoveryInv'
  BY <1>4, CancelInv
<1>5. CASE Tick
  BY <1>5, TickInv
<1>6. CASE UNCHANGED vars
  BY <1>6, StutterInv
<1> QED
  BY <1>1, <1>2, <1>3, <1>4, <1>5, <1>6 DEF Next

LEMMA RecoveryInvariant == Spec => []RecoveryInv
BY InitInv, RecoverySteps, PTL DEF Spec

\* The rows and the commands keep their types, whatever overtakes what.
THEOREM RecoveryTyped == Spec => []TypeOK
<1>1. RecoveryInv => TypeOK
  BY DEF RecoveryInv
<1> QED
  BY <1>1, RecoveryInvariant, PTL

\* The password in force, with the salt the server hands out, opens the Vault Key
\* (recovery.rs:704), as long as no change of password that was confirmed before the
\* keys were replaced commits after.
THEOREM PasswordStaysGood == Spec => []PasswordOpensVault
<1>1. RecoveryInv => PasswordOpensVault
  <2> SUFFICES ASSUME RecoveryInv, "change" \notin overtaken
               PROVE  /\ account.auth = DeriveKey(Era, account.salt)
                      /\ Unwraps(account.auth, account.master)
    BY DEF PasswordOpensVault
  <2>1. account.auth \in Key /\ KeysAgree(account) /\ account.auth.salt = account.salt
    BY DEF RecoveryInv, TypeOK, Bundle, Agreement, SaltKept
  <2>2. account.auth = [password |-> account.auth.password, salt |-> account.auth.salt]
    BY <2>1 DEF Key
  <2> QED
    BY <2>1, <2>2 DEF DeriveKey, Era, Unwraps, KeysAgree
<1> QED
  BY <1>1, RecoveryInvariant, PTL

\* What the server stores can be read with the keys in force (recovery.rs:330-335),
\* as long as nothing writes under keys that were replaced since it read them: no push,
\* no login and no renewal of a session (auth.rs:386), no completion and no change.
THEOREM ItemsStayReadable == Spec => []ItemsReadable
<1>1. RecoveryInv => ItemsReadable
  BY DEF RecoveryInv, VaultKept, Undisturbed, ItemsReadable
<1> QED
  BY <1>1, RecoveryInvariant, PTL

\* Whoever is signed in knows the password in force (recovery.rs:353-358, 703-740),
\* unless a login or a renewal that had looked before the keys were replaced inserts
\* its session after (auth.rs:154, 386).
THEOREM SessionsStayCurrent == Spec => []SessionsCurrent
<1>1. RecoveryInv => SessionsCurrent
  BY DEF RecoveryInv, LoginsKnown
<1> QED
  BY <1>1, RecoveryInvariant, PTL

\* The kit in force opens the second copy of the Vault Key and passes the check of
\* the verifier (recovery.rs:300-327), and was shown unless its answer was lost.
THEOREM KitStaysGood == Spec => []KitOpensVault
<1>1. RecoveryInv => KitOpensVault
  BY DEF RecoveryInv, Agreement, KeysAgree, KitKept, KitOpensVault
<1> QED
  BY <1>1, RecoveryInvariant, PTL

-----------------------------------------------------------------------------
(* Of the requests of an account one at most is pending. *)

Inserting(d) == At(d, "insert")

OnePending ==
  "start" \notin overtaken =>
    /\ \A p, q \in Requests : Pending(p) /\ Pending(q) => p = q
    /\ \A d \in Devices : Inserting(d) =>
         /\ \A q \in Requests : ~Pending(q)
         /\ \A e \in Devices \ {d} : ~Inserting(e)

\* A step that neither files nor withdraws all that was filed.
LEMMA PendingLeft ==
  ASSUME OnePending, overtaken \subseteq overtaken',
         \A q \in Requests : Pending(q)' => Pending(q),
         \A d \in Devices : Inserting(d)' => Inserting(d)
  PROVE  OnePending'
  BY DEF OnePending

LEMMA SupersedePendingKept ==
  ASSUME RecoveryInv, OnePending, NEW d \in Devices, Supersede(d)
  PROVE  OnePending'
<1>1. /\ At(d, "supersede") /\ Move(d, "insert") /\ "insert" \in Stages
      /\ overtaken' = IF \E e \in Devices : Inserting(e) THEN overtaken \cup {"start"}
                                                       ELSE overtaken
  BY DEF Supersede, Inserting, Stages, Filing
<1>2. \A q \in Requests : ~Pending(q)'
  BY DEF Supersede, SupersedePending, Pending, RecoveryInv, TypeOK
<1>3. \A e \in Devices \ {d} : Inserting(e)' = Inserting(e)
  BY <1>1, Moved DEF Inserting, At
<1>4. "start" \notin overtaken' => \A e \in Devices : ~Inserting(e)
  BY <1>1
<1> QED
  BY <1>2, <1>3, <1>4 DEF OnePending

LEMMA InsertPendingKept ==
  ASSUME RecoveryInv, OnePending, NEW d \in Devices, InsertRequest(d)
  PROVE  OnePending'
<1>1. PICK q \in Requests : q = call[d].request
  BY DEF InsertRequest, RecoveryInv, OwnerFirst
<1>2. /\ Inserting(d) /\ Move(d, "warn") /\ "warn" \in Stages /\ overtaken' = overtaken
      /\ \A p \in Requests \ {q} : requests'[p] = requests[p]
  BY <1>1 DEF InsertRequest, Inserting, Stages, Filing, RecoveryInv, TypeOK
<1>3. ~Inserting(d)' /\ \A e \in Devices \ {d} : Inserting(e)' = Inserting(e)
  BY <1>2, Moved DEF Inserting, At
<1>4. \A p \in Requests \ {q} : Pending(p)' = Pending(p)
  BY <1>2 DEF Pending
<1> QED
  BY <1>1, <1>2, <1>3, <1>4 DEF OnePending

\* A command that goes on, or ends, but does not file.
LEMMA CallPendingKept ==
  ASSUME RecoveryInv, OnePending, NEW d \in Devices,
         overtaken \subseteq overtaken',
         \A q \in Requests : Pending(q)' => Pending(q),
         End(d) \/ \E stage \in Stages \ {"insert"} : Move(d, stage)
  PROVE  OnePending'
<1>1. ~Inserting(d)' /\ \A e \in Devices \ {d} : Inserting(e)' = Inserting(e)
  <2>1. CASE End(d)
    BY <2>1, Ended, IdleFields DEF Inserting, At
  <2>2. ASSUME NEW stage \in Stages \ {"insert"}, Move(d, stage)
        PROVE  ~Inserting(d)' /\ \A e \in Devices \ {d} : Inserting(e)' = Inserting(e)
    BY <2>2, Moved DEF Inserting, At
  <2> QED
    BY <2>1, <2>2
<1> QED
  BY <1>1, PendingLeft

LEMMA PendingInit == Init => OnePending
  BY IdleFields DEF Init, OnePending, Inserting, At, Pending, Unfiled

LEMMA PendingSteps == RecoveryInv /\ RecoveryInv' /\ OnePending /\ [Next]_vars => OnePending'
<1> SUFFICES ASSUME RecoveryInv, RecoveryInv', OnePending, [Next]_vars PROVE OnePending'
  OBVIOUS
<1>1. ASSUME NEW d \in Devices, Ask(d) PROVE OnePending'
  <2>1. UNCHANGED <<requests, overtaken>>
    BY <1>1 DEF Ask, Start, RecoverWithKit, RecoverByWipe, Present, StartChange, StartLogin,
                StartRefresh, StartPush, serverVars
  <2>2. call \in [Devices -> Call]
    BY DEF RecoveryInv, TypeOK
  <2>3. /\ call'[d].stage # "insert"
        /\ \A e \in Devices \ {d} : call'[e] = call[e]
    BY <1>1, <2>2 DEF Ask, Start, RecoverWithKit, RecoverByWipe, Present, StartChange, StartLogin,
                      StartRefresh, StartPush, Idle
  <2> QED
    BY <2>1, <2>3, PendingLeft DEF Inserting, At, Pending
<1>2. ASSUME NEW d \in Devices, Serve(d) PROVE OnePending'
  <2>1. CASE Supersede(d)
    BY <2>1, SupersedePendingKept
  <2>2. CASE InsertRequest(d)
    BY <2>2, InsertPendingKept
  <2>3. CASE WarnOwner(d)
    BY <2>3, CallPendingKept DEF WarnOwner, Pending, Stages, Filing
  <2>4. CASE MailBackup(d)
    BY <2>4, CallPendingKept DEF MailBackup, Pending
  <2>5. CASE Admit(d) \/ CheckVerifier(d)
    <3>1. /\ UNCHANGED <<requests, overtaken>>
          /\ \A e \in Devices \ {d} : call'[e] = call[e]
          /\ call'[d].stage # "insert"
      BY <2>5 DEF Admit, CheckVerifier, serverVars, RecoveryInv, TypeOK, Call
    <3> QED
      BY <3>1, PendingLeft DEF Inserting, At, Pending
  <2>6. CASE CommitRecovery(d)
    <3>1. PICK q \in Requests : q = call[d].request
      BY <2>6 DEF CommitRecovery, At, RecoveryInv, OwnerFirst, Completing
    <3>2. \A p \in Requests : Pending(p)' => Pending(p)
      BY <2>6, <3>1 DEF CommitRecovery, Pending, RecoveryInv, TypeOK
    <3> QED
      BY <2>6, <3>2, CallPendingKept DEF CommitRecovery, Overtake, Stages
  <2>7. CASE CommitChange(d)
    BY <2>7, CallPendingKept DEF CommitChange, Overtake, Pending, Stages
  <2>8. CASE OpenSession(d) \/ RenewSession(d) \/ PushItem(d)
    BY <2>8, CallPendingKept DEF OpenSession, RenewSession, PushItem, Overtake, Pending
  <2> QED
    BY <1>2, <2>1, <2>2, <2>3, <2>4, <2>5, <2>6, <2>7, <2>8 DEF Serve
<1>3. ASSUME NEW d \in Devices, ShowKit(d) \/ Abandon(d) PROVE OnePending'
  BY <1>3, CallPendingKept DEF ShowKit, Abandon, serverVars, Pending
<1>4. ASSUME NEW q \in Requests, Cancel(q) PROVE OnePending'
  <2>1. \A p \in Requests : Pending(p)' => Pending(p)
    BY <1>4 DEF Cancel, Pending, RecoveryInv, TypeOK
  <2> QED
    BY <1>4, <2>1, PendingLeft DEF Cancel, Inserting, At
<1>5. CASE Tick \/ UNCHANGED vars
  BY <1>5, PendingLeft DEF Tick, vars, serverVars, Inserting, At, Pending
<1> QED
  BY <1>1, <1>2, <1>3, <1>4, <1>5 DEF Next

\* "A new request supersedes any pending one" (recovery.rs:40): the link that cancels
\* the last one leaves none, unless two were filed at once.
THEOREM RequestsSupersede == Spec => []OneRequestPending
<1>1. OnePending => OneRequestPending
  BY DEF OnePending, OneRequestPending
<1> QED
  BY <1>1, RecoveryInvariant, PendingInit, PendingSteps, PTL DEF Spec

-----------------------------------------------------------------------------
(* The handlers keep the promise of RecoveryPromise. *)

Statuses == [q \in Requests |-> Status(q)]
Readies == [q \in Requests |-> requests[q].usable_at]
OwnerTold == {q \in Requests : "owner" \in told[q]}
OwnerMissed == {q \in Requests : "owner" \notin told[q] /\ "nobody" \in told[q]}
Completes(d) == call[d].stage \in {"admitted", "verified"}
Admitted == {q \in Requests : \E d \in Devices : call[d].request = q /\ Completes(d)}
Proved == {d \in Devices : At(d, "confirmed")}

\* What the promise sees of a state.
LEMMA Seen ==
  /\ Promise!promiseVars = <<now, Statuses, Readies, OwnerTold, OwnerMissed, Admitted, Proved,
                              account>>
  /\ Promise!promiseVars' = <<now', Statuses', Readies', OwnerTold', OwnerMissed',
                               Admitted', Proved', account'>>
  BY DEF Promise!promiseVars, Statuses, Readies, OwnerTold, OwnerMissed, Admitted, Completes, Proved

LEMMA StatusCases ==
  ASSUME TypeOK, NEW q \in Requests
  PROVE  /\ requests[q].completed => Status(q) = "completed"
         /\ ~requests[q].completed /\ requests[q].cancelled => Status(q) = "withdrawn"
         /\ Pending(q) => Status(q) = "pending"
         /\ ~requests[q].completed /\ ~requests[q].cancelled /\ ~requests[q].filed =>
              Status(q) = "none"
  BY DEF TypeOK, Status, Pending

LEMMA RequestsSeen ==
  ASSUME UNCHANGED requests
  PROVE  Statuses' = Statuses /\ Readies' = Readies
  BY DEF Statuses, Readies, Status, Pending

\* A step that begins, and ends, no completion and no change of password.
LEMMA CallsSeen ==
  ASSUME \A d \in Devices :
           /\ Completes(d)' <=> Completes(d)
           /\ Completes(d) => call'[d].request = call[d].request
           /\ At(d, "confirmed")' <=> At(d, "confirmed")
  PROVE  Admitted' = Admitted /\ Proved' = Proved
  BY DEF Admitted, Proved

\* What the promise does not notice.
LEMMA Unnoticed ==
  ASSUME UNCHANGED <<now, requests, account>>, OwnerTold' = OwnerTold /\ OwnerMissed' = OwnerMissed,
         \A d \in Devices :
           /\ Completes(d)' <=> Completes(d)
           /\ Completes(d) => call'[d].request = call[d].request
           /\ At(d, "confirmed")' <=> At(d, "confirmed")
  PROVE  UNCHANGED Promise!promiseVars
BY RequestsSeen, CallsSeen, Seen

\* A command that goes from one of its other stages to another.
LEMMA QuietCall ==
  ASSUME RecoveryInv, NEW d \in Devices, NEW x \in Call, call' = [call EXCEPT ![d] = x],
         call[d].stage \notin {"admitted", "verified", "confirmed"},
         x.stage \notin {"admitted", "verified", "confirmed"}
  PROVE  \A e \in Devices :
           /\ Completes(e)' <=> Completes(e)
           /\ Completes(e) => call'[e].request = call[e].request
           /\ At(e, "confirmed")' <=> At(e, "confirmed")
<1>1. call'[d] = x /\ \A e \in Devices \ {d} : call'[e] = call[e]
  BY CallWritten DEF RecoveryInv
<1> QED
  BY <1>1 DEF Completes, At

LEMMA QuietMove ==
  ASSUME RecoveryInv, NEW d \in Devices, NEW stage \in Stages, Move(d, stage),
         call[d].stage \notin {"admitted", "verified", "confirmed"},
         stage \notin {"admitted", "verified", "confirmed"}
  PROVE  Admitted' = Admitted /\ Proved' = Proved
<1> DEFINE x == [call[d] EXCEPT !.stage = stage]
<1>1. x \in Call /\ x.stage = stage
  BY DEF RecoveryInv, TypeOK, Call
<1>2. call' = [call EXCEPT ![d] = x]
  BY DEF Move
<1> HIDE DEF x
<1> QED
  BY <1>1, <1>2, QuietCall, CallsSeen

LEMMA QuietEnd ==
  ASSUME RecoveryInv, NEW d \in Devices, End(d),
         call[d].stage \notin {"admitted", "verified", "confirmed"}
  PROVE  Admitted' = Admitted /\ Proved' = Proved
<1>1. call' = [call EXCEPT ![d] = Idle] /\ Idle \in Call
  BY IdleCall DEF End
<1>2. Idle.stage \notin {"admitted", "verified", "confirmed"}
  BY IdleFields
<1> QED
  BY <1>1, <1>2, QuietCall, CallsSeen

LEMMA AskKept ==
  ASSUME RecoveryInv, NEW d \in Devices, Ask(d)
  PROVE  Promise!PromiseNext \/ UNCHANGED Promise!promiseVars
<1>1. call' \in [Devices -> Call] /\ call \in [Devices -> Call]
  <2>1. RecoveryInv'
    BY StartInv, RecoverWithKitInv, RecoverByWipeInv, StartChangeInv, StartLoginInv,
       StartRefreshInv, StartPushInv DEF Ask
  <2> QED
    BY <2>1 DEF RecoveryInv, TypeOK
<1>2. UNCHANGED <<now, requests, told, account>>
  BY DEF Ask, Start, RecoverWithKit, RecoverByWipe, Present, StartChange, StartLogin, StartRefresh,
     StartPush, serverVars
<1>3. OwnerTold' = OwnerTold /\ OwnerMissed' = OwnerMissed
  BY <1>2 DEF OwnerTold, OwnerMissed
<1>4. At(d, "idle") /\ \A e \in Devices \ {d} : call'[e] = call[e]
  BY <1>1 DEF Ask, Start, RecoverWithKit, RecoverByWipe, Present, StartChange, StartLogin,
     StartRefresh, StartPush
<1>5. CASE StartChange(d)
  <2>1. call'[d].stage = "confirmed"
    BY <1>1, <1>5 DEF StartChange, Idle
  <2>2. Proved' = Proved \cup {d}
    BY <1>4, <2>1 DEF Proved, At
  <2>3. Admitted' = Admitted
    BY <1>4, <2>1 DEF Admitted, Completes, At
  <2>4. Statuses' = Statuses /\ Readies' = Readies
    BY <1>2, RequestsSeen
  <2>5. Promise!Prove(d)
    BY <1>2, <1>3, <2>2, <2>3, <2>4
       DEF Promise!Prove, Statuses, Readies, OwnerTold, OwnerMissed, Admitted, Completes, Proved
  <2> QED
    BY <2>5 DEF Promise!PromiseNext
<1>6. CASE ~StartChange(d)
  <2>1. call'[d].stage \notin {"admitted", "verified", "confirmed"}
    BY <1>1, <1>6 DEF Ask, Start, RecoverWithKit, RecoverByWipe, Present, StartLogin, StartRefresh,
       StartPush, Idle
  <2>2. \A e \in Devices :
          /\ Completes(e)' <=> Completes(e)
          /\ Completes(e) => call'[e].request = call[e].request
          /\ At(e, "confirmed")' <=> At(e, "confirmed")
    BY <1>4, <2>1 DEF Completes, At
  <2> QED
    BY <1>2, <1>3, <2>2, Unnoticed
<1> QED BY <1>5, <1>6

LEMMA SupersedeKept ==
  ASSUME RecoveryInv, NEW d \in Devices, Supersede(d)
  PROVE  Promise!PromiseNext
<1>1. /\ At(d, "supersede") /\ Move(d, "insert") /\ "insert" \in Stages
      /\ UNCHANGED <<now, told, account>>
      /\ requests' = [q \in Requests |->
           IF Pending(q) THEN [requests[q] EXCEPT !.cancelled = TRUE] ELSE requests[q]]
      /\ requests \in [Requests -> [filed : BOOLEAN, cancelled : BOOLEAN,
                                    completed : BOOLEAN, usable_at : Nat]]
  BY DEF Supersede, SupersedePending, Stages, Filing, RecoveryInv, TypeOK
<1>2. /\ Admitted' = Admitted /\ Proved' = Proved
      /\ OwnerTold' = OwnerTold /\ OwnerMissed' = OwnerMissed
  BY <1>1, QuietMove DEF At, OwnerTold, OwnerMissed
<1>3. Readies' = Readies
  BY <1>1 DEF Readies
<1>4. Statuses' = [q \in Requests |->
        IF q \in Requests /\ Statuses[q] = "pending" THEN "withdrawn" ELSE Statuses[q]]
  <2>1. ASSUME NEW q \in Requests
        PROVE  Status(q)' = IF Status(q) = "pending" THEN "withdrawn" ELSE Status(q)
    <3>1. CASE Pending(q)
      BY <1>1, <3>1 DEF Status, Pending
    <3>2. CASE ~Pending(q)
      <4>1. requests'[q] = requests[q]
        BY <1>1, <3>2
      <4>2. Status(q) # "pending" /\ Status(q)' = Status(q)
        BY <3>2, <4>1 DEF Status, Pending
      <4> QED BY <4>2
    <3> QED BY <3>1, <3>2
  <2> QED
    BY <2>1 DEF Statuses
<1>5. Promise!Withdraw(Requests)
  BY <1>1, <1>2, <1>3, <1>4
     DEF Promise!Withdraw, Statuses, Readies, OwnerTold, OwnerMissed, Admitted, Completes, Proved
<1> QED
  BY <1>5 DEF Promise!PromiseNext

LEMMA InsertRequestKept ==
  ASSUME RecoveryInv, NEW d \in Devices, InsertRequest(d)
  PROVE  Promise!PromiseNext
<1>0. PICK q \in Requests : q = call[d].request /\ requests[q] = Unfiled
  BY DEF InsertRequest, RecoveryInv, OwnerFirst, OwnerMailed
<1> DEFINE row == [Unfiled EXCEPT !.filed = TRUE, !.usable_at = call[d].since + Cooloff]
<1>1. /\ At(d, "insert") /\ Move(d, "warn") /\ "warn" \in Stages
      /\ UNCHANGED <<now, told, account>>
      /\ requests' = [requests EXCEPT ![q] = row]
      /\ requests \in [Requests -> [filed : BOOLEAN, cancelled : BOOLEAN,
                                    completed : BOOLEAN, usable_at : Nat]]
  BY <1>0 DEF InsertRequest, Stages, Filing, RecoveryInv, TypeOK
<1>2. row.filed /\ ~row.cancelled /\ ~row.completed /\ row.usable_at = call[d].since + Cooloff
  BY DEF Unfiled
<1> HIDE DEF row
<1>3. /\ Admitted' = Admitted /\ Proved' = Proved
      /\ OwnerTold' = OwnerTold /\ OwnerMissed' = OwnerMissed
  BY <1>1, QuietMove DEF At, OwnerTold, OwnerMissed
<1>4. call[d].since \in 0..now
  BY Numbers DEF RecoveryInv, OwnerFirst, OwnerMailed
<1>5. Readies' = [Readies EXCEPT ![q] = call[d].since + Cooloff]
  BY <1>0, <1>1, <1>2 DEF Readies
<1>6. Statuses[q] = "none" /\ Statuses' = [Statuses EXCEPT ![q] = "pending"]
  <2>1. Status(q) = "none"
    BY <1>0 DEF Status, Pending, Unfiled
  <2>2. Status(q)' = "pending"
    <3>1. requests'[q] = row
      BY <1>1
    <3> QED
      BY <1>2, <3>1 DEF Status, Pending
  <2>3. \A p \in Requests \ {q} : Status(p)' = Status(p)
    BY <1>1 DEF Status, Pending
  <2> QED
    BY <2>1, <2>2, <2>3 DEF Statuses
<1>7. Promise!File(q)
  BY <1>1, <1>3, <1>4, <1>5, <1>6
     DEF Promise!File, Statuses, Readies, OwnerTold, OwnerMissed, Admitted, Completes, Proved
<1> QED
  BY <1>7 DEF Promise!PromiseNext

LEMMA WarnOwnerKept ==
  ASSUME RecoveryInv, NEW d \in Devices, WarnOwner(d)
  PROVE  Promise!PromiseNext \/ UNCHANGED Promise!promiseVars
<1>0. PICK q \in Requests : q = call[d].request /\ requests[q].filed
  BY DEF WarnOwner, RecoveryInv, OwnerFirst
<1>1. /\ At(d, "warn") /\ Move(d, "mail") /\ "mail" \in Stages
      /\ UNCHANGED <<now, requests, account>>
      /\ told \in [Requests -> SUBSET (Mailboxes \cup {"nobody"})]
  BY <1>0 DEF WarnOwner, Mail, Stages, Filing, RecoveryInv, TypeOK
<1>2. PICK reader \in {"owner", "nobody"} : told' = [told EXCEPT ![q] = @ \cup {reader}]
  BY <1>0 DEF WarnOwner, Mail
<1>3. Admitted' = Admitted /\ Proved' = Proved
  BY <1>1, QuietMove DEF At
<1>4. Statuses' = Statuses /\ Readies' = Readies
  BY <1>1, RequestsSeen
<1>5. Statuses[q] # "none"
  BY <1>0, StatusCases DEF Statuses, RecoveryInv, Pending
<1>6. CASE reader = "owner"
  <2>1. OwnerTold' = OwnerTold \cup {q} /\ OwnerMissed' = OwnerMissed \ {q}
    BY <1>0, <1>1, <1>2, <1>6 DEF OwnerTold, OwnerMissed
  <2>2. Promise!Tell(q)
    BY <1>1, <1>3, <1>4, <1>5, <2>1
       DEF Promise!Tell, Statuses, Readies, OwnerTold, OwnerMissed, Admitted, Completes, Proved
  <2> QED
    BY <2>2 DEF Promise!PromiseNext
<1>7. CASE reader = "nobody" /\ q \notin OwnerTold
  <2>1. OwnerTold' = OwnerTold /\ OwnerMissed' = OwnerMissed \cup {q}
    BY <1>0, <1>1, <1>2, <1>7 DEF OwnerTold, OwnerMissed
  <2>2. Promise!Miss(q)
    BY <1>1, <1>3, <1>4, <1>5, <1>7, <2>1
       DEF Promise!Miss, Statuses, Readies, OwnerTold, OwnerMissed, Admitted, Completes, Proved
  <2> QED
    BY <2>2 DEF Promise!PromiseNext
<1>8. CASE reader = "nobody" /\ q \in OwnerTold
  <2>1. OwnerTold' = OwnerTold /\ OwnerMissed' = OwnerMissed
    BY <1>0, <1>1, <1>2, <1>8 DEF OwnerTold, OwnerMissed
  <2> QED
    BY <1>1, <1>3, <1>4, <2>1, Seen
<1> QED
  BY <1>6, <1>7, <1>8

LEMMA MailBackupKept ==
  ASSUME RecoveryInv, NEW d \in Devices, MailBackup(d)
  PROVE  UNCHANGED Promise!promiseVars
<1>1. At(d, "mail") /\ End(d) /\ UNCHANGED <<now, requests, account>>
  BY DEF MailBackup
<1>2. Admitted' = Admitted /\ Proved' = Proved
  BY <1>1, QuietEnd DEF At
<1>3. OwnerTold' = OwnerTold /\ OwnerMissed' = OwnerMissed
  <2>1. ASSUME NEW q \in Requests
        PROVE  /\ "owner" \in told'[q] <=> "owner" \in told[q]
               /\ "nobody" \in told'[q] <=> "nobody" \in told[q]
    BY DEF MailBackup, Mail, RecoveryInv, TypeOK
  <2> QED
    BY <2>1 DEF OwnerTold, OwnerMissed
<1> QED
  BY <1>1, <1>2, <1>3, RequestsSeen, Seen

LEMMA CancelKept ==
  ASSUME RecoveryInv, NEW q \in Requests, Cancel(q)
  PROVE  Promise!PromiseNext
<1>1. /\ Pending(q)
      /\ UNCHANGED <<now, told, account, call>>
      /\ requests' = [requests EXCEPT ![q].cancelled = TRUE]
      /\ requests \in [Requests -> [filed : BOOLEAN, cancelled : BOOLEAN,
                                    completed : BOOLEAN, usable_at : Nat]]
  BY DEF Cancel, RecoveryInv, TypeOK
<1>2. /\ Admitted' = Admitted /\ Proved' = Proved
      /\ OwnerTold' = OwnerTold /\ OwnerMissed' = OwnerMissed
  BY <1>1 DEF Admitted, Completes, Proved, At, OwnerTold, OwnerMissed
<1>3. Readies' = Readies
  BY <1>1 DEF Readies
<1>4. Statuses' = [p \in Requests |->
        IF p \in {q} /\ Statuses[p] = "pending" THEN "withdrawn" ELSE Statuses[p]]
  <2>1. Status(q) = "pending" /\ Status(q)' = "withdrawn"
    BY <1>1 DEF Status, Pending
  <2>2. \A p \in Requests \ {q} : Status(p)' = Status(p)
    BY <1>1 DEF Status, Pending
  <2> QED
    BY <2>1, <2>2 DEF Statuses
<1>5. Promise!Withdraw({q})
  BY <1>1, <1>2, <1>3, <1>4
     DEF Promise!Withdraw, Statuses, Readies, OwnerTold, OwnerMissed, Admitted, Completes, Proved
<1> QED
  BY <1>5 DEF Promise!PromiseNext

\* A step of d, after which its own command is no longer what it was.
LEMMA AdmittedBy ==
  ASSUME RecoveryInv, NEW d \in Devices,
         \A e \in Devices \ {d} : call'[e] = call[e],
         ~Completes(d)'
  PROVE  /\ Admitted' \subseteq Admitted
         /\ Admitted \ {call[d].request} \subseteq Admitted'
         /\ ~Completes(d) => Admitted' = Admitted
  BY DEF Admitted, Completes

LEMMA ProvedBy ==
  ASSUME NEW d \in Devices,
         \A e \in Devices \ {d} : call'[e] = call[e],
         ~At(d, "confirmed")'
  PROVE  Proved' = Proved \ {d}
  BY DEF Proved, At

LEMMA AdmitKept ==
  ASSUME RecoveryInv, NEW d \in Devices, Admit(d)
  PROVE  Promise!PromiseNext
<1>0. PICK q \in Requests : q = call[d].request /\ told[q] # {}
  BY DEF Admit, At, RecoveryInv, OwnerFirst, OwnerMailed, Completing
<1>1. /\ At(d, "fetched")
      /\ call' = [call EXCEPT ![d].stage = IF call[d].keep THEN "admitted" ELSE "verified",
                              ![d].era = Era]
      /\ UNCHANGED <<now, requests, told, account>>
      /\ call \in [Devices -> Call]
  BY DEF Admit, serverVars, RecoveryInv, TypeOK
<1>2. /\ call'[d].stage \in {"admitted", "verified"} /\ call'[d].request = q
      /\ \A e \in Devices \ {d} : call'[e] = call[e]
  BY <1>0, <1>1 DEF Call
<1>3. Admitted' = Admitted \cup {q}
  BY <1>1, <1>2 DEF Admitted, Completes, At
<1>4. Proved' = Proved
  BY <1>1, <1>2 DEF Proved, At
<1>5. /\ Statuses' = Statuses /\ Readies' = Readies
      /\ OwnerTold' = OwnerTold /\ OwnerMissed' = OwnerMissed
  BY <1>1, RequestsSeen DEF OwnerTold, OwnerMissed
<1>6. q \in OwnerTold \cup OwnerMissed /\ Statuses[q] = "pending"
  <2>1. Pending(q) /\ OwnerMailed(q)
    BY <1>0 DEF Admit, FindActive, RecoveryInv, OwnerFirst, OwnerMailed
  <2> QED
    BY <2>1, StatusCases DEF OwnerMailed, OwnerTold, OwnerMissed, Statuses, RecoveryInv
<1>7. Readies[q] <= now /\ now < Readies[q] + Window
  BY <1>0 DEF Admit, FindActive, CooledOff, Readies
<1>8. Promise!Admit(q)
  BY <1>1, <1>3, <1>4, <1>5, <1>6, <1>7
     DEF Promise!Admit, Statuses, Readies, OwnerTold, OwnerMissed, Admitted, Completes, Proved
<1> QED
  BY <1>8 DEF Promise!PromiseNext

LEMMA CheckVerifierKept ==
  ASSUME RecoveryInv, NEW d \in Devices, CheckVerifier(d)
  PROVE  UNCHANGED Promise!promiseVars
<1>1. /\ At(d, "admitted")
      /\ call' = [call EXCEPT ![d].stage = "verified", ![d].era = Era]
      /\ UNCHANGED <<now, requests, told, account>>
      /\ call \in [Devices -> Call]
  BY DEF CheckVerifier, serverVars, RecoveryInv, TypeOK
<1>2. /\ call'[d].stage = "verified" /\ call'[d].request = call[d].request
      /\ \A e \in Devices \ {d} : call'[e] = call[e]
  BY <1>1 DEF Call
<1>3. \A e \in Devices :
        /\ Completes(e)' <=> Completes(e)
        /\ Completes(e) => call'[e].request = call[e].request
        /\ At(e, "confirmed")' <=> At(e, "confirmed")
  BY <1>1, <1>2 DEF Completes, At
<1>4. OwnerTold' = OwnerTold /\ OwnerMissed' = OwnerMissed
  BY <1>1 DEF OwnerTold, OwnerMissed
<1> QED
  BY <1>1, <1>3, <1>4, Unnoticed

LEMMA CommitRecoveryKept ==
  ASSUME RecoveryInv, NEW d \in Devices, CommitRecovery(d)
  PROVE  Promise!PromiseNext
<1>0. PICK q \in Requests : q = call[d].request
  BY DEF CommitRecovery, At, RecoveryInv, OwnerFirst, OwnerMailed, Completing
<1>1. /\ At(d, "verified") /\ Move(d, "answer") /\ "answer" \in Stages
      /\ UNCHANGED <<now, told>>
      /\ requests' = [requests EXCEPT ![q].completed = TRUE]
      /\ requests \in [Requests -> [filed : BOOLEAN, cancelled : BOOLEAN,
                                    completed : BOOLEAN, usable_at : Nat]]
  BY <1>0 DEF CommitRecovery, Stages, RecoveryInv, TypeOK
<1>2. call'[d].stage = "answer" /\ \A e \in Devices \ {d} : call'[e] = call[e]
  BY <1>1, Moved
<1>3. q \in Admitted /\ Admitted' \in {Admitted, Admitted \ {q}}
  <2>1. q \in Admitted
    BY <1>0, <1>1 DEF Admitted, Completes, At
  <2>2. /\ Admitted' \subseteq Admitted
        /\ Admitted \ {q} \subseteq Admitted'
    BY <1>0, <1>2, AdmittedBy DEF Completes
  <2> QED
    BY <2>1, <2>2
<1>4. Proved' = Proved
  BY <1>1, <1>2, ProvedBy DEF At, Proved
<1>5. OwnerTold' = OwnerTold /\ OwnerMissed' = OwnerMissed /\ Readies' = Readies
  BY <1>1 DEF OwnerTold, OwnerMissed, Readies
<1>6. Statuses' = [Statuses EXCEPT ![q] = "completed"]
  <2>1. Status(q)' = "completed"
    <3>1. requests'[q].completed
      BY <1>1
    <3> QED
      BY <3>1 DEF Status, Pending
  <2>2. \A p \in Requests \ {q} : Status(p)' = Status(p)
    BY <1>1 DEF Status, Pending
  <2> QED
    BY <2>1, <2>2 DEF Statuses
<1>7. Promise!Complete(q)
  BY <1>1, <1>3, <1>4, <1>5, <1>6
     DEF Promise!Complete, Statuses, Readies, OwnerTold, OwnerMissed, Admitted, Completes, Proved
<1> QED
  BY <1>7 DEF Promise!PromiseNext

LEMMA CommitChangeKept ==
  ASSUME RecoveryInv, NEW d \in Devices, CommitChange(d)
  PROVE  Promise!PromiseNext
<1>1. /\ At(d, "confirmed") /\ Move(d, "answer") /\ "answer" \in Stages
      /\ UNCHANGED <<now, requests, told>>
  BY DEF CommitChange, Stages
<1>2. call'[d].stage = "answer" /\ \A e \in Devices \ {d} : call'[e] = call[e]
  BY <1>1, Moved
<1>3. Admitted' = Admitted
  BY <1>1, <1>2, AdmittedBy DEF Completes, At
<1>4. d \in Proved /\ Proved' = Proved \ {d}
  BY <1>1, <1>2, ProvedBy DEF Proved, At
<1>5. /\ Statuses' = Statuses /\ Readies' = Readies
      /\ OwnerTold' = OwnerTold /\ OwnerMissed' = OwnerMissed
  BY <1>1, RequestsSeen DEF OwnerTold, OwnerMissed
<1>6. Promise!Rekey(d)
  BY <1>1, <1>3, <1>4, <1>5
     DEF Promise!Rekey, Statuses, Readies, OwnerTold, OwnerMissed, Admitted, Completes, Proved
<1> QED
  BY <1>6 DEF Promise!PromiseNext

LEMMA AbandonKept ==
  ASSUME RecoveryInv, NEW d \in Devices, Abandon(d)
  PROVE  Promise!PromiseNext
<1>1. End(d) /\ UNCHANGED <<now, requests, told, account>>
  BY DEF Abandon, serverVars
<1>2. call'[d].stage = "idle" /\ \A e \in Devices \ {d} : call'[e] = call[e]
  BY <1>1, Ended, IdleFields
<1>3. Admitted' \subseteq Admitted /\ Proved' \subseteq Proved
  BY <1>2, AdmittedBy, ProvedBy DEF Completes, At
<1>4. /\ Statuses' = Statuses /\ Readies' = Readies
      /\ OwnerTold' = OwnerTold /\ OwnerMissed' = OwnerMissed
  BY <1>1, RequestsSeen DEF OwnerTold, OwnerMissed
<1>5. Promise!GiveUp
  BY <1>1, <1>3, <1>4
     DEF Promise!GiveUp, Statuses, Readies, OwnerTold, OwnerMissed, Admitted, Completes, Proved
<1> QED
  BY <1>5 DEF Promise!PromiseNext

\* The end of a command of which the promise knows nothing.
LEMMA EndKept ==
  ASSUME RecoveryInv, NEW d \in Devices,
         ShowKit(d) \/ OpenSession(d) \/ RenewSession(d) \/ PushItem(d)
  PROVE  UNCHANGED Promise!promiseVars
<1>1. /\ call[d].stage \in {"answer", "login", "refresh", "push"} /\ End(d)
      /\ UNCHANGED <<now, requests, told, account>>
  BY DEF ShowKit, OpenSession, RenewSession, PushItem, At, serverVars
<1>2. Admitted' = Admitted /\ Proved' = Proved
  BY <1>1, QuietEnd
<1>3. OwnerTold' = OwnerTold /\ OwnerMissed' = OwnerMissed
  BY <1>1 DEF OwnerTold, OwnerMissed
<1> QED
  BY <1>1, <1>2, <1>3, RequestsSeen, Seen

LEMMA TickKept ==
  ASSUME Tick
  PROVE  Promise!PromiseNext
<1>1. now' = now + 1 /\ UNCHANGED <<requests, told, account, call>>
  BY DEF Tick, serverVars
<1>2. /\ Statuses' = Statuses /\ Readies' = Readies
      /\ OwnerTold' = OwnerTold /\ OwnerMissed' = OwnerMissed
      /\ Admitted' = Admitted /\ Proved' = Proved
  BY <1>1, RequestsSeen DEF OwnerTold, OwnerMissed, Admitted, Proved, Completes, At
<1>3. Promise!Pass
  BY <1>1, <1>2
     DEF Promise!Pass, Statuses, Readies, OwnerTold, OwnerMissed, Admitted, Completes, Proved
<1> QED
  BY <1>3 DEF Promise!PromiseNext

LEMMA StutterKept ==
  ASSUME UNCHANGED vars
  PROVE  UNCHANGED Promise!promiseVars
<1>1. UNCHANGED <<now, requests, told, account, call>>
  BY DEF vars
<1> QED
  BY <1>1, RequestsSeen, Seen DEF OwnerTold, OwnerMissed, Admitted, Proved, Completes, At

\* Only a request that the owner was written to about, that has cooled off, that was
\* neither withdrawn nor too old when its completion began, or the owner of the
\* password, ever changes the keys of the account (recovery.rs:3, 153-173, 261-282,
\* 433-463), whatever number of devices and requests there are.  The mail to the owner
\* may have been lost, and what is withdrawn later is completed all the same.
THEOREM PromiseKept == Spec => RecoveryKeepsPromise
<1>1. Init => Promise!PromiseInit
  <2> SUFFICES ASSUME Init PROVE Promise!PromiseInit
    OBVIOUS
  <2>1. \A q \in Requests : Status(q) = "none" /\ told[q] = {}
    BY DEF Init, Status, Pending, Unfiled
  <2>2. \A d \in Devices : call[d].stage = "idle"
    BY IdleFields DEF Init
  <2> QED
    BY <2>1, <2>2 DEF Promise!PromiseInit, Init, At
<1>2. RecoveryInv /\ [Next]_vars => [Promise!PromiseNext]_(Promise!promiseVars)
  <2> SUFFICES ASSUME RecoveryInv, [Next]_vars
               PROVE  Promise!PromiseNext \/ UNCHANGED Promise!promiseVars
    OBVIOUS
  <2>1. ASSUME NEW d \in Devices, Ask(d)
        PROVE  Promise!PromiseNext \/ UNCHANGED Promise!promiseVars
    BY <2>1, AskKept
  <2>2. ASSUME NEW d \in Devices, Serve(d)
        PROVE  Promise!PromiseNext \/ UNCHANGED Promise!promiseVars
    BY <2>2, SupersedeKept, InsertRequestKept, WarnOwnerKept, MailBackupKept, AdmitKept,
       CheckVerifierKept, CommitRecoveryKept, CommitChangeKept, EndKept DEF Serve
  <2>3. ASSUME NEW d \in Devices, ShowKit(d) \/ Abandon(d)
        PROVE  Promise!PromiseNext \/ UNCHANGED Promise!promiseVars
    BY <2>3, EndKept, AbandonKept
  <2>4. ASSUME NEW q \in Requests, Cancel(q)
        PROVE  Promise!PromiseNext
    BY <2>4, CancelKept
  <2>5. CASE Tick
    BY <2>5, TickKept
  <2>6. CASE UNCHANGED vars
    BY <2>6, StutterKept
  <2> QED
    BY <2>1, <2>2, <2>3, <2>4, <2>5, <2>6 DEF Next
<1> QED
  BY <1>1, <1>2, RecoveryInvariant, PTL DEF Spec, RecoveryKeepsPromise, Promise!PromiseSpec
=============================================================================

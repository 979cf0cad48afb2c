---------------------------- MODULE SessionsProofs ----------------------------
(***************************************************************************)
(* Theorems about the session rows of the server (Sessions): the lifetime  *)
(* of a login is capped, a renewed token is spent, a revoked family stays  *)
(* without a working token; and about devices (SessionClient): the server  *)
(* shows them no other behaviour, and accuses none of them wrongly.        *)
(***************************************************************************)
EXTENDS SessionClient, TLAPS

(* The inductive invariant. *)

\* A row has a number given out, and a family that has been opened.
RowsKnown ==
  \A t \in Tokens : Exists(t) => t \in Issued /\ sessions[t].family \in Issued

\* So has the token that a rotation works for.
RotationsKnown ==
  \A r \in Requests :
    At(r, "retire") \/ At(r, "renew") =>
      request[r].token \in Issued /\ request[r].family \in Issued

\* The ceiling of the login goes from row to row.
CeilingsKept ==
  /\ \A t \in Tokens :
       Exists(t) =>
         sessions[t].absolute_expires_at = opened[sessions[t].family] + AbsoluteTTL
  /\ \A r \in Requests :
       At(r, "retire") \/ At(r, "renew") =>
         request[r].cap = opened[request[r].family] + AbsoluteTTL

\* The row of a successor under way is retired already.
RetiredFirst ==
  \A r \in Requests : At(r, "renew") => sessions[request[r].token].revoked

SessionInv ==
  /\ TypeOK
  /\ RowsKnown
  /\ RotationsKnown
  /\ CeilingsKept
  /\ RetiredFirst
  /\ RenewedRetired
  /\ RevocationSticks

-----------------------------------------------------------------------------
(* Facts about rows and requests. *)

RequestRecord ==
  [stage : Stages, token : 0..MaxTokens, family : 0..MaxTokens, since : Nat,
   cap : Nat]

\* A rotation may go on: its tokens are known, its ceiling is that of its
\* family, and its family has not been revoked before it began.
MayRotate(x) ==
  x.stage \in {"retire", "renew"} =>
    /\ x.token \in Issued
    /\ x.family \in Issued \ ended'
    /\ x.cap = opened[x.family] + AbsoluteTTL
    /\ x.stage = "renew" => sessions'[x.token].revoked

\* Rows are only revoked or deleted.
RowsWane ==
  /\ sessions' \in [Tokens -> Session \cup {NoSession}]
  /\ \A t \in Tokens :
       \/ sessions'[t] = NoSession
       \/ /\ sessions[t] # NoSession
          /\ sessions'[t].family = sessions[t].family
          /\ sessions'[t].absolute_expires_at = sessions[t].absolute_expires_at
          /\ sessions[t].revoked => sessions'[t].revoked

LEMMA RowFields ==
  ASSUME NEW row \in Session \cup {NoSession}
  PROVE  /\ row.family \in 0..MaxTokens
         /\ row.revoked \in BOOLEAN
         /\ row.access_expires_at \in Nat
         /\ row.refresh_expires_at \in Nat
         /\ row.absolute_expires_at \in Nat
         /\ row # NoSession => row.family \in Tokens
         /\ row = NoSession => row.family = 0 /\ row.revoked
<1>1. ASSUME row \in Session
      PROVE  row.family \in Tokens /\ row # NoSession
  BY <1>1, SessionsAssumption DEF Session, Tokens, NoSession
<1>2. CASE row \in Session
  BY <1>1, <1>2, SessionsAssumption DEF Session, Tokens
<1>3. CASE row = NoSession
  BY <1>3, SessionsAssumption DEF NoSession
<1> QED
  BY <1>2, <1>3

LEMMA IdleRecord == Idle \in RequestRecord
  BY SessionsAssumption DEF Idle, RequestRecord, Stages

LEMMA AnsweredRecord ==
  ASSUME NEW x \in RequestRecord, NEW t \in 0..MaxTokens
  PROVE  /\ [x EXCEPT !.stage = "done", !.token = t] \in RequestRecord
         /\ [x EXCEPT !.stage = "done", !.token = t].stage = "done"
  BY DEF RequestRecord, Stages

LEMMA MovedRecord ==
  ASSUME NEW x \in RequestRecord, NEW stage \in Stages
  PROVE  /\ [x EXCEPT !.stage = stage] \in RequestRecord
         /\ [x EXCEPT !.stage = stage].stage = stage
         /\ [x EXCEPT !.stage = stage].token = x.token
         /\ [x EXCEPT !.stage = stage].family = x.family
         /\ [x EXCEPT !.stage = stage].cap = x.cap
  BY DEF RequestRecord

LEMMA AdmittedRecord ==
  ASSUME NEW stage \in Stages, NEW t \in 0..MaxTokens, NEW f \in 0..MaxTokens
  PROVE  /\ [Idle EXCEPT !.stage = stage, !.token = t, !.family = f] \in RequestRecord
         /\ [Idle EXCEPT !.stage = stage, !.token = t, !.family = f].stage = stage
  BY IdleRecord DEF RequestRecord

LEMMA RevokeEffect ==
  ASSUME TypeOK, NEW set, Revoke(set)
  PROVE  /\ RowsWane
         /\ \A t \in Tokens : t \in set => sessions'[t].revoked
<1> DEFINE Rows == Session \cup {NoSession}
<1>1. sessions \in [Tokens -> Rows]
  BY DEF TypeOK
<1>2. ASSUME NEW t \in Tokens
      PROVE  /\ sessions'[t] \in Rows
             /\ \/ sessions'[t] = NoSession
                \/ /\ sessions[t] # NoSession
                   /\ sessions'[t].family = sessions[t].family
                   /\ sessions'[t].absolute_expires_at
                        = sessions[t].absolute_expires_at
                   /\ sessions[t].revoked => sessions'[t].revoked
             /\ t \in set => sessions'[t].revoked
  <2>1. CASE t \in set /\ sessions[t] # NoSession
    <3>1. sessions'[t] = [sessions[t] EXCEPT !.revoked = TRUE]
      BY <2>1 DEF Revoke, Exists
    <3>2. sessions[t] \in Session
      BY <1>1, <2>1
    <3> QED
      BY <2>1, <3>1, <3>2 DEF Session
  <2>2. CASE ~(t \in set /\ sessions[t] # NoSession)
    <3>1. sessions'[t] = sessions[t]
      BY <2>2 DEF Revoke, Exists
    <3>2. sessions[t] = NoSession => sessions[t].revoked
      BY DEF NoSession
    <3> QED
      BY <1>1, <2>2, <3>1, <3>2
  <2> QED
    BY <2>1, <2>2
<1>3. sessions' \in [Tokens -> Rows]
  <2>1. sessions' = [t \in Tokens |-> sessions'[t]]
    BY DEF Revoke
  <2> QED
    BY <1>2, <2>1
<1> QED
  BY <1>2, <1>3 DEF RowsWane

\* A step that inserts no row keeps the invariant when the requests it moves may
\* go where it moves them, and the families it ends have no row and no rotation
\* left.
LEMMA NoInsertion ==
  ASSUME SessionInv, RowsWane, UNCHANGED <<issued, opened, renewed>>,
         now' \in Nat, ended' \subseteq Issued,
         request' \in [Requests -> RequestRecord],
         \A q \in Requests : request'[q] = request[q] \/ MayRotate(request'[q]),
         \A f \in ended' \ ended :
           /\ ~Rotating(f)
           /\ \A t \in Tokens : sessions[t].family = f => sessions'[t].revoked
  PROVE  SessionInv'
<1> USE DEF SessionInv
<1>0. /\ sessions \in [Tokens -> Session \cup {NoSession}]
      /\ sessions' \in [Tokens -> Session \cup {NoSession}]
      /\ request \in [Requests -> RequestRecord]
      /\ issued \in 0..MaxTokens
      /\ Issued \subseteq Tokens
  BY SessionsAssumption DEF TypeOK, RowsWane, RequestRecord, Issued, Tokens
<1>1. TypeOK'
  BY <1>0 DEF TypeOK, RequestRecord, Issued
<1>2. \A t \in Tokens : sessions[t].revoked => sessions'[t].revoked
  BY DEF RowsWane, NoSession
<1>3. \A t \in Tokens :
        sessions'[t] # NoSession =>
          /\ sessions[t] # NoSession
          /\ sessions'[t].family = sessions[t].family
          /\ sessions'[t].absolute_expires_at = sessions[t].absolute_expires_at
  BY DEF RowsWane
<1>4. RowsKnown'
  BY <1>3 DEF RowsKnown, Exists, Issued
<1>5. RenewedRetired'
  BY <1>0, <1>2 DEF RenewedRetired, TypeOK
<1>6. ASSUME NEW q \in Requests, request'[q].stage \in {"retire", "renew"}
      PROVE  /\ request'[q].token \in Issued
             /\ request'[q].family \in Issued \ ended'
             /\ request'[q].cap = opened[request'[q].family] + AbsoluteTTL
             /\ request'[q].stage = "renew" => sessions'[request'[q].token].revoked
  <2>1. CASE MayRotate(request'[q])
    BY <1>6, <2>1 DEF MayRotate
  <2>2. CASE request'[q] = request[q]
    <3>1. At(q, "retire") \/ At(q, "renew")
      BY <1>6, <2>2 DEF At
    <3>2. request[q].token \in Issued /\ request[q].family \in Issued
      BY <3>1 DEF RotationsKnown
    <3>3. Rotating(request[q].family)
      BY <3>1 DEF Rotating
    <3>4. request[q].family \notin ended'
      BY <3>3 DEF RevocationSticks, Dead
    <3>5. request[q].stage = "renew" => sessions'[request[q].token].revoked
      BY <1>0, <1>2, <3>2 DEF RetiredFirst, At
    <3> QED
      BY <2>2, <3>1, <3>2, <3>4, <3>5 DEF CeilingsKept
  <2> QED
    BY <2>1, <2>2
<1>7. RotationsKnown'
  BY <1>6 DEF RotationsKnown, At, Issued
<1>8. CeilingsKept'
  <2>1. ASSUME NEW t \in Tokens, sessions'[t] # NoSession
        PROVE  sessions'[t].absolute_expires_at
                 = opened[sessions'[t].family] + AbsoluteTTL
    BY <1>3, <2>1 DEF CeilingsKept, Exists
  <2> QED
    BY <1>6, <2>1 DEF CeilingsKept, Exists, At
<1>9. RetiredFirst'
  BY <1>6 DEF RetiredFirst, At
<1>10. ASSUME NEW f \in ended'
       PROVE  Dead(f)'
  <2>1. ~Rotating(f)'
    BY <1>6 DEF Rotating, At
  <2>2. ASSUME NEW t \in Tokens, sessions'[t].family = f
        PROVE  sessions'[t].revoked
    <3>1. sessions'[t] # NoSession
      <4>1. f # 0
        BY <1>0 DEF Issued
      <4> QED
        BY <2>2, <4>1 DEF NoSession
    <3>2. sessions[t].family = f
      BY <1>3, <2>2, <3>1
    <3>3. CASE f \in ended
      BY <1>2, <3>2, <3>3 DEF RevocationSticks, Dead, Active
    <3>4. CASE f \notin ended
      BY <3>2, <3>4
    <3> QED
      BY <3>3, <3>4
  <2> QED
    BY <2>1, <2>2 DEF Dead, Active
<1>11. RevocationSticks'
  BY <1>10 DEF RevocationSticks
<1> QED
  BY <1>1, <1>4, <1>5, <1>7, <1>8, <1>9, <1>11

-----------------------------------------------------------------------------
(* A new row. *)

LEMMA InsertEffect ==
  ASSUME SessionInv, NEW f \in Nat, NEW since \in Nat, NEW cap \in Nat,
         Insert(f, since, cap), f \in 1..(issued + 1)
  PROVE  /\ issued' = issued + 1
         /\ issued + 1 \in Tokens
         /\ sessions' \in [Tokens -> Session \cup {NoSession}]
         /\ \A t \in Tokens : t # issued + 1 => sessions'[t] = sessions[t]
         /\ sessions'[issued + 1].family = f
         /\ sessions'[issued + 1].absolute_expires_at = cap
         /\ ~sessions'[issued + 1].revoked
<1> DEFINE n == issued + 1
           row == [family |-> f, revoked |-> FALSE,
                   access_expires_at |-> since + AccessTTL,
                   refresh_expires_at |-> since + RefreshTTL,
                   absolute_expires_at |-> cap]
<1>1. issued \in 0..MaxTokens /\ sessions \in [Tokens -> Session \cup {NoSession}]
  BY DEF SessionInv, TypeOK
<1>2. issued < MaxTokens /\ issued' = n /\ sessions' = [sessions EXCEPT ![n] = row]
  BY DEF Insert
<1>3. n \in Tokens /\ f \in Tokens
  BY <1>1, <1>2, SessionsAssumption DEF Tokens
<1>4. row \in Session
  BY <1>3, SessionsAssumption DEF Session
<1>5. sessions'[n] = row /\ \A t \in Tokens : t # n => sessions'[t] = sessions[t]
  BY <1>1, <1>2, <1>3
<1> QED
  BY <1>1, <1>2, <1>3, <1>4, <1>5

\* A step that inserts a row keeps the invariant when the row's family may have
\* one more row.
LEMMA Insertion ==
  ASSUME SessionInv,
         NEW r \in Requests, NEW f \in Nat, NEW since \in Nat, NEW cap \in Nat,
         Insert(f, since, cap), f \in 1..(issued + 1), f \notin ended,
         UNCHANGED <<now, ended>>,
         opened' \in [Tokens -> Nat],
         \A g \in Issued : opened'[g] = opened[g],
         cap = opened'[f] + AbsoluteTTL,
         renewed' \subseteq Issued,
         \A t \in renewed' : sessions[t].revoked,
         request' = [request EXCEPT
           ![r] = [Idle EXCEPT !.stage = "done", !.token = issued + 1]]
  PROVE  SessionInv'
<1> DEFINE n == issued + 1
<1>1. /\ sessions \in [Tokens -> Session \cup {NoSession}]
      /\ issued \in 0..MaxTokens
      /\ request \in [Requests -> RequestRecord]
      /\ ended \subseteq Issued
  BY DEF SessionInv, TypeOK, RequestRecord
<1>2. /\ issued' = n
      /\ n \in Tokens
      /\ sessions' \in [Tokens -> Session \cup {NoSession}]
      /\ \A t \in Tokens : t # n => sessions'[t] = sessions[t]
      /\ sessions'[n].family = f
      /\ sessions'[n].absolute_expires_at = cap
      /\ ~sessions'[n].revoked
  BY InsertEffect
<1>3. n \in Nat /\ Issued' = Issued \cup {n} /\ n \notin Issued /\ Issued \subseteq Tokens
  BY <1>1, <1>2, SessionsAssumption DEF Issued, Tokens
<1>4. /\ \A q \in Requests : q # r => request'[q] = request[q]
      /\ request'[r].stage = "done"
      /\ request' \in [Requests -> RequestRecord]
  <2>1. [Idle EXCEPT !.stage = "done", !.token = n] \in RequestRecord
    <3>1. n \in 0..MaxTokens
      BY <1>2, SessionsAssumption DEF Tokens
    <3> QED
      BY <3>1, IdleRecord, AnsweredRecord
  <2> QED
    BY <1>1, <2>1 DEF Idle
<1>5. f \in Issued'
  BY <1>2, <1>3 DEF Issued
<1>6. TypeOK'
  <2>1. issued' \in 0..MaxTokens
    BY <1>2, SessionsAssumption DEF Tokens
  <2>2. renewed' \subseteq Issued' /\ ended' \subseteq Issued'
    BY <1>1, <1>3
  <2>3. now' \in Nat
    BY DEF SessionInv, TypeOK
  <2> QED
    BY <1>2, <1>4, <2>1, <2>2, <2>3 DEF TypeOK, RequestRecord
<1>7. RowsKnown'
  <2>1. ASSUME NEW t \in Tokens, sessions'[t] # NoSession
        PROVE  t \in Issued' /\ sessions'[t].family \in Issued'
    BY <1>2, <1>3, <1>5, <2>1 DEF SessionInv, RowsKnown, Exists
  <2> QED
    BY <2>1 DEF RowsKnown, Exists
<1>8. ASSUME NEW q \in Requests, request'[q].stage \in {"retire", "renew"}
      PROVE  /\ q # r
             /\ request'[q] = request[q]
             /\ request[q].token \in Issued
             /\ request[q].family \in Issued
             /\ request[q].cap = opened[request[q].family] + AbsoluteTTL
             /\ request[q].stage = "renew" => sessions[request[q].token].revoked
  BY <1>4, <1>8 DEF SessionInv, RotationsKnown, CeilingsKept, RetiredFirst, At
<1>9. RotationsKnown'
  BY <1>3, <1>8 DEF RotationsKnown, At
<1>10. CeilingsKept'
  <2>1. ASSUME NEW t \in Tokens, sessions'[t] # NoSession
        PROVE  sessions'[t].absolute_expires_at
                 = opened'[sessions'[t].family] + AbsoluteTTL
    <3>1. CASE t = n
      BY <1>2, <3>1
    <3>2. CASE t # n
      <4>1. /\ sessions'[t] = sessions[t]
            /\ sessions[t].family \in Issued
            /\ sessions[t].absolute_expires_at
                 = opened[sessions[t].family] + AbsoluteTTL
        BY <1>2, <2>1, <3>2 DEF SessionInv, RowsKnown, CeilingsKept, Exists
      <4> QED
        BY <4>1
    <3> QED
      BY <3>1, <3>2
  <2>2. \A q \in Requests :
          request'[q].stage \in {"retire", "renew"} =>
            request'[q].cap = opened'[request'[q].family] + AbsoluteTTL
    BY <1>8
  <2> QED
    BY <2>1, <2>2 DEF CeilingsKept, Exists, At
<1>11. RetiredFirst'
  BY <1>2, <1>3, <1>8 DEF RetiredFirst, At
<1>12. RenewedRetired'
  BY <1>2, <1>3 DEF RenewedRetired
<1>13. ASSUME NEW g \in ended
       PROVE  Dead(g)'
  <2>1. Dead(g) /\ g \in Issued
    BY <1>1 DEF SessionInv, RevocationSticks
  <2>2. ~Rotating(g)'
    BY <1>8, <2>1 DEF Dead, Rotating, At
  <2>3. ASSUME NEW t \in Tokens, sessions'[t].family = g
        PROVE  sessions'[t].revoked
    BY <1>2, <2>1, <2>3 DEF Dead, Active
  <2> QED
    BY <2>2, <2>3 DEF Dead, Active
<1>14. RevocationSticks'
  BY <1>13 DEF RevocationSticks
<1> QED
  BY <1>6, <1>7, <1>9, <1>10, <1>11, <1>12, <1>14 DEF SessionInv

-----------------------------------------------------------------------------
(* The steps. *)

LEMMA SameRows ==
  ASSUME TypeOK, UNCHANGED sessions
  PROVE  RowsWane
BY DEF TypeOK, RowsWane

\* A step that moves one request.
LEMMA OneRequest ==
  ASSUME SessionInv, RowsWane, UNCHANGED <<issued, now, opened, renewed>>,
         NEW r \in Requests, NEW x \in RequestRecord,
         request' = [request EXCEPT ![r] = x], MayRotate(x),
         ended' \subseteq Issued,
         \A f \in ended' \ ended :
           /\ ~Rotating(f)
           /\ \A t \in Tokens : sessions[t].family = f => sessions'[t].revoked
  PROVE  SessionInv'
<1>1. request \in [Requests -> RequestRecord] /\ now \in Nat
  BY DEF SessionInv, TypeOK, RequestRecord
<1>2. request' \in [Requests -> RequestRecord]
  BY <1>1
<1>3. ASSUME NEW q \in Requests
      PROVE  request'[q] = request[q] \/ MayRotate(request'[q])
  <2>1. CASE q = r
    <3>1. request'[q] = x
      BY <1>1, <2>1
    <3> QED
      BY <3>1
  <2>2. CASE q # r
    BY <1>1, <2>2
  <2> QED
    BY <2>1, <2>2
<1> QED
  BY <1>1, <1>2, <1>3, NoInsertion

\* A request that is answered ends the families it has revoked.
LEMMA AnsweredRevocation ==
  ASSUME SessionInv, NEW r \in Requests, NEW families, Revoke(RowsOf(families)),
         End(families), Answer(r, 0), UNCHANGED <<issued, now, opened, renewed>>
  PROVE  SessionInv'
<1>1. RowsWane /\ \A t \in Tokens : t \in RowsOf(families) => sessions'[t].revoked
  BY RevokeEffect DEF SessionInv
<1>2. ended' \subseteq Issued
  BY DEF SessionInv, TypeOK, End
<1>3. ASSUME NEW f \in ended' \ ended
      PROVE  /\ ~Rotating(f)
             /\ \A t \in Tokens : sessions[t].family = f => sessions'[t].revoked
  BY <1>1 DEF End, RowsOf
<1> DEFINE x == [Idle EXCEPT !.stage = "done", !.token = 0]
<1>4. x \in RequestRecord /\ x.stage = "done"
  <2>1. 0 \in 0..MaxTokens
    BY SessionsAssumption
  <2> QED
    BY <2>1, IdleRecord, AnsweredRecord
<1>5. MayRotate(x)
  BY <1>4 DEF MayRotate
<1>6. request' = [request EXCEPT ![r] = x]
  BY DEF Answer
<1> HIDE DEF x
<1> QED
  BY <1>1, <1>2, <1>3, <1>4, <1>5, <1>6, OneRequest

\* A request that only moves, to a stage that is not a rotation's.
LEMMA PlainMove ==
  ASSUME SessionInv, NEW r \in Requests, NEW x \in RequestRecord, RowsWane,
         request' = [request EXCEPT ![r] = x], x.stage \notin {"retire", "renew"},
         UNCHANGED <<issued, now, historyVars>>
  PROVE  SessionInv'
<1>1. UNCHANGED <<issued, now, opened, renewed, ended>>
  BY DEF historyVars
<1>2. MayRotate(x)
  BY DEF MayRotate
<1>3. ended' \subseteq Issued
  BY <1>1 DEF SessionInv, TypeOK
<1> QED
  BY <1>1, <1>2, <1>3, OneRequest

\* A refusal, or an answer without a token.
LEMMA Refusal ==
  ASSUME SessionInv, NEW r \in Requests, RowsWane, Answer(r, 0),
         UNCHANGED <<issued, now, historyVars>>
  PROVE  SessionInv'
<1> DEFINE x == [Idle EXCEPT !.stage = "done", !.token = 0]
<1>1. x \in RequestRecord /\ x.stage = "done"
  <2>1. 0 \in 0..MaxTokens
    BY SessionsAssumption
  <2> QED
    BY <2>1, IdleRecord, AnsweredRecord
<1>2. request' = [request EXCEPT ![r] = x]
  BY DEF Answer
<1> HIDE DEF x
<1> QED
  BY <1>1, <1>2, PlainMove

LEMMA AuthenticateStep ==
  ASSUME SessionInv, NEW r \in Requests, NEW t \in 0..MaxTokens,
         NEW stage \in Stages \ {"retire", "renew"}, NEW f \in 0..MaxTokens,
         UNCHANGED <<sessions, issued, now, historyVars>>,
         request' = [request EXCEPT ![r] =
           [Idle EXCEPT !.stage = stage, !.token = t, !.family = f]]
  PROVE  SessionInv'
<1> DEFINE x == [Idle EXCEPT !.stage = stage, !.token = t, !.family = f]
<1>1. x \in RequestRecord /\ x.stage = stage
  <2>1. stage \in Stages
    OBVIOUS
  <2> QED
    BY <2>1, AdmittedRecord, Zenon
<1>2. RowsWane
  BY SameRows DEF SessionInv
<1>3. request' = [request EXCEPT ![r] = x]
  OBVIOUS
<1>4. UNCHANGED <<issued, now, historyVars>>
  OBVIOUS
<1> HIDE DEF x
<1> QED
  BY <1>1, <1>2, <1>3, <1>4, PlainMove

LEMMA LoginStep ==
  ASSUME SessionInv, NEW r \in Requests,
         StartLogin(r) \/ PurgeExpired(r)
  PROVE  SessionInv'
<1>1. /\ request \in [Requests -> RequestRecord]
      /\ sessions \in [Tokens -> Session \cup {NoSession}]
      /\ now \in Nat
  BY DEF SessionInv, TypeOK, RequestRecord
<1>2. CASE StartLogin(r)
  <2> DEFINE x == [Idle EXCEPT !.stage = "login", !.since = now]
  <2>1. x \in RequestRecord /\ x.stage = "login"
    BY <1>1, IdleRecord DEF RequestRecord, Stages
  <2>2. request' = [request EXCEPT ![r] = x]
    BY <1>2 DEF StartLogin
  <2>3. RowsWane /\ UNCHANGED <<issued, now, historyVars>>
    BY <1>2, SameRows DEF StartLogin, SessionInv
  <2> HIDE DEF x
  <2> QED
    BY <2>1, <2>2, <2>3, PlainMove
<1>3. CASE PurgeExpired(r)
  <2> DEFINE x == [request[r] EXCEPT !.stage = "open"]
  <2>1. x \in RequestRecord /\ x.stage = "open"
    <3>1. request[r] \in RequestRecord /\ "open" \in Stages
      BY <1>1 DEF Stages
    <3> QED
      BY <3>1, MovedRecord
  <2>2. request' = [request EXCEPT ![r] = x]
    BY <1>3 DEF PurgeExpired, Move
  <2>3. RowsWane
    <3>1. CASE UNCHANGED sessions
      BY <3>1, SameRows DEF SessionInv
    <3>2. CASE sessions' = [t \in Tokens |->
                 IF sessions[t].refresh_expires_at < request[r].since
                   THEN NoSession ELSE sessions[t]]
      BY <1>1, <3>2 DEF RowsWane
    <3> QED
      BY <1>3, <3>1, <3>2 DEF PurgeExpired
  <2>4. UNCHANGED <<issued, now, historyVars>>
    BY <1>3 DEF PurgeExpired
  <2> HIDE DEF x
  <2> QED
    BY <2>1, <2>2, <2>3, <2>4, PlainMove
<1> QED
  BY <1>2, <1>3

LEMMA OpenSessionStep ==
  ASSUME SessionInv, NEW r \in Requests, OpenSession(r)
  PROVE  SessionInv'
<1> DEFINE f == issued + 1
           since == request[r].since
           cap == since + AbsoluteTTL
<1>1. /\ issued \in 0..MaxTokens
      /\ since \in Nat
      /\ opened \in [Tokens -> Nat]
      /\ ended \subseteq Issued
      /\ renewed \subseteq Issued
  BY DEF SessionInv, TypeOK
<1>2. /\ Insert(f, since, cap)
      /\ opened' = [opened EXCEPT ![f] = since]
      /\ request' = [request EXCEPT
           ![r] = [Idle EXCEPT !.stage = "done", !.token = issued + 1]]
      /\ UNCHANGED <<now, renewed, ended>>
  BY DEF OpenSession, Answer
<1>3. f \in Nat /\ cap \in Nat /\ f \in 1..(issued + 1) /\ f \notin Issued
  BY <1>1, SessionsAssumption DEF Issued
<1>4. f \in Tokens
  BY <1>1, <1>2, SessionsAssumption DEF Insert, Tokens
<1>5. f \notin ended
  BY <1>1, <1>3
<1>6. /\ opened' \in [Tokens -> Nat]
      /\ \A g \in Issued : opened'[g] = opened[g]
      /\ cap = opened'[f] + AbsoluteTTL
  <2>1. Issued \subseteq Tokens
    BY <1>1, SessionsAssumption DEF Issued, Tokens
  <2> QED
    BY <1>1, <1>2, <1>3, <1>4, <2>1
<1>7. renewed' \subseteq Issued /\ \A t \in renewed' : sessions[t].revoked
  BY <1>1, <1>2 DEF SessionInv, RenewedRetired
<1> HIDE DEF f, since, cap
<1> QED
  BY <1>1, <1>2, <1>3, <1>5, <1>6, <1>7, Insertion

LEMMA RenewStep ==
  ASSUME SessionInv, NEW r \in Requests, Renew(r)
  PROVE  SessionInv'
<1> DEFINE f == request[r].family
           since == request[r].since
           cap == request[r].cap
<1>1. /\ issued \in 0..MaxTokens
      /\ since \in Nat
      /\ cap \in Nat
      /\ opened \in [Tokens -> Nat]
      /\ renewed \subseteq Issued
  BY DEF SessionInv, TypeOK
<1>2. /\ At(r, "renew")
      /\ Insert(f, since, cap)
      /\ renewed' = renewed \cup {request[r].token}
      /\ request' = [request EXCEPT
           ![r] = [Idle EXCEPT !.stage = "done", !.token = issued + 1]]
      /\ UNCHANGED <<now, opened, ended>>
  BY DEF Renew, Answer
<1>3. /\ request[r].token \in Issued
      /\ f \in Issued
      /\ cap = opened[f] + AbsoluteTTL
      /\ sessions[request[r].token].revoked
  BY <1>2 DEF SessionInv, RotationsKnown, CeilingsKept, RetiredFirst
<1>4. f \in Nat /\ f \in 1..(issued + 1)
  BY <1>1, <1>3 DEF Issued
<1>5. f \notin ended
  BY <1>2 DEF SessionInv, RevocationSticks, Dead, Rotating
<1>6. renewed' \subseteq Issued /\ \A t \in renewed' : sessions[t].revoked
  BY <1>1, <1>2, <1>3 DEF SessionInv, RenewedRetired
<1> HIDE DEF f, since, cap
<1> QED
  BY <1>1, <1>2, <1>3, <1>4, <1>5, <1>6, Insertion

LEMMA RefreshStep ==
  ASSUME SessionInv, NEW r \in Requests, NEW t \in Issued, Refresh(r, t)
  PROVE  SessionInv'
<1>1. /\ sessions \in [Tokens -> Session \cup {NoSession}]
      /\ t \in Tokens
      /\ t \in 0..MaxTokens
      /\ now \in Nat
  BY SessionsAssumption DEF SessionInv, TypeOK, Issued, Tokens
<1>2. /\ sessions[t].family \in 0..MaxTokens
      /\ sessions[t].absolute_expires_at \in Nat
  BY <1>1, RowFields
<1>3. ASSUME UNCHANGED sessions
      PROVE  RowsWane
  BY <1>3, SameRows DEF SessionInv
<1>4. CASE MeetRetired(r, t)
  <2>1. "reuse" \in Stages \ {"retire", "renew"}
    BY DEF Stages
  <2> QED
    BY <1>1, <1>2, <1>4, <2>1, AuthenticateStep DEF MeetRetired
<1>5. CASE RefuseRefresh(r, t)
  BY <1>3, <1>5, Refusal DEF RefuseRefresh
<1>6. CASE AcceptRefresh(r, t)
  <2> DEFINE x == [stage |-> "retire", token |-> t, family |-> sessions[t].family,
                   since |-> now, cap |-> Ceiling(t)]
  <2>1. Exists(t) /\ ~sessions[t].revoked
    BY <1>6 DEF AcceptRefresh, Refreshable, Active
  <2>2. x \in RequestRecord
    BY <1>1, <1>2 DEF RequestRecord, Stages, Ceiling
  <2>3. /\ sessions[t].family \in Issued
        /\ Ceiling(t) = opened[sessions[t].family] + AbsoluteTTL
    BY <1>1, <2>1 DEF SessionInv, RowsKnown, CeilingsKept, Ceiling
  <2>4. sessions[t].family \notin ended
    BY <1>1, <2>1 DEF SessionInv, RevocationSticks, Dead, Active
  <2>5. /\ request' = [request EXCEPT ![r] = x]
        /\ UNCHANGED <<sessions, issued, now, opened, renewed, ended>>
    BY <1>6 DEF AcceptRefresh, historyVars
  <2>6. MayRotate(x)
    BY <2>3, <2>4, <2>5 DEF MayRotate
  <2>7. ended' \subseteq Issued /\ ended' \ ended = {}
    BY <2>5 DEF SessionInv, TypeOK
  <2> HIDE DEF x
  <2> QED
    BY <1>3, <2>2, <2>5, <2>6, <2>7, OneRequest
<1> QED
  BY <1>4, <1>5, <1>6 DEF Refresh

LEMMA RetireStep ==
  ASSUME SessionInv, NEW r \in Requests, Retire(r)
  PROVE  SessionInv'
<1> DEFINE x == [request[r] EXCEPT !.stage = "renew"]
<1>1. request[r] \in RequestRecord /\ "renew" \in Stages
  BY DEF SessionInv, TypeOK, RequestRecord, Stages
<1>2. /\ x \in RequestRecord
      /\ x.stage = "renew"
      /\ x.token = request[r].token
      /\ x.family = request[r].family
      /\ x.cap = request[r].cap
  BY <1>1, MovedRecord
<1>3. /\ At(r, "retire")
      /\ Revoke({request[r].token})
      /\ request' = [request EXCEPT ![r] = x]
      /\ UNCHANGED <<issued, now, opened, renewed, ended>>
  BY DEF Retire, Move, historyVars
<1>4. /\ request[r].token \in Issued
      /\ request[r].family \in Issued
      /\ request[r].cap = opened[request[r].family] + AbsoluteTTL
  BY <1>3 DEF SessionInv, RotationsKnown, CeilingsKept
<1>5. request[r].family \notin ended
  BY <1>3 DEF SessionInv, RevocationSticks, Dead, Rotating
<1>6. request[r].token \in Tokens
  BY <1>4, SessionsAssumption DEF SessionInv, TypeOK, Issued, Tokens
<1>7. RowsWane /\ sessions'[request[r].token].revoked
  BY <1>3, <1>6, RevokeEffect DEF SessionInv
<1>8. ended' \subseteq Issued /\ ended' \ ended = {}
  BY <1>3 DEF SessionInv, TypeOK
<1> HIDE DEF x
<1>9. MayRotate(x)
  BY <1>2, <1>3, <1>4, <1>5, <1>7 DEF MayRotate
<1> QED
  BY <1>2, <1>3, <1>7, <1>8, <1>9, OneRequest

LEMMA AccessStep ==
  ASSUME SessionInv, NEW r \in Requests, NEW t \in Issued,
         StartLogout(r, t) \/ StartRevoke(r, t) \/ StartOthers(r, t)
  PROVE  SessionInv'
<1>1. /\ sessions \in [Tokens -> Session \cup {NoSession}]
      /\ Issued \subseteq Tokens
      /\ t \in 0..MaxTokens
  BY SessionsAssumption DEF SessionInv, TypeOK, Issued, Tokens
<1>2. \A f \in Issued : sessions[f].family \in 0..MaxTokens
  BY <1>1, RowFields
<1>3. {"logout", "revoke", "others"} \subseteq Stages \ {"retire", "renew"}
  BY DEF Stages
<1>4. CASE StartLogout(r, t)
  BY <1>1, <1>2, <1>3, <1>4, AuthenticateStep DEF StartLogout, Authenticate
<1>5. CASE StartRevoke(r, t)
  BY <1>1, <1>2, <1>3, <1>5, AuthenticateStep DEF StartRevoke, Authenticate
<1>6. CASE StartOthers(r, t)
  BY <1>1, <1>2, <1>3, <1>6, AuthenticateStep DEF StartOthers, Authenticate
<1> QED
  BY <1>4, <1>5, <1>6

LEMMA RevocationStep ==
  ASSUME SessionInv, NEW r \in Requests,
         RevokeFamily(r) \/ Logout(r) \/ RevokeDevice(r) \/ RevokeOthers(r)
  PROVE  SessionInv'
<1>1. CASE RevokeFamily(r)
  BY <1>1, AnsweredRevocation DEF RevokeFamily
<1>2. CASE Logout(r)
  BY <1>2, RevokeEffect, Refusal DEF Logout, SessionInv
<1>3. CASE RevokeDevice(r)
  BY <1>3, AnsweredRevocation DEF RevokeDevice
<1>4. CASE RevokeOthers(r)
  BY <1>4, AnsweredRevocation DEF RevokeOthers
<1> QED
  BY <1>1, <1>2, <1>3, <1>4

LEMMA RevokeAllStep ==
  ASSUME SessionInv, RevokeAll
  PROVE  SessionInv'
<1>1. RowsWane /\ \A t \in Tokens : sessions'[t].revoked
  BY RevokeEffect DEF RevokeAll, SessionInv
<1>2. UNCHANGED <<issued, now, request, opened, renewed>>
  BY DEF RevokeAll
<1>3. now' \in Nat /\ request' \in [Requests -> RequestRecord]
  BY <1>2 DEF SessionInv, TypeOK, RequestRecord
<1>4. ended' \subseteq Issued /\ \A f \in ended' \ ended : ~Rotating(f)
  BY DEF RevokeAll, End, SessionInv, TypeOK
<1> QED
  BY <1>1, <1>2, <1>3, <1>4, NoInsertion

LEMMA EndOfRequest ==
  ASSUME SessionInv, NEW r \in Requests, Drop(r) \/ Release(r)
  PROVE  SessionInv'
<1>1. /\ request' = [request EXCEPT ![r] = Idle]
      /\ UNCHANGED <<sessions, issued, now, historyVars>>
  BY DEF Drop, Release
<1>2. RowsWane
  BY <1>1, SameRows DEF SessionInv
<1>3. Idle.stage \notin {"retire", "renew"}
  BY DEF Idle
<1> QED
  BY <1>1, <1>2, <1>3, IdleRecord, PlainMove

LEMMA QuietStep ==
  ASSUME SessionInv, Tick \/ UNCHANGED sessionVars
  PROVE  SessionInv'
<1>1. UNCHANGED <<sessions, issued, request, opened, renewed, ended>>
  BY DEF Tick, sessionVars, historyVars
<1>2. now' \in Nat
  BY DEF Tick, sessionVars, SessionInv, TypeOK
<1>3. request' \in [Requests -> RequestRecord] /\ ended' \subseteq Issued
  BY <1>1 DEF SessionInv, TypeOK, RequestRecord
<1>4. RowsWane
  BY <1>1, SameRows DEF SessionInv
<1> QED
  BY <1>1, <1>2, <1>3, <1>4, NoInsertion

-----------------------------------------------------------------------------
(* Theorems. *)

LEMMA InitialSessions == Init => SessionInv
<1> SUFFICES ASSUME Init PROVE SessionInv
  OBVIOUS
<1>1. \A t \in Tokens : sessions[t] = NoSession
  BY DEF Init
<1>2. \A r \in Requests : request[r] = Idle
  BY DEF Init
<1>3. TypeOK
  <2>1. Idle \in RequestRecord
    BY IdleRecord
  <2> QED
    BY <2>1, SessionsAssumption DEF Init, TypeOK, RequestRecord, Issued
<1>4. \A r \in Requests : ~At(r, "retire") /\ ~At(r, "renew")
  <2>1. Idle.stage = "idle"
    BY DEF Idle
  <2> QED
    BY <1>2, <2>1 DEF At
<1> QED
  BY <1>1, <1>3, <1>4
  DEF SessionInv, RowsKnown, RotationsKnown, CeilingsKept, RetiredFirst,
      RenewedRetired, RevocationSticks, Exists, Init

LEMMA SessionSteps == SessionInv /\ [Next]_sessionVars => SessionInv'
<1> SUFFICES ASSUME SessionInv, [Next]_sessionVars
             PROVE  SessionInv'
  OBVIOUS
<1>1. ASSUME NEW r \in Requests, Ask(r)
      PROVE  SessionInv'
  BY <1>1, LoginStep, RefreshStep, AccessStep DEF Ask
<1>2. ASSUME NEW r \in Requests, Serve(r)
      PROVE  SessionInv'
  BY <1>2, LoginStep, OpenSessionStep, RetireStep, RenewStep, RevocationStep
  DEF Serve
<1>3. ASSUME NEW r \in Requests, Drop(r) \/ Release(r)
      PROVE  SessionInv'
  BY <1>3, EndOfRequest
<1>4. CASE RevokeAll
  BY <1>4, RevokeAllStep
<1>5. CASE Tick \/ UNCHANGED sessionVars
  BY <1>5, QuietStep
<1> QED
  BY <1>1, <1>2, <1>3, <1>4, <1>5 DEF Next

LEMMA SessionInvariant == Spec => []SessionInv
BY InitialSessions, SessionSteps, PTL DEF Spec

\* The rows and requests of the server keep their types, whatever requests meet
\* (routes/auth.rs, routes/sessions.rs).
THEOREM SessionsTyped == Spec => []TypeOK
<1>1. SessionInv => TypeOK
  BY DEF SessionInv
<1> QED
  BY <1>1, SessionInvariant, PTL

\* No token outlives the ceiling of the login it comes from (auth.rs:378-388):
\* whatever number of rotations, of whatever duration, carry it on.
THEOREM LifetimesCapped == Spec => []LifetimeCapped
<1>1. SessionInv => LifetimeCapped
  <2> SUFFICES ASSUME SessionInv, NEW t \in Tokens, Valid(t) \/ Refreshable(t)
               PROVE  now < opened[sessions[t].family] + AbsoluteTTL
    BY DEF LifetimeCapped
  <2>1. Exists(t) /\ sessions[t].absolute_expires_at > now
    BY DEF Valid, Refreshable
  <2>2. sessions[t].absolute_expires_at = opened[sessions[t].family] + AbsoluteTTL
    BY <2>1 DEF SessionInv, CeilingsKept
  <2>3. now \in Nat /\ sessions[t].absolute_expires_at \in Nat
    BY RowFields DEF SessionInv, TypeOK
  <2> QED
    BY <2>1, <2>2, <2>3
<1> QED
  BY <1>1, SessionInvariant, PTL

\* A token that has a successor is retired for good (auth.rs:378).  It may have two:
\* SingleUse is refuted by a run.
THEOREM RenewedTokensRetired == Spec => []RenewedRetired
<1>1. SessionInv => RenewedRetired
  BY DEF SessionInv
<1> QED
  BY <1>1, SessionInvariant, PTL

\* A family that is revoked while no rotation of it is under way never has a
\* working token again (auth.rs:358-377, sessions.rs:73-110, recovery.rs:353-358).
THEOREM RevocationFinal == Spec => []RevocationSticks
<1>1. SessionInv => RevocationSticks
  BY DEF SessionInv
<1> QED
  BY <1>1, SessionInvariant, PTL

-----------------------------------------------------------------------------
(* Devices: what they present are tokens that were given out. *)

\* The answer to a request is a token that was given out, or none.
Answered == \A r \in Requests : At(r, "done") => request[r].token \in 0..issued

\* A device that presents a token knows the account; a vault that is locked,
\* or about to be opened by a login, has no access token.
Held ==
  \A d \in Devices :
    /\ access[d] \in 0..issued /\ refresh[d] \in 0..issued /\ stored[d] \in 0..issued
    /\ refresh[d] # 0 => d \in known
    /\ call[d] = "login" \/ (~session[d] /\ call[d] = "none") => access[d] = 0

ClientInv == SessionInv /\ ClientTypeOK /\ Answered /\ Held

LEMMA OneAnswer ==
  ASSUME SessionInv, Answered, NEW r \in Requests, NEW x,
         request' = [request EXCEPT ![r] = x],
         x.stage = "done" => x.token \in 0..issued',
         issued' \in Nat, issued <= issued'
  PROVE  Answered' /\ issued \in Nat /\ issued' \in Nat /\ issued <= issued'
<1>1. issued \in Nat
  BY SessionsAssumption DEF SessionInv, TypeOK
<1>2. request'[r] = x /\ \A q \in Requests \ {r} : request'[q] = request[q]
  BY DEF SessionInv, TypeOK
<1>3. \A q \in Requests \ {r} : At(q, "done")' => request'[q].token \in 0..issued'
  BY <1>1, <1>2 DEF Answered, At
<1> QED
  BY <1>1, <1>2, <1>3 DEF Answered, At

LEMMA NoAnswer ==
  ASSUME SessionInv, Answered, NEW r \in Requests, NEW x,
         request' = [request EXCEPT ![r] = x],
         x.stage = "done" => x.token = 0,
         issued' = issued
  PROVE  Answered' /\ issued \in Nat /\ issued' \in Nat /\ issued <= issued'
<1>1. issued \in Nat /\ issued <= issued /\ 0 \in 0..issued
  BY SessionsAssumption DEF SessionInv, TypeOK
<1>2. x.stage = "done" => x.token \in 0..issued'
  BY <1>1
<1>3. issued' \in Nat /\ issued <= issued'
  BY <1>1
<1> QED
  BY <1>2, <1>3, OneAnswer

LEMMA AnsweredSteps ==
  ASSUME SessionInv, Answered, [Next]_sessionVars
  PROVE  Answered' /\ issued \in Nat /\ issued' \in Nat /\ issued <= issued'
<1> DEFINE Grown == Answered' /\ issued \in Nat /\ issued' \in Nat /\ issued <= issued'
<1>1. issued \in Nat /\ MaxTokens \in Nat
  BY SessionsAssumption DEF SessionInv, TypeOK
<1>2. request \in [Requests -> RequestRecord]
  BY DEF SessionInv, TypeOK, RequestRecord
<1>3. ASSUME NEW r \in Requests, Answer(r, 0), issued' = issued PROVE Grown
  <2> DEFINE x == [Idle EXCEPT !.stage = "done", !.token = 0]
  <2>1. x.token = 0
    BY IdleRecord DEF RequestRecord
  <2>2. request' = [request EXCEPT ![r] = x]
    BY <1>3 DEF Answer
  <2> HIDE DEF x
  <2> QED
    BY <1>1, <1>3, <2>1, <2>2, NoAnswer
<1>4. ASSUME NEW r \in Requests, Answer(r, issued + 1), issued' = issued + 1 PROVE Grown
  <2> DEFINE x == [Idle EXCEPT !.stage = "done", !.token = issued + 1]
  <2>1. x.token = issued + 1
    BY IdleRecord DEF RequestRecord
  <2>2. request' = [request EXCEPT ![r] = x]
    BY <1>4 DEF Answer
  <2> HIDE DEF x
  <2>3. issued + 1 \in Nat /\ issued <= issued + 1 /\ issued + 1 \in 0..(issued + 1)
    BY <1>1
  <2> QED
    BY <1>1, <1>4, <2>1, <2>2, <2>3, OneAnswer
<1>5. ASSUME NEW r \in Requests, NEW stage \in Stages \ {"done"}, Move(r, stage), issued' = issued
      PROVE  Grown
  <2> DEFINE x == [request[r] EXCEPT !.stage = stage]
  <2>1. x.stage # "done"
    BY <1>2, MovedRecord
  <2>2. request' = [request EXCEPT ![r] = x]
    BY <1>2, <1>5 DEF Move
  <2> HIDE DEF x
  <2> QED
    BY <1>1, <1>5, <2>1, <2>2, NoAnswer
<1>6. ASSUME NEW r \in Requests, NEW stage \in Stages \ {"done"}, NEW t \in 0..MaxTokens,
             NEW f \in 0..MaxTokens,
             request' = [request EXCEPT ![r] =
                           [Idle EXCEPT !.stage = stage, !.token = t, !.family = f]],
             issued' = issued
      PROVE  Grown
  <2> DEFINE x == [Idle EXCEPT !.stage = stage, !.token = t, !.family = f]
  <2>1. x.stage # "done"
    BY AdmittedRecord
  <2> HIDE DEF x
  <2> QED
    BY <1>1, <1>6, <2>1, NoAnswer DEF x
<1>7. Issued \subseteq Tokens /\ \A t \in Issued : t \in 0..MaxTokens
      /\ \A p \in Tokens : sessions[p].family \in 0..MaxTokens
  BY RowFields, SessionsAssumption DEF SessionInv, TypeOK, Issued, Tokens
<1>8. ASSUME NEW r \in Requests, Ask(r) PROVE Grown
  <2>1. CASE StartLogin(r)
    <3> DEFINE x == [Idle EXCEPT !.stage = "login", !.since = now]
    <3>1. x.stage # "done"
      BY IdleRecord DEF RequestRecord
    <3>2. request' = [request EXCEPT ![r] = x] /\ issued' = issued
      BY <2>1 DEF StartLogin
    <3> HIDE DEF x
    <3> QED
      BY <1>1, <3>1, <3>2, NoAnswer
  <2>2. ASSUME NEW t \in Issued, Refresh(r, t) PROVE Grown
    <3>1. CASE MeetRetired(r, t)
      BY <1>6, <1>7, <3>1 DEF MeetRetired, Stages
    <3>2. CASE RefuseRefresh(r, t)
      BY <1>3, <3>2 DEF RefuseRefresh
    <3>3. CASE AcceptRefresh(r, t)
      <4> DEFINE x == [stage |-> "retire", token |-> t, family |-> sessions[t].family,
                       since |-> now, cap |-> Ceiling(t)]
      <4>1. x.stage # "done"
        OBVIOUS
      <4>2. request' = [request EXCEPT ![r] = x] /\ issued' = issued
        BY <3>3 DEF AcceptRefresh
      <4> HIDE DEF x
      <4> QED
        BY <1>1, <4>1, <4>2, NoAnswer
    <3> QED
      BY <2>2, <3>1, <3>2, <3>3 DEF Refresh
  <2>3. ASSUME NEW t \in Issued, StartLogout(r, t) \/ StartRevoke(r, t) \/ StartOthers(r, t)
        PROVE  Grown
    <3>1. PICK stage \in {"logout", "revoke", "others"}, f \in Issued :
            Authenticate(r, t, stage, sessions[f].family)
      BY <2>3 DEF StartLogout, StartRevoke, StartOthers
    <3> QED
      BY <1>6, <1>7, <3>1 DEF Authenticate, Stages
  <2> QED
    BY <1>8, <2>1, <2>2, <2>3 DEF Ask
<1>9. ASSUME NEW r \in Requests, Serve(r) PROVE Grown
  <2>1. CASE PurgeExpired(r)
    BY <1>5, <2>1 DEF PurgeExpired, Stages
  <2>2. CASE Retire(r)
    BY <1>5, <2>2 DEF Retire, Stages
  <2>3. CASE OpenSession(r) \/ Renew(r)
    BY <1>4, <2>3 DEF OpenSession, Renew, Insert
  <2>4. CASE RevokeFamily(r) \/ Logout(r) \/ RevokeDevice(r) \/ RevokeOthers(r)
    BY <1>3, <2>4 DEF RevokeFamily, Logout, RevokeDevice, RevokeOthers
  <2> QED
    BY <1>9, <2>1, <2>2, <2>3, <2>4 DEF Serve
<1>10. ASSUME NEW r \in Requests, Drop(r) \/ Release(r) PROVE Grown
  <2>1. request' = [request EXCEPT ![r] = Idle] /\ issued' = issued
    BY <1>10 DEF Drop, Release
  <2>2. Idle.stage # "done"
    BY DEF Idle
  <2> QED
    BY <1>1, <2>1, <2>2, NoAnswer
<1>11. CASE RevokeAll \/ Tick \/ UNCHANGED sessionVars
  BY <1>1, <1>11 DEF RevokeAll, Tick, sessionVars, Answered, At
<1> QED
  BY <1>8, <1>9, <1>10, <1>11 DEF Next

\* The variables of the devices.
DeviceTypes ==
  /\ session \in [Devices -> BOOLEAN]
  /\ access \in [Devices -> 0..MaxTokens]
  /\ refresh \in [Devices -> 0..MaxTokens]
  /\ stored \in [Devices -> 0..MaxTokens]
  /\ known \subseteq Devices
  /\ call \in [Devices -> Calls]
  /\ retried \in [Devices -> BOOLEAN]
  /\ slot \in [Devices -> Requests \cup {NoRequest}]

DevicesSound ==
  \A d \in Devices :
    /\ refresh[d] = 0 => access[d] = 0
    /\ stored[d] # 0 => d \in known
    /\ Waiting(d) => call[d] # "none"

Devicewise == DeviceTypes /\ DevicesSound /\ Held

LEMMA ClientParts ==
  ClientTypeOK <=> TypeOK /\ DeviceTypes /\ failures \in 0..MaxFailures /\ DevicesSound
BY DEF ClientTypeOK, DeviceTypes, DevicesSound

\* Whatever a device does, the server sees a step of its own.
LEMMA ServerView ==
  ASSUME SessionInv, Devicewise, ClientNext
  PROVE  [Next]_sessionVars
<1>1. issued \in Nat
  BY SessionsAssumption DEF SessionInv, TypeOK
<1>2. ASSUME NEW d \in Devices, Login(d) PROVE Next
  BY <1>2 DEF Login, Next, Ask
<1>3. ASSUME NEW r \in Requests, NEW t \in 0..issued, t # 0, Refresh(r, t) PROVE Next
  <2>1. t \in Issued
    BY <1>1, <1>3 DEF Issued
  <2> QED
    BY <1>3, <2>1 DEF Next, Ask
<1>4. ASSUME NEW d \in Devices, Unlock(d) PROVE Next
  <2>1. PICK r \in Requests : Refresh(r, stored[d])
    BY <1>4 DEF Unlock
  <2>2. stored[d] \in 0..issued /\ stored[d] # 0
    BY <1>4 DEF Unlock, Devicewise, Held
  <2> QED
    BY <1>3, <2>1, <2>2
<1>5. ASSUME NEW d \in Devices, Rotate(d) PROVE Next
  <2>1. PICK r \in Requests : Refresh(r, refresh[d])
    BY <1>5 DEF Rotate
  <2>2. refresh[d] \in 0..issued /\ refresh[d] # 0
    BY <1>5 DEF Rotate, Devicewise, Held, DevicesSound
  <2> QED
    BY <1>3, <2>1, <2>2
<1>6. ASSUME NEW d \in Devices, Granted(d) \/ Refused(d) \/ Broken(d) PROVE Next
  <2>1. slot[d] \in Requests
    BY <1>6 DEF Granted, Refused, Broken, Waiting, Devicewise, DeviceTypes
  <2>2. Release(slot[d]) \/ Drop(slot[d])
    BY <1>6 DEF Granted, Refused, Broken
  <2> QED
    BY <2>1, <2>2 DEF Next
<1>7. ASSUME NEW d \in Devices, Recover(d) PROVE Next
  BY <1>7 DEF Recover, Next
<1>8. ASSUME NEW d \in Devices,
             UnlockOffline(d) \/ Begin(d) \/ Served(d) \/ NextRequest(d) \/ GiveUp(d)
               \/ Offline(d) \/ Lost(d) \/ Lock(d) \/ Kill(d)
      PROVE  UNCHANGED sessionVars
  BY <1>8 DEF UnlockOffline, Begin, Served, NextRequest, GiveUp, Offline, Lost, Lock,
              Kill, Fail, Forget
<1>9. CASE Stranger
  BY <1>9 DEF Stranger, Next
<1>10. CASE Server
  BY <1>10 DEF Server, Next
<1> QED
  BY <1>2, <1>4, <1>5, <1>6, <1>7, <1>8, <1>9, <1>10 DEF ClientNext, Work

\* The failures are counted up to their bound.
LEMMA FaultsBounded ==
  ASSUME failures \in 0..MaxFailures, ClientNext
  PROVE  failures' \in 0..MaxFailures
<1>1. CASE Fault
  BY <1>1, SessionClientAssumption DEF Fault
<1>2. CASE UNCHANGED failures
  BY <1>2
<1> QED
  BY <1>1, <1>2 DEF ClientNext, Work, Login, Unlock, UnlockOffline, Begin, Served,
     NextRequest, Rotate, GiveUp, Offline, Granted, Refused, Broken, Lost, Lock, Kill,
     Recover, Stranger, Server, clientVars

\* What Devicewise says of one device.
DeviceOK(d) ==
  /\ refresh[d] = 0 => access[d] = 0
  /\ stored[d] # 0 \/ refresh[d] # 0 => d \in known
  /\ Waiting(d) => call[d] # "none"
  /\ access[d] \in 0..issued /\ refresh[d] \in 0..issued /\ stored[d] \in 0..issued
  /\ call[d] = "login" \/ (~session[d] /\ call[d] = "none") => access[d] = 0

\* A step that keeps the values of device e.
Keeps(e) ==
  /\ session'[e] = session[e] /\ access'[e] = access[e]
  /\ refresh'[e] = refresh[e] /\ stored'[e] = stored[e]
  /\ call'[e] = call[e] /\ slot'[e] = slot[e]

LEMMA OneDevice ==
  ASSUME Devicewise, issued \in Nat, issued' \in Nat, issued <= issued',
         NEW d \in Devices, DeviceTypes', DeviceOK(d)',
         \A e \in Devices \ {d} : Keeps(e), known \subseteq known'
  PROVE  Devicewise'
<1>1. ASSUME NEW e \in Devices \ {d} PROVE DeviceOK(e)'
  <2>1. DeviceOK(e) /\ Keeps(e)
    BY DEF Devicewise, DevicesSound, Held, DeviceOK
  <2> QED
    BY <2>1 DEF DeviceOK, Keeps, Waiting
<1>2. \A e \in Devices : DeviceOK(e)'
  BY <1>1
<1> QED
  BY <1>2 DEF Devicewise, DevicesSound, Held, DeviceOK, Waiting

LEMMA DevicesQuiet ==
  ASSUME Devicewise, issued \in Nat, issued' \in Nat, issued <= issued', UNCHANGED clientVars
  PROVE  Devicewise'
<1>1. DeviceTypes' /\ DevicesSound'
  BY DEF Devicewise, DeviceTypes, DevicesSound, Waiting, clientVars
<1>2. Held'
  BY DEF Devicewise, Held, clientVars
<1> QED
  BY <1>1, <1>2 DEF Devicewise

LEMMA BeginningSteps ==
  ASSUME Devicewise, issued \in Nat, issued' \in Nat, issued <= issued', NEW d \in Devices,
         Login(d) \/ Unlock(d) \/ UnlockOffline(d) \/ Begin(d) \/ Rotate(d)
  PROVE  Devicewise'
<1> DEFINE Step == /\ DeviceTypes' /\ DeviceOK(d)'
                   /\ \A e \in Devices \ {d} : Keeps(e)
                   /\ known' = known
<1> SUFFICES Step
  BY OneDevice
<1>1. DeviceTypes /\ DeviceOK(d)
  BY DEF Devicewise, DevicesSound, Held, DeviceOK
<1>2. CASE Login(d)
  BY <1>1, <1>2, SessionClientAssumption DEF Login, DeviceTypes, DeviceOK, Keeps, Waiting, Calls
<1>3. CASE Unlock(d)
  BY <1>1, <1>3, SessionClientAssumption DEF Unlock, DeviceTypes, DeviceOK, Keeps, Waiting, Calls
<1>4. CASE UnlockOffline(d)
  BY <1>1, <1>4 DEF UnlockOffline, DeviceTypes, DeviceOK, Keeps, Waiting
<1>5. CASE Begin(d)
  BY <1>1, <1>5 DEF Begin, DeviceTypes, DeviceOK, Keeps, Waiting, Calls
<1>6. CASE Rotate(d)
  BY <1>1, <1>6, SessionClientAssumption
     DEF Rotate, Running, DeviceTypes, DeviceOK, Keeps, Waiting, Calls
<1> QED
  BY <1>2, <1>3, <1>4, <1>5, <1>6

LEMMA RequestSteps ==
  ASSUME Devicewise, issued \in Nat, issued' \in Nat, issued <= issued', NEW d \in Devices,
         Served(d) \/ NextRequest(d) \/ GiveUp(d) \/ Offline(d)
  PROVE  Devicewise'
<1> DEFINE Step == /\ DeviceTypes' /\ DeviceOK(d)'
                   /\ \A e \in Devices \ {d} : Keeps(e)
                   /\ known' = known
<1> SUFFICES Step
  BY OneDevice
<1>1. DeviceTypes /\ DeviceOK(d)
  BY DEF Devicewise, DevicesSound, Held, DeviceOK
<1>2. CASE Served(d)
  <2>1. /\ access' = access /\ refresh' = refresh /\ known' = known /\ slot' = slot
        /\ retried' = [retried EXCEPT ![d] = FALSE] /\ ~Waiting(d)
        /\ \/ /\ session' = [session EXCEPT ![d] = TRUE]
              /\ call' = [call EXCEPT ![d] = "none"]
           \/ /\ session' = session
              /\ call' = [call EXCEPT ![d] = "quiet"]
    BY <1>2 DEF Served, Running, Return
  <2>5. stored' \in {stored, [stored EXCEPT ![d] = refresh[d]]}
        /\ (stored'[d] = 0 \/ stored'[d] = stored[d] \/ stored'[d] = refresh[d])
    BY <1>1, <1>2 DEF Served, Persist, DeviceTypes
  <2>2. DeviceTypes'
    BY <1>1, <2>1, <2>5 DEF DeviceTypes, Calls
  <2>3. DeviceOK(d)'
    BY <1>1, <2>1, <2>5 DEF DeviceTypes, DeviceOK, Waiting
  <2>4. \A e \in Devices \ {d} : Keeps(e)
    BY <1>1, <2>1, <2>5 DEF DeviceTypes, Keeps
  <2> QED
    BY <2>1, <2>2, <2>3, <2>4
<1>3. CASE NextRequest(d)
  BY <1>1, <1>3 DEF NextRequest, DeviceTypes, DeviceOK, Keeps, Waiting
<1>4. CASE GiveUp(d) \/ Offline(d)
  <2>1. /\ session' = [session EXCEPT ![d] = TRUE] /\ access' = access
        /\ refresh' = refresh /\ stored' = stored /\ known' = known
        /\ call' = [call EXCEPT ![d] = "none"] /\ retried' = retried
        /\ slot' = slot /\ ~Waiting(d)
    BY <1>4 DEF GiveUp, Offline, Running, Fail, Return
  <2>2. DeviceTypes'
    BY <1>1, <2>1 DEF DeviceTypes, Calls
  <2>3. DeviceOK(d)'
    BY <1>1, <2>1 DEF DeviceTypes, DeviceOK, Waiting
  <2>4. \A e \in Devices \ {d} : Keeps(e)
    BY <1>1, <2>1 DEF DeviceTypes, Keeps
  <2> QED
    BY <2>1, <2>2, <2>3, <2>4
<1> QED
  BY <1>2, <1>3, <1>4

LEMMA AnswerSteps ==
  ASSUME Devicewise, issued \in Nat, issued' \in Nat, issued <= issued', NEW d \in Devices,
         TypeOK, Answered,
         Granted(d) \/ Refused(d) \/ Broken(d) \/ Lost(d)
  PROVE  Devicewise'
<1> DEFINE Step == /\ DeviceTypes' /\ DeviceOK(d)'
                   /\ \A e \in Devices \ {d} : Keeps(e)
                   /\ known \subseteq known'
<1> SUFFICES Step
  BY OneDevice
<1>1. DeviceTypes /\ DeviceOK(d)
  BY DEF Devicewise, DevicesSound, Held, DeviceOK
<1>2. CASE Granted(d)
  <2> DEFINE t == request[slot[d]].token
  <2>1. slot[d] \in Requests
    BY <1>1, <1>2 DEF Granted, Waiting, DeviceTypes
  <2>2. t \in 0..issued /\ t \in 0..MaxTokens /\ t # 0
    BY <1>2, <2>1 DEF Granted, Answered, TypeOK
  <2>3. t \in 0..issued'
    BY <2>2
  <2>4. /\ access' = [access EXCEPT ![d] = t]
        /\ refresh' = [refresh EXCEPT ![d] = t]
        /\ stored' \in {[stored EXCEPT ![d] = t], stored}
        /\ known' = known \cup {d}
        /\ slot' = [slot EXCEPT ![d] = NoRequest]
        /\ retried' = [retried EXCEPT ![d] = call[d] \notin {"login", "unlock"}]
        /\ call' = [call EXCEPT ![d] = IF @ \in {"login", "unlock"} THEN "quiet" ELSE @]
        /\ session' = session
    BY <1>2 DEF Granted
  <2>5. call[d] # "none"
    BY <1>1, <1>2 DEF Granted, DeviceOK
  <2> HIDE DEF t
  <2>6. DeviceTypes'
    BY <1>1, <2>2, <2>4 DEF DeviceTypes, Calls
  <2>7. DeviceOK(d)'
    BY <1>1, <2>2, <2>3, <2>4, <2>5 DEF DeviceTypes, DeviceOK, Waiting
  <2>8. \A e \in Devices \ {d} : Keeps(e)
    BY <1>1, <2>4 DEF DeviceTypes, Keeps
  <2> QED
    BY <2>4, <2>6, <2>7, <2>8
<1>3. CASE Refused(d) \/ Broken(d)
  <2>1. /\ session' = [session EXCEPT ![d] = TRUE] /\ access' = [access EXCEPT ![d] = 0]
        /\ refresh' = [refresh EXCEPT ![d] = 0] /\ stored' = stored /\ known' = known
        /\ call' = [call EXCEPT ![d] = "none"] /\ retried' = retried
        /\ slot' = [slot EXCEPT ![d] = NoRequest]
    BY <1>3 DEF Refused, Broken, SignedOut, Return
  <2>2. DeviceTypes'
    BY <1>1, <2>1, SessionsAssumption DEF DeviceTypes, Calls
  <2>3. DeviceOK(d)'
    BY <1>1, <2>1 DEF DeviceTypes, DeviceOK, Waiting
  <2>4. \A e \in Devices \ {d} : Keeps(e)
    BY <1>1, <2>1 DEF DeviceTypes, Keeps
  <2> QED
    BY <2>1, <2>2, <2>3, <2>4
<1>4. CASE Lost(d)
  <2>1. /\ \/ session' = [session EXCEPT ![d] = TRUE]
           \/ session' = [session EXCEPT ![d] = FALSE] /\ call[d] = "login"
        /\ access' = access
        /\ refresh' = refresh /\ stored' = stored /\ known' = known
        /\ call' = [call EXCEPT ![d] = "none"] /\ retried' = retried
        /\ slot' = [slot EXCEPT ![d] = NoRequest]
    <3>1. CASE call[d] = "login"
      BY <1>4, <3>1 DEF Lost
    <3>2. CASE call[d] # "login"
      BY <1>4, <3>2 DEF Lost
    <3> QED
      BY <3>1, <3>2
  <2>2. DeviceTypes'
    BY <1>1, <2>1 DEF DeviceTypes, Calls
  <2>3. DeviceOK(d)'
    BY <1>1, <2>1 DEF DeviceTypes, DeviceOK, Waiting
  <2>4. \A e \in Devices \ {d} : Keeps(e)
    BY <1>1, <2>1 DEF DeviceTypes, Keeps
  <2> QED
    BY <2>1, <2>2, <2>3, <2>4
<1> QED
  BY <1>2, <1>3, <1>4

LEMMA LockingSteps ==
  ASSUME Devicewise, issued \in Nat, issued' \in Nat, issued <= issued', NEW d \in Devices,
         Lock(d) \/ Kill(d) \/ Recover(d)
  PROVE  Devicewise'
<1> DEFINE Step == /\ DeviceTypes' /\ DeviceOK(d)'
                   /\ \A e \in Devices \ {d} : Keeps(e)
                   /\ known' = known
<1> SUFFICES Step
  BY OneDevice
<1>1. DeviceTypes /\ DeviceOK(d)
  BY DEF Devicewise, DevicesSound, Held, DeviceOK
<1>2. CASE Lock(d) \/ Kill(d)
  <2>1. /\ session' = [session EXCEPT ![d] = FALSE] /\ access' = [access EXCEPT ![d] = 0]
        /\ refresh' = [refresh EXCEPT ![d] = 0] /\ stored' = stored /\ known' = known
        /\ call' = [call EXCEPT ![d] = "none"] /\ retried' = [retried EXCEPT ![d] = FALSE]
        /\ slot' = [slot EXCEPT ![d] = NoRequest]
    BY <1>2 DEF Lock, Kill, Forget
  <2>2. DeviceTypes'
    BY <1>1, <2>1, SessionsAssumption DEF DeviceTypes, Calls
  <2>3. DeviceOK(d)'
    BY <1>1, <2>1 DEF DeviceTypes, DeviceOK, Waiting
  <2>4. \A e \in Devices \ {d} : Keeps(e)
    BY <1>1, <2>1 DEF DeviceTypes, Keeps
  <2> QED
    BY <2>1, <2>2, <2>3, <2>4
<1>3. CASE Recover(d)
  BY <1>1, <1>3, SessionsAssumption DEF Recover, DeviceTypes, DeviceOK, Keeps, Waiting
<1> QED
  BY <1>2, <1>3

\* In the initial state no device has a token.
LEMMA InitialDevices == ClientInit => Devicewise
<1> SUFFICES ASSUME ClientInit PROVE Devicewise
  OBVIOUS
<1>1. issued = 0 /\ MaxTokens \in Nat
  BY SessionsAssumption DEF ClientInit, Init
<1>2. DeviceTypes
  BY <1>1 DEF ClientInit, DeviceTypes, Calls
<1>3. DevicesSound /\ Held
  BY <1>1 DEF ClientInit, DevicesSound, Held, Waiting
<1> QED
  BY <1>2, <1>3 DEF Devicewise

LEMMA InitialAnswers == Init => Answered
BY DEF Init, Answered, At, Idle

LEMMA ClientSteps ==
  ClientInv /\ [ClientNext]_vars => ClientInv' /\ [Next]_sessionVars
<1> SUFFICES ASSUME ClientInv, [ClientNext]_vars PROVE ClientInv' /\ [Next]_sessionVars
  OBVIOUS
<1>1. SessionInv /\ Answered /\ TypeOK /\ Devicewise /\ failures \in 0..MaxFailures
  BY ClientParts DEF ClientInv, Devicewise
<1>2. [Next]_sessionVars
  BY <1>1, ServerView DEF vars
<1>3. SessionInv' /\ TypeOK'
  BY <1>1, <1>2, SessionSteps DEF SessionInv
<1>4. Answered' /\ issued \in Nat /\ issued' \in Nat /\ issued <= issued'
  BY <1>1, <1>2, AnsweredSteps
<1>5. failures' \in 0..MaxFailures
  BY <1>1, FaultsBounded DEF vars
<1>6. Devicewise'
  <2>1. CASE \E d \in Devices :
               Login(d) \/ Unlock(d) \/ UnlockOffline(d) \/ Begin(d) \/ Rotate(d)
    BY <1>1, <1>4, <2>1, BeginningSteps
  <2>2. CASE \E d \in Devices : Served(d) \/ NextRequest(d) \/ GiveUp(d) \/ Offline(d)
    BY <1>1, <1>4, <2>2, RequestSteps
  <2>3. CASE \E d \in Devices : Granted(d) \/ Refused(d) \/ Broken(d) \/ Lost(d)
    BY <1>1, <1>4, <2>3, AnswerSteps
  <2>4. CASE \E d \in Devices : Lock(d) \/ Kill(d) \/ Recover(d)
    BY <1>1, <1>4, <2>4, LockingSteps
  <2>5. CASE Stranger \/ Server \/ UNCHANGED vars
    BY <1>1, <1>4, <2>5, DevicesQuiet DEF Stranger, Server, vars
  <2> QED
    BY <2>1, <2>2, <2>3, <2>4, <2>5 DEF ClientNext, Work
<1>7. ClientTypeOK' /\ Held'
  BY <1>3, <1>5, <1>6, ClientParts DEF Devicewise, ClientTypeOK, DeviceTypes, DevicesSound
<1> QED
  BY <1>2, <1>3, <1>4, <1>7 DEF ClientInv

LEMMA ClientInvariant == ClientSpec => []ClientInv
<1>1. ClientInit => ClientInv
  <2> SUFFICES ASSUME ClientInit PROVE ClientInv
    OBVIOUS
  <2>1. Init /\ failures \in 0..MaxFailures
    BY SessionClientAssumption DEF ClientInit
  <2>2. SessionInv /\ TypeOK
    BY <2>1, InitialSessions DEF SessionInv
  <2> QED
    BY <2>1, <2>2, InitialDevices, InitialAnswers, ClientParts DEF ClientInv, Devicewise
<1> QED
  BY <1>1, ClientSteps, PTL DEF ClientSpec

\* The tokens in a device's memory and on its disk are of their types, a device
\* without a refresh token has no access token, and one with a token on disk
\* knows its account (apps/desktop-core/src/api.rs: refresh_session,
\* apps/desktop/src-tauri/src/lib.rs: persist_rotated_refresh_token).
THEOREM ClientTyped == ClientSpec => []ClientTypeOK
<1>1. ClientInv => ClientTypeOK
  BY DEF ClientInv
<1> QED
  BY <1>1, ClientInvariant, PTL

\* Whatever devices, strangers and faults do, the server runs its sessions as
\* Sessions has them: a device asks only for what the server's handlers expect,
\* with tokens that were given out.
THEOREM ClientImplementsSessions == ClientSpec => Spec
<1>1. ClientInit => Init
  BY DEF ClientInit
<1>2. ClientInv /\ [ClientNext]_vars => [Next]_sessionVars
  BY ClientSteps
<1> QED
  BY <1>1, <1>2, ClientInvariant, PTL DEF ClientSpec, Spec

\* So what is proved of the server holds with devices around it: no login
\* outlives its ceiling, a row that has a successor is revoked, and a family that
\* was revoked while no rotation of it was under way stays dead.
THEOREM SessionsOfDevices ==
  ClientSpec => [](LifetimeCapped /\ RenewedRetired /\ RevocationSticks)
BY ClientImplementsSessions, LifetimesCapped, RenewedTokensRetired, RevocationFinal, PTL

-----------------------------------------------------------------------------
(* What a step of the server does to the rows and rotations of a family. *)

Rotates(r) == request[r].stage \in {"retire", "renew"}

\* A row that was there is gone, or of the same family and window, and not
\* active again.
RowKept(t) ==
  \/ sessions'[t] = NoSession
  \/ /\ sessions[t] # NoSession
     /\ sessions'[t].family = sessions[t].family
     /\ sessions'[t].refresh_expires_at = sessions[t].refresh_expires_at
     /\ sessions[t].revoked => sessions'[t].revoked

\* A row outlives the rows of a window that closes earlier.
OutlivesKept(t, u) ==
  /\ sessions'[t] # NoSession /\ sessions[u] # NoSession
  /\ sessions[t].refresh_expires_at <= sessions[u].refresh_expires_at
  => sessions'[u] # NoSession

\* An active row that was not there is of a new family, or a rotation's.
RowBorn(p) ==
  ~sessions'[p].revoked =>
    \/ sessions'[p].family \notin Issued
    \/ \E q \in Requests : Renew(q) /\ sessions'[p].family = request[q].family

\* A rotation under way is an old one, or begins with an active row.
RotationBorn(q) ==
  Rotates(q)' =>
    \/ Rotates(q) /\ request'[q].family = request[q].family
    \/ \E t \in Issued : AcceptRefresh(q, t)

Ages ==
  /\ \A t \in Issued : RowKept(t)
  /\ \A t, u \in Issued : OutlivesKept(t, u)
  /\ \A p \in Tokens \ Issued : RowBorn(p)
  /\ \A q \in Requests : RotationBorn(q)

\* Rows that are not touched.
LEMMA RowsStay ==
  ASSUME SessionInv, sessions' = sessions
  PROVE  /\ \A t \in Issued : RowKept(t)
         /\ \A t, u \in Issued : OutlivesKept(t, u)
         /\ \A p \in Tokens \ Issued : RowBorn(p)
<1>1. \A p \in Tokens \ Issued : sessions[p].revoked
  BY DEF SessionInv, RowsKnown, Exists, NoSession
<1> QED
  BY <1>1 DEF RowKept, OutlivesKept, RowBorn

LEMMA RowsRevoked ==
  ASSUME SessionInv, NEW set, Revoke(set)
  PROVE  /\ \A t \in Issued : RowKept(t)
         /\ \A t, u \in Issued : OutlivesKept(t, u)
         /\ \A p \in Tokens \ Issued : RowBorn(p)
<1>1. sessions \in [Tokens -> Session \cup {NoSession}] /\ Issued \subseteq Tokens
  BY SessionsAssumption DEF SessionInv, TypeOK, Issued, Tokens
<1>2. ASSUME NEW t \in Tokens
      PROVE  /\ RowKept(t)
             /\ sessions[t] # NoSession => sessions'[t] # NoSession
             /\ sessions[t] = NoSession => sessions'[t] = NoSession
  <2>1. CASE t \in set /\ sessions[t] # NoSession
    <3>1. sessions'[t] = [sessions[t] EXCEPT !.revoked = TRUE] /\ sessions[t] \in Session
      BY <1>1, <2>1 DEF Revoke, Exists
    <3>2. sessions'[t] \in Session
      BY <3>1 DEF Session
    <3>3. sessions'[t] # NoSession
      BY <3>2, SessionsAssumption DEF Session, NoSession, Tokens
    <3> QED
      BY <2>1, <3>1, <3>3 DEF Session, RowKept
  <2>2. CASE ~(t \in set /\ sessions[t] # NoSession)
    BY <2>2 DEF Revoke, Exists, RowKept
  <2> QED
    BY <2>1, <2>2
<1>3. \A p \in Tokens \ Issued : sessions[p] = NoSession
  BY DEF SessionInv, RowsKnown, Exists
<1>4. \A p \in Tokens \ Issued : sessions'[p].revoked
  BY <1>2, <1>3 DEF NoSession
<1> QED
  BY <1>1, <1>2, <1>4 DEF OutlivesKept, RowBorn

LEMMA RowsPurged ==
  ASSUME SessionInv, NEW since \in Nat,
         sessions' = [t \in Tokens |-> IF sessions[t].refresh_expires_at < since
                                         THEN NoSession ELSE sessions[t]]
  PROVE  /\ \A t \in Issued : RowKept(t)
         /\ \A t, u \in Issued : OutlivesKept(t, u)
         /\ \A p \in Tokens \ Issued : RowBorn(p)
<1>1. sessions \in [Tokens -> Session \cup {NoSession}] /\ Issued \subseteq Tokens
  BY SessionsAssumption DEF SessionInv, TypeOK, Issued, Tokens
<1>2. \A t \in Tokens : sessions[t].refresh_expires_at \in Nat
  BY <1>1, RowFields
<1>3. \A t \in Tokens :
        /\ sessions[t].refresh_expires_at < since => sessions'[t] = NoSession
        /\ ~(sessions[t].refresh_expires_at < since) => sessions'[t] = sessions[t]
  OBVIOUS
<1>4. \A t \in Issued : RowKept(t)
  BY <1>1, <1>3 DEF RowKept
<1>5. \A t, u \in Issued : OutlivesKept(t, u)
  <2> SUFFICES ASSUME NEW t \in Issued, NEW u \in Issued,
                      sessions'[t] # NoSession, sessions[u] # NoSession,
                      sessions[t].refresh_expires_at <= sessions[u].refresh_expires_at
               PROVE  sessions'[u] # NoSession
    BY DEF OutlivesKept
  <2>1. ~(sessions[t].refresh_expires_at < since)
    BY <1>1, <1>3
  <2>2. ~(sessions[u].refresh_expires_at < since)
    BY <1>1, <1>2, <2>1
  <2> QED
    BY <1>1, <1>3, <2>2
<1>6. \A p \in Tokens \ Issued : sessions'[p].revoked
  BY <1>3 DEF SessionInv, RowsKnown, Exists, NoSession
<1> QED
  BY <1>4, <1>5, <1>6 DEF RowBorn

LEMMA RowInserted ==
  ASSUME SessionInv, NEW f \in Nat, NEW since \in Nat, NEW cap \in Nat,
         Insert(f, since, cap), f \in 1..(issued + 1),
         f \notin Issued \/ \E q \in Requests : Renew(q) /\ f = request[q].family
  PROVE  /\ \A t \in Issued : RowKept(t)
         /\ \A t, u \in Issued : OutlivesKept(t, u)
         /\ \A p \in Tokens \ Issued : RowBorn(p)
<1>1. /\ issued + 1 \in Tokens
      /\ \A t \in Tokens : t # issued + 1 => sessions'[t] = sessions[t]
      /\ sessions'[issued + 1].family = f
  BY InsertEffect
<1>2. /\ issued \in Nat /\ issued + 1 \notin Issued
      /\ Issued \subseteq Tokens
  BY SessionsAssumption DEF SessionInv, TypeOK, Issued, Tokens
<1>3. \A t \in Issued : sessions'[t] = sessions[t]
  BY <1>1, <1>2
<1>4. \A p \in Tokens \ Issued : p = issued + 1 \/ sessions'[p].revoked
  BY <1>1 DEF SessionInv, RowsKnown, Exists, NoSession
<1> QED
  BY <1>1, <1>3, <1>4 DEF RowKept, OutlivesKept, RowBorn

\* A step that changes one request, which comes into no rotation.
LEMMA NoRotationBorn ==
  ASSUME SessionInv, NEW r \in Requests, NEW x,
         request' = [request EXCEPT ![r] = x],
         x.stage \in {"retire", "renew"} => Rotates(r) /\ x.family = request[r].family
  PROVE  \A q \in Requests : RotationBorn(q)
<1>1. request'[r] = x /\ \A q \in Requests \ {r} : request'[q] = request[q]
  BY DEF SessionInv, TypeOK
<1>2. RotationBorn(r)
  BY <1>1 DEF RotationBorn, Rotates
<1>3. \A q \in Requests \ {r} : RotationBorn(q)
  BY <1>1 DEF RotationBorn, Rotates
<1> QED
  BY <1>2, <1>3

\* A handler that answers.
LEMMA AnswerBorn ==
  ASSUME SessionInv, NEW r \in Requests, NEW t, Answer(r, t)
  PROVE  \A q \in Requests : RotationBorn(q)
<1> DEFINE x == [Idle EXCEPT !.stage = "done", !.token = t]
<1>1. x.stage = "done"
  BY DEF Idle
<1>2. request' = [request EXCEPT ![r] = x]
  BY DEF Answer
<1> HIDE DEF x
<1> QED
  BY <1>1, <1>2, NoRotationBorn

LEMMA AskAges ==
  ASSUME SessionInv, NEW r \in Requests, Ask(r)
  PROVE  Ages
<1>1. sessions' = sessions
  BY DEF Ask, StartLogin, Refresh, MeetRetired, RefuseRefresh, AcceptRefresh,
         StartLogout, StartRevoke, StartOthers, Authenticate
<1>2. \A q \in Requests : RotationBorn(q)
  <2>1. ASSUME NEW x, request' = [request EXCEPT ![r] = x],
               x.stage \notin {"retire", "renew"}
        PROVE  \A q \in Requests : RotationBorn(q)
    BY <2>1, NoRotationBorn
  <2>2. CASE StartLogin(r)
    <3> DEFINE x == [Idle EXCEPT !.stage = "login", !.since = now]
    <3>1. x.stage = "login" /\ request' = [request EXCEPT ![r] = x]
      BY <2>2 DEF StartLogin, Idle
    <3> HIDE DEF x
    <3> QED
      BY <2>1, <3>1
  <2>3. ASSUME NEW t \in Issued, MeetRetired(r, t)
        PROVE  \A q \in Requests : RotationBorn(q)
    <3> DEFINE x == [Idle EXCEPT !.stage = "reuse", !.token = t,
                                 !.family = sessions[t].family]
    <3>1. x.stage = "reuse" /\ request' = [request EXCEPT ![r] = x]
      BY <2>3 DEF MeetRetired, Idle
    <3> HIDE DEF x
    <3> QED
      BY <2>1, <3>1
  <2>4. ASSUME NEW t \in Issued, RefuseRefresh(r, t)
        PROVE  \A q \in Requests : RotationBorn(q)
    BY <2>4, AnswerBorn DEF RefuseRefresh
  <2>5. ASSUME NEW t \in Issued, AcceptRefresh(r, t)
        PROVE  \A q \in Requests : RotationBorn(q)
    <3>1. \A q \in Requests \ {r} : request'[q] = request[q]
      BY <2>5 DEF AcceptRefresh, SessionInv, TypeOK
    <3> QED
      BY <2>5, <3>1 DEF RotationBorn, Rotates
  <2>6. ASSUME NEW t \in Issued, StartLogout(r, t) \/ StartRevoke(r, t) \/ StartOthers(r, t)
        PROVE  \A q \in Requests : RotationBorn(q)
    <3>1. PICK stage \in {"logout", "revoke", "others"}, g \in Issued :
            Authenticate(r, t, stage, sessions[g].family)
      BY <2>6 DEF StartLogout, StartRevoke, StartOthers
    <3> DEFINE x == [Idle EXCEPT !.stage = stage, !.token = t, !.family = sessions[g].family]
    <3>2. x.stage = stage /\ request' = [request EXCEPT ![r] = x]
      BY <3>1 DEF Authenticate, Idle
    <3> HIDE DEF x
    <3> QED
      BY <2>1, <3>2
  <2> QED
    BY <2>2, <2>3, <2>4, <2>5, <2>6 DEF Ask, Refresh
<1> QED
  BY <1>1, <1>2, RowsStay DEF Ages

LEMMA ServeAges ==
  ASSUME SessionInv, NEW r \in Requests, Serve(r)
  PROVE  Ages
<1> DEFINE Rows == /\ \A t \in Issued : RowKept(t)
                   /\ \A t, u \in Issued : OutlivesKept(t, u)
                   /\ \A p \in Tokens \ Issued : RowBorn(p)
           Rotations == \A q \in Requests : RotationBorn(q)
<1> SUFFICES Rows /\ Rotations
  BY DEF Ages
<1>1. request[r] \in RequestRecord /\ issued \in Nat
  BY SessionsAssumption DEF SessionInv, TypeOK, RequestRecord
<1>2. ASSUME NEW stage \in Stages, Move(r, stage), stage = "renew" => At(r, "retire"),
             stage # "retire"
      PROVE  Rotations
  <2> DEFINE x == [request[r] EXCEPT !.stage = stage]
  <2>1. x.stage = stage /\ x.family = request[r].family
    BY <1>1, MovedRecord
  <2>2. request' = [request EXCEPT ![r] = x]
    BY <1>2 DEF Move
  <2> HIDE DEF x
  <2> QED
    BY <1>2, <2>1, <2>2, NoRotationBorn DEF Rotates, At
<1>3. CASE PurgeExpired(r)
  <2>1. Rows
    <3>1. request[r].since \in Nat
      BY <1>1 DEF RequestRecord
    <3>2. CASE sessions' = sessions
      BY <3>2, RowsStay
    <3>3. CASE sessions' = [t \in Tokens |->
                 IF sessions[t].refresh_expires_at < request[r].since
                   THEN NoSession ELSE sessions[t]]
      BY <3>1, <3>3, RowsPurged
    <3> QED
      BY <1>3, <3>2, <3>3 DEF PurgeExpired
  <2>2. Rotations
    BY <1>2, <1>3 DEF PurgeExpired, Stages
  <2> QED
    BY <2>1, <2>2
<1>4. CASE OpenSession(r)
  <2>1. Insert(issued + 1, request[r].since, request[r].since + AbsoluteTTL)
        /\ Answer(r, issued + 1)
    BY <1>4 DEF OpenSession
  <2>2. /\ request[r].since \in Nat /\ request[r].since + AbsoluteTTL \in Nat
        /\ issued + 1 \in Nat /\ issued + 1 \in 1..(issued + 1) /\ issued + 1 \notin Issued
    BY <1>1, SessionsAssumption DEF RequestRecord, Issued
  <2> QED
    BY <2>1, <2>2, RowInserted, AnswerBorn
<1>5. CASE Renew(r)
  <2>1. Insert(request[r].family, request[r].since, request[r].cap)
        /\ Answer(r, issued + 1) /\ At(r, "renew")
    BY <1>5 DEF Renew
  <2>2. request[r].since \in Nat /\ request[r].cap \in Nat
    BY <1>1 DEF RequestRecord
  <2>3. request[r].family \in Nat /\ request[r].family \in 1..(issued + 1)
    BY <1>1, <2>1 DEF SessionInv, RotationsKnown, Issued
  <2> QED
    BY <1>5, <2>1, <2>2, <2>3, RowInserted, AnswerBorn
<1>6. CASE Retire(r)
  BY <1>2, <1>6, RowsRevoked DEF Retire, Stages
<1>7. CASE RevokeFamily(r) \/ Logout(r) \/ RevokeDevice(r) \/ RevokeOthers(r)
  <2>1. Answer(r, 0) /\ \E set : Revoke(set)
    BY <1>7 DEF RevokeFamily, Logout, RevokeDevice, RevokeOthers
  <2> QED
    BY <2>1, RowsRevoked, AnswerBorn
<1> QED
  BY <1>3, <1>4, <1>5, <1>6, <1>7 DEF Serve

LEMMA ServerAges ==
  ASSUME SessionInv, [Next]_sessionVars
  PROVE  Ages
<1>1. ASSUME NEW r \in Requests, Drop(r) \/ Release(r)
      PROVE  Ages
  <2>1. sessions' = sessions /\ request' = [request EXCEPT ![r] = Idle]
    BY <1>1 DEF Drop, Release
  <2>2. Idle.stage = "idle"
    BY DEF Idle
  <2> QED
    BY <2>1, <2>2, RowsStay, NoRotationBorn DEF Ages
<1>2. ASSUME UNCHANGED request
      PROVE  \A q \in Requests : RotationBorn(q)
  BY <1>2 DEF RotationBorn, Rotates
<1>3. CASE RevokeAll
  BY <1>2, <1>3, RowsRevoked DEF RevokeAll, Ages
<1>4. CASE Tick \/ UNCHANGED sessionVars
  BY <1>2, <1>4, RowsStay DEF Tick, sessionVars, Ages
<1> QED
  BY <1>1, <1>3, <1>4, AskAges, ServeAges DEF Next

-----------------------------------------------------------------------------
(* The line of tokens of a family. *)

\* A token of a family that is not suspected.
Trusted(t) == t # 0 /\ Exists(t) /\ sessions[t].family \notin suspect

\* No rotation of family f is under way but r's, and no row of it is active but t.
Alone(f, t, r) ==
  /\ \A q \in Requests \ {r} : request[q].family = f => ~Rotates(q)
  /\ \A p \in Tokens \ {t} : sessions[p].family = f => ~Active(p)

\* The newest token of its family, for all anybody knows.
Last(t) == Trusted(t) => Alone(sessions[t].family, t, NoRequest)

\* Token u came after t, and is kept at least as long.
SuccessorOf(t, u) ==
  /\ Exists(u) /\ sessions[u].family = sessions[t].family
  /\ sessions[t].refresh_expires_at <= sessions[u].refresh_expires_at

\* No rotation of family f begins, or it is suspected.
Steady(f) ==
  f # 0 /\ f \notin suspect' =>
    \A q \in Requests, t \in Issued : AcceptRefresh(q, t) => sessions[t].family # f

Wary == suspect \subseteq suspect'

LEMMA TrustedRow ==
  ASSUME SessionInv, NEW t \in 0..issued, Trusted(t)
  PROVE  /\ t \in Issued /\ t \in Tokens /\ FamilyOf(t) = sessions[t].family
         /\ sessions[t].family \in Issued /\ sessions[t].family # 0
         /\ sessions[t].refresh_expires_at \in Nat
<1>1. t \in Issued /\ t \in Tokens
  BY SessionsAssumption DEF SessionInv, TypeOK, Trusted, Issued, Tokens
<1>2. sessions[t].family \in Issued /\ sessions[t].refresh_expires_at \in Nat
  BY <1>1, RowFields DEF SessionInv, TypeOK, RowsKnown, Trusted
<1> QED
  BY <1>1, <1>2 DEF Issued, FamilyOf, Trusted

\* A trusted token has been trusted before.
LEMMA TrustedBefore ==
  ASSUME SessionInv, Ages, Wary, NEW t \in 0..issued, Trusted(t)'
  PROVE  /\ Trusted(t)
         /\ sessions'[t].family = sessions[t].family
         /\ sessions'[t].refresh_expires_at = sessions[t].refresh_expires_at
         /\ sessions[t].revoked => sessions'[t].revoked
<1>1. t \in Issued
  BY SessionsAssumption DEF SessionInv, TypeOK, Trusted, Issued
<1>2. RowKept(t) /\ sessions'[t] # NoSession
  BY <1>1 DEF Ages, Trusted, Exists
<1> QED
  BY <1>1, <1>2 DEF RowKept, Trusted, Exists, Wary

LEMMA AloneKept ==
  ASSUME SessionInv, Ages, NEW f \in Issued, NEW t, NEW r, Alone(f, t, r),
         f \notin suspect', Steady(f), r \in Requests => ~Renew(r)
  PROVE  Alone(f, t, r)'
<1>1. f # 0 /\ Issued \subseteq Tokens
  BY SessionsAssumption DEF SessionInv, TypeOK, Issued, Tokens
<1>2. ASSUME NEW q \in Requests \ {r}, request'[q].family = f, Rotates(q)'
      PROVE  FALSE
  <2>1. CASE Rotates(q) /\ request'[q].family = request[q].family
    BY <1>2, <2>1 DEF Alone
  <2>2. CASE \E p \in Issued : AcceptRefresh(q, p)
    <3>1. PICK p \in Issued : AcceptRefresh(q, p)
      BY <2>2
    <3>2. request'[q].family = sessions[p].family
      BY <3>1 DEF AcceptRefresh, SessionInv, TypeOK
    <3> QED
      BY <1>1, <1>2, <3>1, <3>2 DEF Steady
  <2> QED
    BY <1>2, <2>1, <2>2 DEF Ages, RotationBorn
<1>3. ASSUME NEW p \in Tokens \ {t}, sessions'[p].family = f, ~sessions'[p].revoked
      PROVE  FALSE
  <2>1. CASE p \in Issued
    <3>1. RowKept(p) /\ sessions'[p] # NoSession
      BY <1>3, <2>1 DEF Ages, NoSession
    <3> QED
      BY <1>3, <3>1 DEF RowKept, Alone, Active
  <2>2. CASE p \notin Issued
    <3>1. PICK q \in Requests : Renew(q) /\ request[q].family = f
      BY <1>3, <2>2 DEF Ages, RowBorn
    <3>2. Rotates(q)
      BY <3>1 DEF Renew, At, Rotates
    <3>3. q = r
      BY <3>1, <3>2 DEF Alone
    <3> QED
      BY <3>1, <3>3
  <2> QED
    BY <2>1, <2>2
<1> QED
  BY <1>2, <1>3 DEF Alone, Active

LEMMA LastKept ==
  ASSUME SessionInv, Ages, Wary, NEW t \in 0..issued, Last(t), Steady(FamilyOf(t))
  PROVE  Last(t)'
<1> SUFFICES ASSUME Trusted(t)' PROVE Alone(sessions[t].family, t, NoRequest)'
  BY DEF Last
<1>1. Trusted(t) /\ sessions'[t].family = sessions[t].family
  BY TrustedBefore
<1>2. sessions[t].family \in Issued /\ FamilyOf(t) = sessions[t].family
  BY <1>1, TrustedRow
<1>3. Alone(sessions[t].family, t, NoRequest)
  BY <1>1 DEF Last
<1>4. sessions[t].family \notin suspect'
  BY <1>1 DEF Trusted
<1> DEFINE f == sessions[t].family
<1>5. Alone(f, t, NoRequest)'
  <2>1. /\ \A q \in Requests \ {NoRequest} : request'[q].family = f => ~Rotates(q)'
        /\ \A p \in Tokens \ {t} : sessions'[p].family = f => sessions'[p].revoked
    <3> HIDE DEF f
    <3>1. f \in Issued /\ f \notin suspect' /\ Steady(f) /\ Alone(f, t, NoRequest)
      BY <1>2, <1>3, <1>4 DEF f
    <3>2. PICK g \in Issued : g = f
      BY <3>1
    <3> QED
      BY <3>1, SessionClientAssumption, AloneKept DEF Alone, Active
  <2> QED
    BY <1>1, <2>1 DEF Alone, Active
<1> QED
  BY <1>5

LEMMA SuccessorKept ==
  ASSUME SessionInv, Ages, Wary, NEW t \in 0..issued, NEW u \in 0..issued, u # 0,
         Trusted(t)', SuccessorOf(t, u)
  PROVE  SuccessorOf(t, u)'
<1>1. /\ Trusted(t)
      /\ sessions'[t].family = sessions[t].family
      /\ sessions'[t].refresh_expires_at = sessions[t].refresh_expires_at
  BY TrustedBefore
<1>2. t \in Issued
  BY <1>1, TrustedRow
<1>3. u \in Issued
  BY SessionsAssumption DEF SessionInv, TypeOK, Issued
<1>4. sessions'[u] # NoSession
  BY <1>2, <1>3 DEF Ages, OutlivesKept, SuccessorOf, Trusted, Exists
<1>5. RowKept(u)
  BY <1>3 DEF Ages
<1> QED
  BY <1>1, <1>4, <1>5 DEF RowKept, SuccessorOf, Exists

-----------------------------------------------------------------------------
(* The line of tokens that a device holds: a in memory, s on disk. *)

\* A rotation of a is under way at request r: the successor comes with family f
\* and a window that closes at limit.
Turning(f, limit, r, a, s) ==
  /\ f \notin suspect => Alone(f, a, r)
  /\ \A t \in {a, s} : Trusted(t) =>
       sessions[t].family = f /\ sessions[t].refresh_expires_at <= limit

\* A refresh of a is answered with u: a successor, or nothing.
Renewed(u, a, s) ==
  /\ u = 0 => Last(a)
  /\ u # 0 => Last(u) /\ \A t \in {a, s} : Trusted(t) => SuccessorOf(t, u)

\* What a device waits for at its request r: the end of a login,
LoginAt(r) ==
  /\ request[r].stage \in {"login", "open", "done"}
  /\ At(r, "done") => \A u \in {request[r].token} : Last(u)

\* or of the refresh of the token in memory.
RefreshAt(r, a, s) ==
  /\ request[r].stage \in {"reuse", "retire", "renew", "done"}
  /\ At(r, "reuse") => Last(a)
  /\ Rotates(r) =>
       /\ request[r].token = a
       /\ \A f \in {request[r].family}, limit \in {request[r].since + RefreshTTL} :
            Turning(f, limit, r, a, s)
  /\ At(r, "done") => \A u \in {request[r].token} : Renewed(u, a, s)

\* With nothing in memory the disk has the newest token of its family, otherwise
\* memory has it; the disk is behind memory only while a command runs.
Resting(a, s, busy) ==
  /\ a = 0 => Last(s)
  /\ a # 0 => Last(a)
  /\ a \notin {0, s} /\ Trusted(s) => busy /\ SuccessorOf(s, a)

\* The same for a device that waits at request r.
AtWork(r, a, s, login) ==
  /\ login => a = 0 /\ Last(s) /\ LoginAt(r)
  /\ ~login =>
       /\ a # 0
       /\ a # s /\ Trusted(s) => SuccessorOf(s, a)
       /\ RefreshAt(r, a, s)

Line(d) ==
  \A a \in {refresh[d]}, s \in {stored[d]}, c \in {call[d]}, r \in {slot[d]} :
    /\ r = NoRequest => Resting(a, s, c # "none")
    /\ r # NoRequest => AtWork(r, a, s, c = "login")
    /\ c = "login" \/ (~session[d] /\ c = "none") => a = 0

\* The families of the tokens that the device has, or is about to get.
Handed(r) ==
  {f \in {request[r].family} : Rotates(r)} \cup
  {FamilyOf(u) : u \in {v \in {request[r].token} : At(r, "done")}}

FamiliesOf(d) ==
  {FamilyOf(t) : t \in {refresh[d], stored[d]}} \cup
  UNION {Handed(r) : r \in {slot[d]} \ {NoRequest}}

LEMMA TurningKept ==
  ASSUME SessionInv, Ages, Wary, NEW f \in Issued, NEW limit, NEW r \in Requests,
         NEW a \in 0..issued, NEW s \in 0..issued,
         Turning(f, limit, r, a, s), Steady(f), ~Renew(r)
  PROVE  Turning(f, limit, r, a, s)'
<1>1. ASSUME f \notin suspect'
      PROVE  Alone(f, a, r)'
  BY <1>1, AloneKept DEF Turning, Wary
<1>2. ASSUME NEW t \in {a, s}, Trusted(t)'
      PROVE  sessions'[t].family = f /\ sessions'[t].refresh_expires_at <= limit
  BY <1>2, TrustedBefore DEF Turning
<1> QED
  BY <1>1, <1>2 DEF Turning

LEMMA RenewedKept ==
  ASSUME SessionInv, Ages, Wary, NEW u \in 0..issued,
         NEW a \in 0..issued, NEW s \in 0..issued,
         Renewed(u, a, s), Steady(FamilyOf(u)), Steady(FamilyOf(a))
  PROVE  Renewed(u, a, s)'
<1>1. ASSUME u = 0
      PROVE  Last(a)'
  BY <1>1, LastKept DEF Renewed
<1>2. ASSUME u # 0
      PROVE  Last(u)'
  BY <1>2, LastKept DEF Renewed
<1>3. ASSUME u # 0, NEW t \in {a, s}, Trusted(t)'
      PROVE  SuccessorOf(t, u)'
  <2>1. t \in 0..issued /\ Trusted(t)
    BY <1>3, TrustedBefore
  <2> QED
    BY <1>3, <2>1, SuccessorKept DEF Renewed
<1> QED
  BY <1>1, <1>2, <1>3 DEF Renewed

\* The families that a device has to do with at its request.
LEMMA HandedFamilies ==
  ASSUME SessionInv, Answered, NEW r \in Requests
  PROVE  /\ Rotates(r) => request[r].family \in Issued /\ request[r].family \in Handed(r)
         /\ At(r, "done") => /\ request[r].token \in 0..issued
                             /\ FamilyOf(request[r].token) \in Handed(r)
  BY DEF SessionInv, RotationsKnown, Answered, Rotates, At, Handed

LEMMA RefreshAtKept ==
  ASSUME SessionInv, Answered, Ages, Wary, NEW r \in Requests,
         NEW a \in 0..issued, NEW s \in 0..issued, RefreshAt(r, a, s),
         request'[r] = request[r], Steady(FamilyOf(a)), \A f \in Handed(r) : Steady(f)
  PROVE  RefreshAt(r, a, s)'
<1>1. (At(r, "reuse") <=> At(r, "reuse")') /\ (At(r, "done") <=> At(r, "done")')
      /\ (Rotates(r) <=> Rotates(r)')
  BY DEF At, Rotates
<1>2. At(r, "reuse") => Last(a)'
  BY LastKept DEF RefreshAt
<1>3. ASSUME Rotates(r), NEW f \in {request[r].family},
             NEW limit \in {request[r].since + RefreshTTL}
      PROVE  Turning(f, limit, r, a, s)'
  <2>1. f \in Issued /\ Steady(f)
    BY <1>3, HandedFamilies
  <2>2. ~Renew(r)
    <3> SUFFICES ASSUME Renew(r) PROVE FALSE
      OBVIOUS
    <3>1. request'[r].stage = "done"
      BY DEF Renew, Answer, Idle, SessionInv, TypeOK
    <3> QED
      BY <1>3, <3>1 DEF Rotates
  <2>3. Turning(f, limit, r, a, s)
    BY <1>3 DEF RefreshAt
  <2> QED
    BY <2>1, <2>2, <2>3, TurningKept
<1>4. ASSUME At(r, "done"), NEW u \in {request[r].token}
      PROVE  Renewed(u, a, s)'
  <2>1. u \in 0..issued /\ Steady(FamilyOf(u))
    BY <1>4, HandedFamilies
  <2>2. Renewed(u, a, s)
    BY <1>4 DEF RefreshAt
  <2> QED
    BY <2>1, <2>2, RenewedKept
<1> QED
  BY <1>1, <1>2, <1>3, <1>4 DEF RefreshAt

LEMMA LoginAtKept ==
  ASSUME SessionInv, Answered, Ages, Wary, NEW r \in Requests, LoginAt(r),
         request'[r] = request[r], \A f \in Handed(r) : Steady(f)
  PROVE  LoginAt(r)'
<1>1. At(r, "done") <=> At(r, "done")'
  BY DEF At
<1>2. ASSUME At(r, "done"), NEW u \in {request[r].token}
      PROVE  Last(u)'
  BY <1>2, HandedFamilies, LastKept DEF LoginAt
<1> QED
  BY <1>1, <1>2 DEF LoginAt

\* The tokens of a device that does nothing.
LEMMA RestingKept ==
  ASSUME SessionInv, Ages, Wary, NEW a \in 0..issued, NEW s \in 0..issued, NEW busy,
         Resting(a, s, busy), Steady(FamilyOf(a)), Steady(FamilyOf(s))
  PROVE  Resting(a, s, busy)'
<1>1. /\ a = 0 => Last(s)'
      /\ a # 0 => Last(a)'
  BY LastKept DEF Resting
<1>2. ASSUME a \notin {0, s}, Trusted(s)'
      PROVE  busy /\ SuccessorOf(s, a)'
  BY <1>2, TrustedBefore, SuccessorKept DEF Resting
<1> QED
  BY <1>1, <1>2 DEF Resting

LEMMA AtWorkKept ==
  ASSUME SessionInv, Answered, Ages, Wary, NEW r \in Requests,
         NEW a \in 0..issued, NEW s \in 0..issued, NEW login, AtWork(r, a, s, login),
         request'[r] = request[r], Steady(FamilyOf(a)), Steady(FamilyOf(s)),
         \A f \in Handed(r) : Steady(f)
  PROVE  AtWork(r, a, s, login)'
<1>1. login => Last(s)' /\ LoginAt(r)'
  BY LastKept, LoginAtKept DEF AtWork
<1>2. ASSUME ~login
      PROVE  RefreshAt(r, a, s)'
  BY <1>2, RefreshAtKept DEF AtWork
<1>3. ASSUME ~login, a # s, Trusted(s)'
      PROVE  SuccessorOf(s, a)'
  BY <1>3, TrustedBefore, SuccessorKept DEF AtWork
<1> QED
  BY <1>1, <1>2, <1>3 DEF AtWork

\* A step that leaves a device and its request alone keeps its line.
LEMMA LineKept ==
  ASSUME SessionInv, Answered, Devicewise, Ages, Wary, NEW d \in Devices, Line(d),
         Keeps(d), Waiting(d) => request'[slot[d]] = request[slot[d]],
         \A f \in FamiliesOf(d) : Steady(f)
  PROVE  Line(d)'
<1> SUFFICES ASSUME NEW a \in {refresh'[d]}, NEW s \in {stored'[d]},
                    NEW c \in {call'[d]}, NEW r \in {slot'[d]}
             PROVE  /\ r = NoRequest => Resting(a, s, c # "none")'
                    /\ r # NoRequest => AtWork(r, a, s, c = "login")'
                    /\ c = "login" \/ (~session'[d] /\ c = "none") => a = 0
  BY DEF Line
<1>1. /\ a = refresh[d] /\ s = stored[d] /\ c = call[d] /\ r = slot[d]
      /\ session'[d] = session[d]
  BY DEF Keeps
<1>2. /\ r = NoRequest => Resting(a, s, c # "none")
      /\ r # NoRequest => AtWork(r, a, s, c = "login")
      /\ c = "login" \/ (~session[d] /\ c = "none") => a = 0
  BY <1>1 DEF Line
<1>3. /\ a \in 0..issued /\ s \in 0..issued
      /\ r # NoRequest => r \in Requests /\ Waiting(d)
  BY <1>1 DEF Devicewise, DeviceTypes, Held, Waiting
<1>4. /\ Steady(FamilyOf(a)) /\ Steady(FamilyOf(s))
      /\ r # NoRequest => \A f \in Handed(r) : Steady(f)
  BY <1>1 DEF FamiliesOf
<1>5. CASE r = NoRequest
  BY <1>1, <1>2, <1>3, <1>4, <1>5, RestingKept
<1>6. CASE r # NoRequest
  <2>1. request'[r] = request[r]
    BY <1>1, <1>3, <1>6
  <2> QED
    BY <1>1, <1>2, <1>3, <1>4, <1>6, <2>1, AtWorkKept
<1> QED
  BY <1>5, <1>6

-----------------------------------------------------------------------------
(* The server works on the request that a device waits for. *)

\* The handler of a request begins no rotation.
LEMMA ServeSteady ==
  ASSUME SessionInv, NEW r \in Requests, Serve(r), NEW f
  PROVE  Steady(f)
<1>1. ASSUME NEW q \in Requests, NEW t \in Issued, AcceptRefresh(q, t)
      PROVE  FALSE
  <2>1. request[q].stage = "idle" /\ request'[q].stage = "retire"
    BY <1>1 DEF AcceptRefresh, At, SessionInv, TypeOK
  <2>2. request[r].stage # "idle" /\ \E x : request' = [request EXCEPT ![r] = x]
    BY DEF Serve, At, PurgeExpired, OpenSession, RevokeFamily, Retire, Renew, Logout,
           RevokeDevice, RevokeOthers, Move, Answer
  <2>3. request'[q] = request[q]
    BY <2>1, <2>2 DEF SessionInv, TypeOK
  <2> QED
    BY <2>1, <2>3
<1> QED
  BY <1>1 DEF Steady

LEMMA LoginServed ==
  ASSUME SessionInv, Answered, Ages, NEW r \in Requests, LoginAt(r), Serve(r), Wary
  PROVE  LoginAt(r)'
<1>1. request \in [Requests -> RequestRecord] /\ issued \in Nat
  BY SessionsAssumption DEF SessionInv, TypeOK, RequestRecord
<1>2. CASE PurgeExpired(r)
  BY <1>1, <1>2 DEF PurgeExpired, Move, RequestRecord, LoginAt, At
<1>3. CASE OpenSession(r)
  <2> DEFINE n == issued + 1
  <2>1. request' = [request EXCEPT ![r] = [Idle EXCEPT !.stage = "done", !.token = n]]
    BY <1>3 DEF OpenSession, Answer
  <2>2. request'[r].stage = "done" /\ request'[r].token = n
    BY <1>1, <2>1 DEF Idle
  <2>3. /\ Insert(n, request[r].since, request[r].since + AbsoluteTTL)
        /\ n \in Nat /\ n \in 1..(issued + 1)
        /\ request[r].since \in Nat /\ request[r].since + AbsoluteTTL \in Nat
    BY <1>1, <1>3, SessionsAssumption DEF OpenSession, RequestRecord
  <2>4. /\ n \in Tokens
        /\ \A t \in Tokens : t # n => sessions'[t] = sessions[t]
        /\ sessions'[n].family = n
    BY <2>3, InsertEffect
  <2>5. n \notin Issued
    BY <1>1 DEF Issued
  <2>6. ASSUME NEW q \in Requests, request'[q].family = n
        PROVE  ~Rotates(q)'
    <3>1. CASE q = r
      BY <2>2, <3>1 DEF Rotates
    <3>2. CASE q # r
      <4>1. request'[q] = request[q]
        BY <1>1, <2>1, <3>2
      <4> QED
        BY <2>5, <2>6, <4>1 DEF SessionInv, RotationsKnown, Rotates, At
    <3> QED
      BY <3>1, <3>2
  <2>7. ASSUME NEW p \in Tokens \ {n}, sessions'[p].family = n
        PROVE  sessions'[p].revoked
    BY <2>4, <2>5, <2>7 DEF SessionInv, RowsKnown, Exists, NoSession
  <2>8. ASSUME NEW u \in {request'[r].token}
        PROVE  Last(u)'
    <3>1. u = n
      BY <2>2, <2>8
    <3>2. sessions'[u].family = n
      BY <2>4, <3>1
    <3> QED
      BY <2>6, <2>7, <3>1, <3>2 DEF Last, Alone, Active
  <2> QED
    BY <2>2, <2>8 DEF LoginAt
<1> QED
  BY <1>2, <1>3 DEF Serve, LoginAt, At, RevokeFamily, Retire, Renew, Logout,
     RevokeDevice, RevokeOthers

LEMMA RefreshServed ==
  ASSUME SessionInv, Answered, Ages, Wary, NEW r \in Requests,
         NEW a \in 0..issued, NEW s \in 0..issued, RefreshAt(r, a, s), Serve(r)
  PROVE  RefreshAt(r, a, s)'
<1>1. request \in [Requests -> RequestRecord] /\ issued \in Nat
  BY SessionsAssumption DEF SessionInv, TypeOK, RequestRecord
<1>2. \A f \in Nat : Steady(f)
  BY ServeSteady
<1>3. \A t \in 0..issued : FamilyOf(t) \in Nat
  <2>1. \A t \in Tokens : sessions[t].family \in 0..MaxTokens
    BY RowFields DEF SessionInv, TypeOK
  <2>2. \A t \in 0..issued : t = 0 \/ t \in Tokens
    BY SessionsAssumption DEF SessionInv, TypeOK, Tokens
  <2> QED
    BY <2>1, <2>2 DEF FamilyOf
<1>4. CASE RevokeFamily(r)
  <2>1. At(r, "reuse") /\ request'[r].stage = "done" /\ request'[r].token = 0
    BY <1>1, <1>4 DEF RevokeFamily, Answer, Idle
  <2>2. Last(a)'
    BY <1>2, <1>3, <2>1, LastKept DEF RefreshAt
  <2> QED
    BY <2>1, <2>2 DEF RefreshAt, Renewed, At, Rotates
<1>5. CASE Retire(r)
  <2>1. /\ At(r, "retire") /\ request'[r].stage = "renew"
        /\ request'[r].token = request[r].token /\ request'[r].family = request[r].family
        /\ request'[r].since = request[r].since
    BY <1>1, <1>5 DEF Retire, Move, RequestRecord
  <2>2. ASSUME NEW f \in {request[r].family},
               NEW limit \in {request[r].since + RefreshTTL}
        PROVE  Turning(f, limit, r, a, s)'
    <3>1. f \in Issued /\ f \in Nat
      BY <2>1, HandedFamilies DEF Rotates, At, Issued
    <3>2. ~Renew(r)
      BY <2>1 DEF Renew, At
    <3>3. Turning(f, limit, r, a, s)
      BY <2>1, <2>2 DEF RefreshAt, Rotates, At
    <3> QED
      BY <1>2, <3>1, <3>2, <3>3, TurningKept
  <2>3. request[r].token = a
    BY <2>1 DEF RefreshAt, Rotates, At
  <2> QED
    BY <2>1, <2>2, <2>3 DEF RefreshAt, At, Rotates
<1>6. CASE Renew(r)
  <2>0. PICK n \in Nat, f \in Nat, limit \in Nat :
          n = issued + 1 /\ f = request[r].family /\ limit = request[r].since + RefreshTTL
    <3>1. /\ issued + 1 \in Nat
          /\ request[r].family \in Nat
          /\ request[r].since + RefreshTTL \in Nat
      BY <1>1, SessionsAssumption DEF RequestRecord
    <3> QED
      BY <3>1, Zenon
  <2>1. /\ At(r, "renew")
        /\ request' = [request EXCEPT ![r] = [Idle EXCEPT !.stage = "done", !.token = n]]
        /\ Insert(f, request[r].since, request[r].cap)
    BY <1>6, <2>0 DEF Renew, Answer
  <2>2. request'[r].stage = "done" /\ request'[r].token = n
    BY <1>1, <2>1 DEF Idle
  <2>3. f \in Issued /\ f \in Nat /\ f \in 1..(issued + 1)
    BY <1>1, <2>0, <2>1, HandedFamilies DEF Rotates, At, Issued
  <2>4. request[r].since \in Nat /\ request[r].cap \in Nat
    BY <1>1 DEF RequestRecord
  <2>5. /\ n \in Tokens
        /\ \A t \in Tokens : t # n => sessions'[t] = sessions[t]
        /\ sessions'[n].family = f
        /\ ~sessions'[n].revoked
    BY <2>0, <2>1, <2>3, <2>4, InsertEffect
  <2>6. sessions'[n].refresh_expires_at = limit
    BY <2>0, <2>1, <2>5 DEF Insert, SessionInv, TypeOK
  <2>7. /\ request[r].token = a /\ sessions[a].revoked
        /\ Turning(f, limit, r, a, s)
    BY <2>0, <2>1 DEF RefreshAt, Rotates, At, SessionInv, RetiredFirst
  <2>8. n # 0
    BY <1>1, <2>0
  <2>9. sessions'[n] # NoSession
    BY <2>5 DEF NoSession
  <2>10. ASSUME f \notin suspect'
         PROVE  /\ \A q \in Requests : request'[q].family = f => ~Rotates(q)'
                /\ \A p \in Tokens \ {n} : sessions'[p].family = f => sessions'[p].revoked
    <3>1. Alone(f, a, r)
      BY <2>7, <2>10 DEF Turning, Wary
    <3>2. ASSUME NEW q \in Requests, request'[q].family = f
          PROVE  ~Rotates(q)'
      <4>1. CASE q = r
        BY <2>2, <4>1 DEF Rotates
      <4>2. CASE q # r
        <5>1. request'[q] = request[q]
          BY <1>1, <2>1, <4>2
        <5> QED
          BY <3>1, <3>2, <4>2, <5>1 DEF Alone, Rotates
      <4> QED
        BY <4>1, <4>2
    <3>3. ASSUME NEW p \in Tokens \ {n}, sessions'[p].family = f
          PROVE  sessions'[p].revoked
      BY <2>5, <2>7, <3>1, <3>3 DEF Alone, Active
    <3> QED
      BY <3>2, <3>3
  <2>11. Last(n)'
    BY <2>5, <2>10 DEF Last, Trusted, Alone, Active
  <2>12. ASSUME NEW t \in {a, s}, Trusted(t)'
         PROVE  /\ sessions'[t].family = f
                /\ sessions'[t].refresh_expires_at <= limit
    <3>1. /\ Trusted(t)
          /\ sessions'[t].family = sessions[t].family
          /\ sessions'[t].refresh_expires_at = sessions[t].refresh_expires_at
      BY <2>12, TrustedBefore
    <3> QED
      BY <2>7, <2>12, <3>1 DEF Turning
  <2>13. \A t \in {a, s} : Trusted(t)' => SuccessorOf(t, n)'
    BY <2>5, <2>6, <2>9, <2>12 DEF SuccessorOf, Exists
  <2>14. Renewed(n, a, s)'
    BY <2>8, <2>11, <2>13 DEF Renewed
  <2> QED
    BY <2>2, <2>14 DEF RefreshAt, At, Rotates
<1> QED
  BY <1>4, <1>5, <1>6 DEF Serve, RefreshAt, At, PurgeExpired, OpenSession, Logout,
     RevokeDevice, RevokeOthers

-----------------------------------------------------------------------------
(* A device moves. *)

AllSteady == \A t \in 0..issued : Steady(FamilyOf(t))

Doubted(t) == FamilyOf(t) \in suspect' \cup {0}

LEMMA OthersSteady ==
  ASSUME SessionInv,
         \/ UNCHANGED sessionVars
         \/ \E r \in Requests : StartLogin(r) \/ Drop(r) \/ Release(r)
  PROVE  AllSteady
<1>1. ASSUME NEW q \in Requests, NEW t \in Issued, AcceptRefresh(q, t)
      PROVE  FALSE
  <2>1. request[q].stage = "idle" /\ request'[q].stage = "retire"
    BY <1>1 DEF AcceptRefresh, At, SessionInv, TypeOK
  <2>2. CASE UNCHANGED sessionVars
    BY <2>1, <2>2 DEF sessionVars
  <2>3. ASSUME NEW r \in Requests, StartLogin(r) \/ Drop(r) \/ Release(r)
        PROVE  FALSE
    <3> DEFINE x == [Idle EXCEPT !.stage = "login", !.since = now]
    <3>1. x.stage # "retire" /\ Idle.stage # "retire"
      BY DEF Idle
    <3>2. request' = [request EXCEPT ![r] = x] \/ request' = [request EXCEPT ![r] = Idle]
      BY <2>3 DEF StartLogin, Drop, Release
    <3> HIDE DEF x
    <3>3. request'[r].stage # "retire" /\ \A p \in Requests \ {r} : request'[p] = request[p]
      BY <3>1, <3>2 DEF SessionInv, TypeOK
    <3> QED
      BY <2>1, <3>3
  <2> QED
    BY <2>2, <2>3
<1> QED
  BY <1>1 DEF AllSteady, Steady

LEMMA DoubtedToken ==
  ASSUME SessionInv, Ages, Wary, NEW t \in 0..issued, Doubted(t)
  PROVE  ~Trusted(t)'
<1> SUFFICES ASSUME Trusted(t)' PROVE FALSE
  OBVIOUS
<1>1. Trusted(t) /\ sessions'[t].family = sessions[t].family
  BY TrustedBefore
<1>2. FamilyOf(t) = sessions[t].family /\ sessions[t].family # 0
  BY <1>1, TrustedRow
<1> QED
  BY <1>1, <1>2 DEF Doubted, Trusted

LEMMA DoubtedLine ==
  ASSUME SessionInv, Ages, Wary, NEW s \in 0..issued, NEW a \in 0..issued, a # 0,
         Trusted(s) => SuccessorOf(s, a), Doubted(a)
  PROVE  ~Trusted(s)'
<1> SUFFICES ASSUME Trusted(s)' PROVE FALSE
  OBVIOUS
<1>1. Trusted(s) /\ SuccessorOf(s, a)
  BY TrustedBefore
<1>2. FamilyOf(s) = FamilyOf(a)
  BY <1>1 DEF Trusted, SuccessorOf, FamilyOf
<1> QED
  BY <1>2, DoubtedToken DEF Doubted

LEMMA NoToken == ~Trusted(0) /\ Last(0)
BY DEF Trusted, Last

\* What a command leaves behind, when it has come to rest.
LEMMA RestKept ==
  ASSUME SessionInv, Ages, Wary, AllSteady, NEW a \in 0..issued, NEW s \in 0..issued,
         NEW busy, NEW late, Resting(a, s, busy), busy => late \/ a \in {0, s} \/ Doubted(a)
  PROVE  Resting(a, s, late)'
<1>1. /\ a = 0 => Last(s)'
      /\ a # 0 => Last(a)'
  BY LastKept DEF Resting, AllSteady
<1>2. ASSUME a \notin {0, s}, Trusted(s)'
      PROVE  late /\ SuccessorOf(s, a)'
  <2>1. Trusted(s) /\ busy /\ SuccessorOf(s, a)
    BY <1>2, TrustedBefore DEF Resting
  <2>2. late
    BY <1>2, <2>1, DoubtedLine
  <2> QED
    BY <1>2, <2>1, <2>2, SuccessorKept
<1> QED
  BY <1>1, <1>2 DEF Resting

LEMMA RestWritten ==
  ASSUME SessionInv, Ages, Wary, AllSteady, NEW a \in 0..issued, a # 0, Last(a), NEW late
  PROVE  Resting(a, a, late)'
BY LastKept DEF Resting, AllSteady

LEMMA RestForgotten ==
  ASSUME SessionInv, Ages, Wary, AllSteady, NEW a \in 0..issued, NEW s \in 0..issued,
         NEW busy, NEW late, Resting(a, s, busy), busy => a \in {0, s} \/ Doubted(a)
  PROVE  Resting(0, s, late)'
<1>1. Last(s)'
  <2>1. CASE a \in {0, s}
    BY <2>1, LastKept DEF Resting, AllSteady
  <2>2. CASE a \notin {0, s}
    <3>1. ~Trusted(s)'
      BY <2>2, TrustedBefore, DoubtedLine DEF Resting
    <3> QED
      BY <3>1 DEF Last
  <2> QED
    BY <2>1, <2>2
<1> QED
  BY <1>1 DEF Resting

LEMMA WorkForgotten ==
  ASSUME SessionInv, Ages, Wary, AllSteady, NEW a \in 0..issued, NEW s \in 0..issued,
         NEW r, NEW login, NEW late, AtWork(r, a, s, login),
         ~login => \/ Doubted(a)
                   \/ Last(a) /\ (a = s \/ Doubted(a))
  PROVE  Resting(0, s, late)'
<1>1. Last(s)'
  <2>1. CASE login
    BY <2>1, LastKept DEF AtWork, AllSteady
  <2>2. CASE ~login /\ a = s
    BY <2>2, LastKept, DoubtedToken DEF Last, AllSteady
  <2>3. CASE ~login /\ a # s
    <3>1. ~Trusted(s)'
      BY <2>3, DoubtedLine DEF AtWork
    <3> QED
      BY <3>1 DEF Last
  <2> QED
    BY <2>1, <2>2, <2>3
<1> QED
  BY <1>1 DEF Resting

LEMMA WorkLost ==
  ASSUME SessionInv, Ages, Wary, AllSteady, NEW a \in 0..issued, NEW s \in 0..issued,
         NEW r, NEW login, NEW late, AtWork(r, a, s, login), ~login => Doubted(a)
  PROVE  Resting(a, s, late)'
<1>1. CASE login
  BY <1>1, LastKept DEF AtWork, Resting, AllSteady
<1>2. CASE ~login
  <2>1. a # 0 /\ ~Trusted(a)'
    BY <1>2, DoubtedToken DEF AtWork
  <2>2. a # s => ~Trusted(s)'
    BY <1>2, <2>1, DoubtedLine DEF AtWork
  <2> QED
    BY <2>1, <2>2 DEF Resting, Last
<1> QED
  BY <1>1, <1>2

LEMMA LineAtRest ==
  ASSUME NEW d, NEW a, NEW s, NEW busy,
         refresh'[d] = a, stored'[d] = s, slot'[d] = NoRequest,
         busy <=> call'[d] # "none", Resting(a, s, busy)',
         call'[d] = "login" \/ (~session'[d] /\ call'[d] = "none") => a = 0
  PROVE  Line(d)'
<1> SUFFICES ASSUME NEW b \in {refresh'[d]}, NEW t \in {stored'[d]},
                    NEW c \in {call'[d]}, NEW r \in {slot'[d]}
             PROVE  /\ r = NoRequest => Resting(b, t, c # "none")'
                    /\ r # NoRequest => AtWork(r, b, t, c = "login")'
                    /\ c = "login" \/ (~session'[d] /\ c = "none") => b = 0
  BY DEF Line
<1>1. b = a /\ t = s /\ r = NoRequest
  OBVIOUS
<1> QED
  BY <1>1 DEF Resting

LEMMA LineAtWork ==
  ASSUME NEW d, NEW a, NEW s, NEW q \in Requests, NEW login,
         refresh'[d] = a, stored'[d] = s, slot'[d] = q,
         login <=> call'[d] = "login", call'[d] # "none", AtWork(q, a, s, login)'
  PROVE  Line(d)'
<1> SUFFICES ASSUME NEW b \in {refresh'[d]}, NEW t \in {stored'[d]},
                    NEW c \in {call'[d]}, NEW r \in {slot'[d]}
             PROVE  /\ r = NoRequest => Resting(b, t, c # "none")'
                    /\ r # NoRequest => AtWork(r, b, t, c = "login")'
                    /\ c = "login" \/ (~session'[d] /\ c = "none") => b = 0
  BY DEF Line
<1>1. b = a /\ t = s /\ r = q /\ r # NoRequest
  BY SessionClientAssumption
<1> QED
  BY <1>1 DEF AtWork

LEMMA LineParts ==
  ASSUME Devicewise, NEW d \in Devices, Line(d)
  PROVE  \E a \in 0..issued, s \in 0..issued :
           /\ a = refresh[d] /\ s = stored[d]
           /\ ~Waiting(d) => Resting(a, s, call[d] # "none")
           /\ Waiting(d) => slot[d] \in Requests /\ AtWork(slot[d], a, s, call[d] = "login")
           /\ call[d] = "login" \/ (~session[d] /\ call[d] = "none") => a = 0
<1>1. refresh[d] \in 0..issued /\ stored[d] \in 0..issued
  BY DEF Devicewise, Held
<1>2. PICK a \in 0..issued, s \in 0..issued : a = refresh[d] /\ s = stored[d]
  BY <1>1
<1>3. /\ ~Waiting(d) => Resting(a, s, call[d] # "none")
      /\ Waiting(d) => slot[d] \in Requests /\ AtWork(slot[d], a, s, call[d] = "login")
      /\ call[d] = "login" \/ (~session[d] /\ call[d] = "none") => a = 0
  BY <1>2 DEF Line, Waiting, Devicewise, DeviceTypes
<1> QED
  BY <1>2, <1>3

\* Steps that the server does not see.
LEMMA LocalLine ==
  ASSUME SessionInv, Devicewise, Ages, Wary, UNCHANGED sessionVars,
         NEW d \in Devices, Line(d),
         \/ UnlockOffline(d) \/ Begin(d) \/ Served(d) \/ NextRequest(d) \/ GiveUp(d)
         \/ Offline(d) \/ Lost(d) \/ Lock(d) \/ Kill(d)
  PROVE  Line(d)'
<1> PICK a \in 0..issued, s \in 0..issued :
           /\ a = refresh[d] /\ s = stored[d]
           /\ ~Waiting(d) => Resting(a, s, call[d] # "none")
           /\ Waiting(d) => slot[d] \in Requests /\ AtWork(slot[d], a, s, call[d] = "login")
           /\ call[d] = "login" \/ (~session[d] /\ call[d] = "none") => a = 0
  BY LineParts
<1>1. AllSteady
  BY OthersSteady
<1>2. DeviceTypes /\ (Waiting(d) => call[d] # "none")
  BY DEF Devicewise, DevicesSound
<1>3. CASE UnlockOffline(d)
  <2>1. /\ refresh'[d] = s /\ stored'[d] = s /\ slot'[d] = NoRequest
        /\ call'[d] = "none" /\ session'[d] = TRUE /\ a = 0 /\ Resting(a, s, FALSE)
    BY <1>2, <1>3 DEF UnlockOffline, DeviceTypes, Waiting
  <2>2. Resting(s, s, FALSE)'
    <3>1. s = 0 => Resting(s, s, FALSE)'
      BY <1>1, <2>1, RestKept
    <3>2. s # 0 => Resting(s, s, FALSE)'
      BY <1>1, <2>1, RestWritten DEF Resting
    <3> QED
      BY <3>1, <3>2
  <2> QED
    BY <2>1, <2>2, LineAtRest
<1>4. CASE Begin(d)
  <2>1. /\ refresh'[d] = a /\ stored'[d] = s /\ slot'[d] = NoRequest
        /\ call'[d] \in {"sync", "other"} /\ Resting(a, s, FALSE)
    BY <1>2, <1>4 DEF Begin, DeviceTypes, Waiting
  <2>2. Resting(a, s, TRUE)'
    BY <1>1, <2>1, RestKept
  <2> QED
    BY <2>1, <2>2, LineAtRest
<1>5. CASE NextRequest(d)
  <2>1. /\ refresh'[d] = a /\ stored'[d] = s /\ slot'[d] = NoRequest
        /\ call'[d] = call[d] /\ call[d] \in {"sync", "quiet"} /\ Resting(a, s, TRUE)
    BY <1>2, <1>5 DEF NextRequest, Running, DeviceTypes, Waiting
  <2>2. Resting(a, s, TRUE)'
    BY <1>1, <2>1, RestKept
  <2> QED
    BY <2>1, <2>2, LineAtRest
\* A command ends, and what the disk lacks is in doubt.
<1>6. ASSUME ~Waiting(d), call[d] # "none", suspect' = suspect \cup Unsaved(d)
      PROVE  Resting(a, s, FALSE)'
  <2>1. a \in {0, s} \/ Doubted(a)
    BY <1>6 DEF Unsaved, Doubted
  <2>2. Resting(a, s, TRUE)
    BY <1>6
  <2> QED
    BY <1>1, <2>1, <2>2, RestKept
<1>7. CASE GiveUp(d) \/ Offline(d)
  <2>1. /\ refresh'[d] = a /\ stored'[d] = s /\ slot'[d] = NoRequest
        /\ call'[d] = "none" /\ session'[d] = TRUE /\ ~Waiting(d) /\ call[d] # "none"
        /\ suspect' = suspect \cup Unsaved(d)
    BY <1>2, <1>7 DEF GiveUp, Offline, Running, Fail, Return, DeviceTypes, Waiting
  <2> QED
    BY <1>6, <2>1, LineAtRest
<1>8. CASE Served(d)
  <2>1. /\ refresh'[d] = a /\ slot'[d] = NoRequest /\ ~Waiting(d)
        /\ call[d] \in {"sync", "quiet", "other"}
    BY <1>2, <1>8 DEF Served, Running, DeviceTypes, Waiting
  <2>2. CASE Return(d) /\ suspect' = suspect \cup Unsaved(d) /\ stored' = stored
    <3>1. stored'[d] = s /\ call'[d] = "none" /\ session'[d] = TRUE
      BY <1>2, <2>2 DEF Return, DeviceTypes
    <3> QED
      BY <1>6, <2>1, <2>2, <3>1, LineAtRest
  <2>3. CASE call[d] = "sync" /\ Persist(d)
    <3>1. stored'[d] = IF a = 0 THEN s ELSE a
      BY <1>2, <2>3 DEF Persist, DeviceTypes
    <3>2. \/ call'[d] = "none" /\ session'[d] = TRUE
          \/ call'[d] = "quiet"
      <4>1. \/ Return(d)
            \/ call' = [call EXCEPT ![d] = "quiet"] /\ UNCHANGED session
        BY <1>8 DEF Served
      <4> QED
        BY <1>2, <4>1 DEF Return, DeviceTypes
    <3>3. Resting(a, s, TRUE)
      BY <2>1
    <3>4. CASE a = 0
      <4>1. Resting(a, s, FALSE)' /\ Resting(a, s, TRUE)'
        BY <1>1, <3>3, <3>4, RestKept
      <4> QED
        BY <2>1, <3>1, <3>2, <3>4, <4>1, LineAtRest
    <3>5. CASE a # 0
      <4>1. Resting(a, a, FALSE)' /\ Resting(a, a, TRUE)'
        BY <1>1, <3>3, <3>5, RestWritten DEF Resting
      <4> QED
        BY <2>1, <3>1, <3>2, <3>5, <4>1, LineAtRest
    <3> QED
      BY <3>4, <3>5
  <2> QED
    BY <1>8, <2>2, <2>3 DEF Served
<1>9. CASE Lost(d)
  <2>1. /\ refresh'[d] = a /\ stored'[d] = s /\ slot'[d] = NoRequest
        /\ call'[d] = "none" /\ session'[d] = (call[d] # "login")
        /\ Waiting(d) /\ suspect' = suspect \cup Orphan(d)
    BY <1>2, <1>9 DEF Lost, DeviceTypes
  <2>2. Doubted(a)
    BY <2>1 DEF Orphan, Doubted
  <2>3. Resting(a, s, FALSE)'
    <3>1. CASE call[d] = "login"
      <4>1. AtWork(slot[d], a, s, TRUE)
        BY <2>1, <3>1
      <4> QED
        BY <1>1, <4>1, WorkLost
    <3>2. CASE call[d] # "login"
      <4>1. AtWork(slot[d], a, s, FALSE)
        BY <2>1, <3>2
      <4> QED
        BY <1>1, <2>2, <4>1, WorkLost
    <3> QED
      BY <3>1, <3>2
  <2> QED
    BY <2>1, <2>3, LineAtRest
<1>10. CASE Lock(d) \/ Kill(d)
  <2>1. /\ refresh'[d] = 0 /\ stored'[d] = s /\ slot'[d] = NoRequest /\ call'[d] = "none"
    BY <1>2, <1>10 DEF Lock, Kill, Forget, DeviceTypes
  <2>2. Resting(0, s, FALSE)'
    <3>1. CASE Lock(d)
      <4>1. Resting(a, s, FALSE)
        BY <1>2, <3>1 DEF Lock
      <4> QED
        BY <1>1, <4>1, RestForgotten
    <3>2. CASE Kill(d)
      <4>1. suspect' = suspect \cup Unsaved(d) \cup Orphan(d) /\ call[d] # "none"
        BY <3>2 DEF Kill
      <4>2. CASE ~Waiting(d)
        <5>1. (a \in {0, s} \/ Doubted(a)) /\ Resting(a, s, TRUE)
          BY <4>1, <4>2 DEF Unsaved, Doubted
        <5> QED
          BY <1>1, <5>1, RestForgotten
      <4>3. CASE Waiting(d)
        <5>1. Doubted(a)
          BY <4>1, <4>3 DEF Orphan, Doubted
        <5>2. AtWork(slot[d], a, s, TRUE) \/ AtWork(slot[d], a, s, FALSE)
          <6>1. (call[d] = "login") \in BOOLEAN
            OBVIOUS
          <6> QED
            BY <4>3, <6>1
        <5> QED
          BY <1>1, <5>1, <5>2, WorkForgotten
      <4> QED
        BY <4>2, <4>3
    <3> QED
      BY <1>10, <3>1, <3>2
  <2> QED
    BY <2>1, <2>2, LineAtRest
<1> QED
  BY <1>3, <1>4, <1>5, <1>7, <1>8, <1>9, <1>10

\* The windows of rows and rotations begin no later than now.
Clock ==
  /\ \A t \in Tokens : Exists(t) => sessions[t].refresh_expires_at <= now + RefreshTTL
  /\ \A r \in Requests : request[r].since <= now

\* A device presents the newest token of its family.
LEMMA RefreshBegun ==
  ASSUME SessionInv, Ages, Wary, Clock, NEW r \in Requests,
         NEW a \in 0..issued, NEW s \in 0..issued, a # 0, Last(a),
         a # s /\ Trusted(s) => SuccessorOf(s, a), Refresh(r, a)
  PROVE  AtWork(r, a, s, FALSE)'
<1>1. /\ request \in [Requests -> RequestRecord] /\ now \in Nat /\ a \in Issued
      /\ sessions' = sessions
  BY SessionsAssumption DEF SessionInv, TypeOK, RequestRecord, Issued, Refresh,
     MeetRetired, RefuseRefresh, AcceptRefresh
<1>2. \A q \in Requests \ {r} : request'[q] = request[q]
  BY <1>1 DEF Refresh, MeetRetired, RefuseRefresh, AcceptRefresh, Answer
<1>3. ASSUME Trusted(a)', ~Rotates(r)'
      PROVE  Last(a)'
  <2>1. Trusted(a)
    BY <1>3, TrustedBefore
  <2>2. Alone(sessions[a].family, a, NoRequest)
    BY <2>1 DEF Last
  <2> QED
    BY <1>1, <1>2, <1>3, <2>2 DEF Last, Alone, Rotates, Active
<1>4. ~Rotates(r)' => Last(a)'
  BY <1>3 DEF Last
<1>5. ASSUME a # s, Trusted(s)'
      PROVE  SuccessorOf(s, a)'
  BY <1>5, TrustedBefore, SuccessorKept
<1>6. RefreshAt(r, a, s)'
  <2>1. CASE MeetRetired(r, a)
    <3>1. request'[r].stage = "reuse"
      BY <1>1, <2>1 DEF MeetRetired, Idle
    <3> QED
      BY <1>4, <3>1 DEF RefreshAt, At, Rotates
  <2>2. CASE RefuseRefresh(r, a)
    <3>1. request'[r].stage = "done" /\ request'[r].token = 0
      BY <1>1, <2>2 DEF RefuseRefresh, Answer, Idle
    <3>2. Renewed(0, a, s)'
      BY <1>4, <3>1 DEF Renewed, Rotates
    <3> QED
      BY <3>1, <3>2 DEF RefreshAt, At, Rotates
  <2>3. CASE AcceptRefresh(r, a)
    <3>1. /\ request'[r].stage = "retire" /\ request'[r].token = a
          /\ request'[r].family = sessions[a].family /\ request'[r].since = now
          /\ Exists(a)
      BY <1>1, <2>3 DEF AcceptRefresh, Refreshable
    <3>2. ASSUME NEW f \in {request'[r].family},
                 NEW limit \in {request'[r].since + RefreshTTL}
          PROVE  Turning(f, limit, r, a, s)'
      <4>1. f = sessions[a].family /\ limit = now + RefreshTTL
        BY <3>1, <3>2
      <4>2. ASSUME f \notin suspect'
            PROVE  Alone(f, a, r)'
        <5>1. Trusted(a)
          BY <1>1, <3>1, <4>1, <4>2 DEF Trusted, Wary
        <5>2. Alone(f, a, NoRequest)
          BY <4>1, <5>1 DEF Last
        <5> QED
          BY <1>1, <1>2, <5>2, SessionClientAssumption DEF Alone, Rotates, Active
      <4>3. a \in Tokens /\ sessions[a].refresh_expires_at <= limit
        BY <1>1, <3>1, <4>1, SessionsAssumption DEF Clock, SessionInv, TypeOK, Issued, Tokens
      <4>4. ASSUME NEW t \in {a, s}, Trusted(t)'
            PROVE  sessions'[t].family = f /\ sessions'[t].refresh_expires_at <= limit
        <5>1. CASE t = a
          <6>1. sessions'[a].family = sessions[a].family
                /\ sessions'[a].refresh_expires_at = sessions[a].refresh_expires_at
            BY <1>1
          <6> QED
            BY <4>1, <4>3, <5>1, <6>1
        <5>2. CASE t # a
          <6>0. sessions'[s].family = sessions[s].family
                /\ sessions'[s].refresh_expires_at = sessions[s].refresh_expires_at
            BY <1>1
          <6>1. SuccessorOf(s, a) /\ t = s /\ Trusted(s)
            BY <4>4, <5>2, TrustedBefore
          <6>2. /\ sessions[s].refresh_expires_at \in Nat
                /\ sessions[a].refresh_expires_at \in Nat /\ limit \in Nat
            BY <1>1, <4>1, <4>3, <6>1, TrustedRow, RowFields, SessionsAssumption
            DEF SessionInv, TypeOK
          <6> QED
            BY <4>1, <4>3, <6>0, <6>1, <6>2 DEF SuccessorOf
        <5> QED
          BY <5>1, <5>2
      <4> QED
        BY <4>2, <4>4 DEF Turning
    <3> QED
      BY <3>1, <3>2 DEF RefreshAt, At, Rotates
  <2> QED
    BY <2>1, <2>2, <2>3 DEF Refresh
<1> QED
  BY <1>5, <1>6 DEF AtWork

LEMMA BeginningLine ==
  ASSUME SessionInv, Devicewise, Ages, Wary, Clock, NEW d \in Devices, Line(d),
         Login(d) \/ Unlock(d) \/ Rotate(d)
  PROVE  Line(d)'
<1> PICK a \in 0..issued, s \in 0..issued :
           /\ a = refresh[d] /\ s = stored[d]
           /\ ~Waiting(d) => Resting(a, s, call[d] # "none")
           /\ Waiting(d) => slot[d] \in Requests /\ AtWork(slot[d], a, s, call[d] = "login")
           /\ call[d] = "login" \/ (~session[d] /\ call[d] = "none") => a = 0
  BY LineParts
<1>1. DeviceTypes /\ (Waiting(d) => call[d] # "none") /\ (a = 0 => access[d] = 0)
  BY DEF Devicewise, DevicesSound
<1>2. CASE Login(d)
  <2>1. PICK r \in Requests : StartLogin(r) /\ slot' = [slot EXCEPT ![d] = r]
    BY <1>2 DEF Login
  <2>2. /\ refresh'[d] = 0 /\ stored'[d] = s /\ slot'[d] = r /\ call'[d] = "login"
        /\ Resting(a, s, FALSE) /\ a = 0
    BY <1>1, <1>2, <2>1 DEF Login, DeviceTypes
  <2>3. AllSteady
    BY <2>1, OthersSteady
  <2>4. Last(s)'
    BY <2>2, <2>3, LastKept DEF Resting, AllSteady
  <2>5. request'[r].stage = "login"
    BY <2>1 DEF StartLogin, Idle, SessionInv, TypeOK
  <2>6. AtWork(r, 0, s, TRUE)'
    BY <2>4, <2>5 DEF AtWork, LoginAt, At
  <2> QED
    BY <2>2, <2>6, LineAtWork
<1>3. CASE Unlock(d)
  <2>1. PICK r \in Requests : Refresh(r, stored[d]) /\ slot' = [slot EXCEPT ![d] = r]
    BY <1>3 DEF Unlock
  <2>2. /\ refresh'[d] = s /\ stored'[d] = s /\ slot'[d] = r /\ call'[d] = "unlock"
        /\ Resting(a, s, FALSE) /\ a = 0 /\ s # 0 /\ Refresh(r, s)
    BY <1>1, <1>3, <2>1 DEF Unlock, DeviceTypes
  <2>3. AtWork(r, s, s, FALSE)'
    BY <2>2, RefreshBegun DEF Resting
  <2> QED
    BY <2>2, <2>3, LineAtWork
<1>4. CASE Rotate(d)
  <2>1. PICK r \in Requests : Refresh(r, refresh[d]) /\ slot' = [slot EXCEPT ![d] = r]
    BY <1>4 DEF Rotate
  <2>2. /\ refresh'[d] = a /\ stored'[d] = s /\ slot'[d] = r
        /\ call'[d] = call[d] /\ call[d] \in {"sync", "quiet", "other"}
        /\ Resting(a, s, TRUE) /\ a # 0 /\ Refresh(r, a)
    BY <1>1, <1>4, <2>1 DEF Rotate, Running, DeviceTypes
  <2>3. AtWork(r, a, s, FALSE)'
    BY <2>2, RefreshBegun DEF Resting
  <2> QED
    BY <2>2, <2>3, LineAtWork
<1> QED
  BY <1>2, <1>3, <1>4

LEMMA AnswerLine ==
  ASSUME SessionInv, Answered, Devicewise, Ages, Wary, NEW d \in Devices, Line(d),
         Granted(d) \/ Refused(d) \/ Broken(d)
  PROVE  Line(d)'
<1> PICK a \in 0..issued, s \in 0..issued :
           /\ a = refresh[d] /\ s = stored[d]
           /\ ~Waiting(d) => Resting(a, s, call[d] # "none")
           /\ Waiting(d) => slot[d] \in Requests /\ AtWork(slot[d], a, s, call[d] = "login")
           /\ call[d] = "login" \/ (~session[d] /\ call[d] = "none") => a = 0
  BY LineParts
<1>1. DeviceTypes /\ Waiting(d) /\ call[d] # "none" /\ slot[d] \in Requests
  BY DEF Devicewise, DevicesSound, Granted, Refused, Broken
<1>2. AllSteady
  BY <1>1, OthersSteady DEF Granted, Refused, Broken
<1>3. PICK r \in Requests, u \in 0..MaxTokens : r = slot[d] /\ u = request[r].token
  BY <1>1 DEF SessionInv, TypeOK
<1>4. /\ call[d] = "login" => AtWork(r, a, s, TRUE)
      /\ call[d] # "login" => AtWork(r, a, s, FALSE)
  BY <1>1, <1>3
<1>5. CASE Granted(d)
  <2>1. At(r, "done") /\ u # 0 /\ u \in 0..issued
    BY <1>3, <1>5 DEF Granted, Answered
  <2>2. /\ refresh'[d] = u /\ slot'[d] = NoRequest
        /\ stored'[d] = IF call[d] \in {"login", "unlock"} THEN u ELSE s
        /\ call'[d] = IF call[d] \in {"login", "unlock"} THEN "quiet" ELSE call[d]
    BY <1>1, <1>3, <1>5 DEF Granted, DeviceTypes
  <2>3. Last(u) /\ (call[d] # "login" /\ Trusted(s) => SuccessorOf(s, u))
    BY <1>3, <1>4, <2>1 DEF AtWork, LoginAt, RefreshAt, Renewed
  <2>4. CASE call[d] \in {"login", "unlock"}
    <3>1. Resting(u, u, TRUE)'
      BY <1>2, <2>1, <2>3, RestWritten
    <3> QED
      BY <2>2, <2>4, <3>1, LineAtRest
  <2>5. CASE call[d] \notin {"login", "unlock"}
    <3>1. Resting(u, s, TRUE)
      BY <2>1, <2>3, <2>5 DEF Resting
    <3>2. Resting(u, s, TRUE)'
      BY <1>2, <2>1, <3>1, RestKept
    <3> QED
      BY <1>1, <2>2, <2>5, <3>2, LineAtRest
  <2> QED
    BY <2>4, <2>5
<1>6. CASE Refused(d) \/ Broken(d)
  <2>1. /\ refresh'[d] = 0 /\ stored'[d] = s /\ slot'[d] = NoRequest /\ call'[d] = "none"
    BY <1>1, <1>6 DEF Refused, Broken, SignedOut, Return, DeviceTypes
  <2>2. Resting(0, s, FALSE)'
    <3>1. CASE call[d] = "login"
      BY <1>2, <1>4, <3>1, WorkForgotten
    <3>2. CASE call[d] # "login" /\ Broken(d)
      <4>1. Doubted(a)
        BY <1>1, <3>2 DEF Broken, Orphan, Doubted
      <4> QED
        BY <1>2, <1>4, <3>2, <4>1, WorkForgotten
    <3>3. CASE call[d] # "login" /\ Refused(d)
      <4>1. At(r, "done") /\ u = 0 /\ suspect' = suspect \cup Unsaved(d)
        BY <1>3, <3>3 DEF Refused
      <4>2. Last(a) /\ a # 0
        BY <1>3, <1>4, <3>3, <4>1 DEF AtWork, RefreshAt, Renewed
      <4>3. a = s \/ Doubted(a)
        BY <4>1, <4>2 DEF Unsaved, Doubted
      <4> QED
        BY <1>2, <1>4, <3>3, <4>2, <4>3, WorkForgotten
    <3> QED
      BY <1>6, <3>1, <3>2, <3>3
  <2> QED
    BY <2>1, <2>2, LineAtRest
<1> QED
  BY <1>5, <1>6

LEMMA RecoveredLine ==
  ASSUME Devicewise, NEW d \in Devices, Line(d), Recover(d)
  PROVE  Line(d)'
<1>1. DeviceTypes /\ (Waiting(d) => call[d] # "none")
  BY DEF Devicewise, DevicesSound
<1>2. /\ refresh'[d] = 0 /\ stored'[d] = 0 /\ slot'[d] = NoRequest /\ call'[d] = "none"
  BY <1>1 DEF Recover, Line, DeviceTypes, Waiting
<1>3. Resting(0, 0, FALSE)'
  BY DEF Resting, Last, Trusted
<1> QED
  BY <1>2, <1>3, LineAtRest

-----------------------------------------------------------------------------
(* The clock. *)

\* A request is timed now, or as before, or not at all.
Timed == \A r \in Requests : request'[r].since \in {request[r].since, now, 0}

\* A new row has the window of the request that inserts it.
RowTimed(p) ==
  sessions'[p] = NoSession
    \/ \E r \in Requests :
         sessions'[p].refresh_expires_at = request[r].since + RefreshTTL

LEMMA OneTimed ==
  ASSUME SessionInv, NEW r \in Requests, NEW x, request' = [request EXCEPT ![r] = x],
         x.since \in {request[r].since, now, 0}
  PROVE  Timed
<1>1. request'[r] = x /\ \A q \in Requests \ {r} : request'[q] = request[q]
  BY DEF SessionInv, TypeOK
<1> QED
  BY <1>1 DEF Timed

\* A request that is answered, or let go, or admitted.
LEMMA AnswerTimed ==
  ASSUME SessionInv, NEW r \in Requests, NEW t, Answer(r, t)
  PROVE  Timed
<1> DEFINE x == [Idle EXCEPT !.stage = "done", !.token = t]
<1>1. x.since = 0 /\ request' = [request EXCEPT ![r] = x]
  BY DEF Idle, Answer
<1> HIDE DEF x
<1> QED
  BY <1>1, OneTimed

LEMMA IdleTimed ==
  ASSUME SessionInv, NEW r \in Requests, request' = [request EXCEPT ![r] = Idle]
  PROVE  Timed
<1>1. Idle.since = 0
  BY DEF Idle
<1> QED
  BY <1>1, OneTimed

LEMMA AdmittedTimed ==
  ASSUME SessionInv, NEW r \in Requests, NEW stage, NEW t, NEW f,
         request' = [request EXCEPT ![r] =
           [Idle EXCEPT !.stage = stage, !.token = t, !.family = f]]
  PROVE  Timed
<1> DEFINE x == [Idle EXCEPT !.stage = stage, !.token = t, !.family = f]
<1>1. x.since = 0 /\ request' = [request EXCEPT ![r] = x]
  BY DEF Idle
<1> HIDE DEF x
<1> QED
  BY <1>1, OneTimed

LEMMA AllTimed ==
  ASSUME SessionInv, [Next]_sessionVars
  PROVE  Timed
<1>1. ASSUME NEW r \in Requests, Ask(r)
      PROVE  Timed
  <2>1. CASE StartLogin(r)
    <3> DEFINE x == [Idle EXCEPT !.stage = "login", !.since = now]
    <3>1. x.since = now /\ request' = [request EXCEPT ![r] = x]
      BY <2>1 DEF StartLogin, Idle
    <3> HIDE DEF x
    <3> QED
      BY <3>1, OneTimed
  <2>2. ASSUME NEW t \in Issued, AcceptRefresh(r, t)
        PROVE  Timed
    BY <2>2, OneTimed DEF AcceptRefresh
  <2>3. ASSUME NEW t \in Issued, MeetRetired(r, t) \/ RefuseRefresh(r, t)
        PROVE  Timed
    BY <2>3, AdmittedTimed, AnswerTimed DEF MeetRetired, RefuseRefresh
  <2>4. ASSUME NEW t \in Issued, StartLogout(r, t) \/ StartRevoke(r, t) \/ StartOthers(r, t)
        PROVE  Timed
    BY <2>4, AdmittedTimed DEF StartLogout, StartRevoke, StartOthers, Authenticate
  <2> QED
    BY <1>1, <2>1, <2>2, <2>3, <2>4 DEF Ask, Refresh
<1>2. ASSUME NEW r \in Requests, Serve(r)
      PROVE  Timed
  <2>1. ASSUME NEW stage, Move(r, stage)
        PROVE  Timed
    <3> DEFINE x == [request[r] EXCEPT !.stage = stage]
    <3>1. request' = [request EXCEPT ![r] = x]
      BY <2>1 DEF Move
    <3>2. x.since = request[r].since
      BY DEF SessionInv, TypeOK
    <3> HIDE DEF x
    <3> QED
      BY <3>1, <3>2, OneTimed
  <2>2. CASE PurgeExpired(r) \/ Retire(r)
    BY <2>1, <2>2 DEF PurgeExpired, Retire
  <2> QED
    BY <1>2, <2>2, AnswerTimed DEF Serve, OpenSession, Renew, RevokeFamily, Logout,
       RevokeDevice, RevokeOthers
<1>3. ASSUME NEW r \in Requests, Drop(r) \/ Release(r)
      PROVE  Timed
  BY <1>3, IdleTimed DEF Drop, Release
<1>4. CASE RevokeAll \/ Tick \/ UNCHANGED sessionVars
  BY <1>4 DEF RevokeAll, Tick, sessionVars, Timed
<1> QED
  BY <1>1, <1>2, <1>3, <1>4 DEF Next

LEMMA NewRowsTimed ==
  ASSUME SessionInv, [Next]_sessionVars, NEW p \in Tokens \ Issued
  PROVE  RowTimed(p)
<1>1. sessions[p] = NoSession /\ sessions \in [Tokens -> Session \cup {NoSession}]
  BY DEF SessionInv, TypeOK, RowsKnown, Exists
<1>2. ASSUME NEW r \in Requests, NEW f, NEW cap, Insert(f, request[r].since, cap)
      PROVE  RowTimed(p)
  <2>1. CASE p = issued + 1
    <3>1. sessions'[p].refresh_expires_at = request[r].since + RefreshTTL
      BY <1>1, <1>2, <2>1 DEF Insert
    <3> QED
      BY <3>1 DEF RowTimed
  <2>2. CASE p # issued + 1
    BY <1>1, <1>2, <2>2 DEF Insert, RowTimed
  <2> QED
    BY <2>1, <2>2
<1>3. ASSUME NEW set, Revoke(set)
      PROVE  RowTimed(p)
  BY <1>1, <1>3 DEF Revoke, Exists, RowTimed
<1>4. ASSUME sessions' = sessions
      PROVE  RowTimed(p)
  BY <1>1, <1>4 DEF RowTimed
<1>5. ASSUME NEW r \in Requests, Ask(r) \/ Drop(r) \/ Release(r)
      PROVE  sessions' = sessions
  BY <1>5 DEF Ask, StartLogin, Refresh, MeetRetired, RefuseRefresh, AcceptRefresh,
     StartLogout, StartRevoke, StartOthers, Authenticate, Drop, Release
<1>6. ASSUME NEW r \in Requests, PurgeExpired(r)
      PROVE  RowTimed(p)
  BY <1>1, <1>6 DEF PurgeExpired, RowTimed
<1>7. ASSUME NEW r \in Requests, Serve(r)
      PROVE  RowTimed(p)
  BY <1>2, <1>3, <1>6, <1>7 DEF Serve, OpenSession, Renew, Retire, RevokeFamily, Logout,
     RevokeDevice, RevokeOthers
<1> QED
  BY <1>3, <1>4, <1>5, <1>7 DEF Next, RevokeAll, Tick, sessionVars

LEMMA ClockKept ==
  ASSUME SessionInv, SessionInv', Clock, [Next]_sessionVars
  PROVE  Clock'
<1>1. now \in Nat /\ now' \in Nat /\ now <= now'
  <2>1. now \in Nat /\ now' \in Nat
    BY DEF SessionInv, TypeOK
  <2>2. now' = now \/ now' = now + 1
    BY DEF Next, Ask, Serve, StartLogin, Refresh, MeetRetired, RefuseRefresh,
       AcceptRefresh, StartLogout, StartRevoke, StartOthers, Authenticate, Drop, Release,
       PurgeExpired, OpenSession, Renew, Retire, RevokeFamily, Logout, RevokeDevice,
       RevokeOthers, RevokeAll, Tick, sessionVars
  <2> QED
    BY <2>1, <2>2
<1>2. \A r \in Requests : request[r].since \in Nat /\ request[r].since <= now
  BY DEF SessionInv, TypeOK, Clock
<1>3. \A r \in Requests : request'[r].since <= now'
  <2>1. Timed
    BY AllTimed
  <2> QED
    BY <1>1, <1>2, <2>1 DEF Timed
<1>4. ASSUME NEW t \in Tokens, sessions'[t] # NoSession
      PROVE  sessions'[t].refresh_expires_at <= now' + RefreshTTL
  <2>1. CASE t \in Issued
    <3>1. RowKept(t)
      BY <2>1, ServerAges DEF Ages
    <3>2. /\ sessions'[t].refresh_expires_at = sessions[t].refresh_expires_at
          /\ sessions[t].refresh_expires_at <= now + RefreshTTL
      BY <1>4, <3>1 DEF RowKept, Clock, Exists
    <3>3. sessions[t].refresh_expires_at \in Nat
      BY RowFields DEF SessionInv, TypeOK
    <3> QED
      BY <1>1, <3>2, <3>3, SessionsAssumption
  <2>2. CASE t \notin Issued
    <3>1. RowTimed(t)
      BY <2>2, NewRowsTimed
    <3> QED
      BY <1>1, <1>2, <1>4, <3>1, SessionsAssumption DEF RowTimed
  <2> QED
    BY <2>1, <2>2
<1> QED
  BY <1>3, <1>4 DEF Clock, Exists

-----------------------------------------------------------------------------
(* Devices apart. *)

\* No two devices have to do with one family, or wait at one request.
Apart ==
  \A d, e \in Devices :
    d # e => /\ FamiliesOf(d) \cap FamiliesOf(e) \subseteq {0}
             /\ Waiting(d) => slot[d] # slot[e]

\* A device comes into no family but one that its login opens.
Drifts(d) ==
  \A f \in FamiliesOf(d)' :
    f \in FamiliesOf(d) \cup {0}
      \/ (f = issued + 1 /\ Waiting(d) /\ OpenSession(slot[d]))

OwnStep(d) ==
  \/ Login(d) \/ Unlock(d) \/ UnlockOffline(d) \/ Work(d)
  \/ Offline(d) \/ Broken(d) \/ Lost(d) \/ Lock(d) \/ Kill(d) \/ Recover(d)

LEMMA FamilyKept ==
  ASSUME SessionInv, Ages, NEW t \in 0..issued
  PROVE  FamilyOf(t)' \in {FamilyOf(t), 0}
<1>1. CASE t = 0
  BY <1>1 DEF FamilyOf
<1>2. CASE t # 0
  <2>1. t \in Issued
    BY <1>2, SessionsAssumption DEF SessionInv, TypeOK, Issued
  <2>2. RowKept(t)
    BY <2>1 DEF Ages
  <2> QED
    BY <1>2, <2>2 DEF RowKept, FamilyOf, NoSession
<1> QED
  BY <1>1, <1>2

\* The families of devices are those of tokens given out.
LEMMA FamiliesKnown ==
  ASSUME SessionInv, Answered, Devicewise, NEW d \in Devices
  PROVE  FamiliesOf(d) \subseteq 0..issued
<1>1. ASSUME NEW t \in 0..issued
      PROVE  FamilyOf(t) \in 0..issued
  <2>1. issued \in Nat /\ 0 \in 0..issued
    BY SessionsAssumption DEF SessionInv, TypeOK
  <2>2. CASE t = 0
    BY <2>1, <2>2 DEF FamilyOf
  <2>3. CASE t # 0
    <3>1. t \in Tokens
      BY <2>3, SessionsAssumption DEF SessionInv, TypeOK, Tokens
    <3>2. CASE Exists(t)
      BY <2>1, <2>3, <3>1, <3>2 DEF SessionInv, RowsKnown, FamilyOf, Issued
    <3>3. CASE ~Exists(t)
      BY <2>1, <2>3, <3>3 DEF Exists, NoSession, FamilyOf
    <3> QED
      BY <3>2, <3>3
  <2> QED
    BY <2>2, <2>3
<1>2. \A t \in {refresh[d], stored[d]} : FamilyOf(t) \in 0..issued
  BY <1>1 DEF Devicewise, Held
<1>3. ASSUME NEW r \in {slot[d]} \ {NoRequest}
      PROVE  Handed(r) \subseteq 0..issued
  <2>1. r \in Requests
    BY <1>3 DEF Devicewise, DeviceTypes
  <2>2. /\ Rotates(r) => request[r].family \in 0..issued
        /\ At(r, "done") => request[r].token \in 0..issued
    BY <2>1, HandedFamilies DEF Issued
  <2> QED
    BY <1>1, <2>2 DEF Handed
<1> QED
  BY <1>2, <1>3 DEF FamiliesOf

\* A request that is not touched hands over what it did.
LEMMA HandedKept ==
  ASSUME SessionInv, Answered, Ages, NEW r \in Requests, request'[r] = request[r],
         NEW f \in Handed(r)'
  PROVE  f \in Handed(r) \cup {0}
<1>1. CASE Rotates(r)' /\ f = request'[r].family
  BY <1>1 DEF Handed, Rotates
<1>2. CASE \E u \in {request'[r].token} : At(r, "done")' /\ f = FamilyOf(u)'
  <2>1. PICK u \in {request[r].token} : At(r, "done") /\ f = FamilyOf(u)'
    BY <1>2 DEF At
  <2>2. u \in 0..issued
    BY <2>1 DEF Answered
  <2>3. f \in {FamilyOf(u), 0}
    BY <2>1, <2>2, FamilyKept
  <2> QED
    BY <2>1, <2>3 DEF Handed
<1> QED
  BY <1>1, <1>2 DEF Handed

LEMMA DriftsBy ==
  ASSUME SessionInv, Answered, Devicewise, Ages, NEW d \in Devices,
         \A t \in {refresh'[d], stored'[d]} : t = 0 \/ FamilyOf(t) \in FamiliesOf(d),
         \A t \in {refresh'[d], stored'[d]} : t \in 0..issued,
         \A r \in {slot'[d]} \ {NoRequest} : \A f \in Handed(r)' :
           f \in FamiliesOf(d) \cup {0}
             \/ (f = issued + 1 /\ Waiting(d) /\ OpenSession(slot[d]))
  PROVE  Drifts(d)
<1>1. ASSUME NEW t \in {refresh'[d], stored'[d]}
      PROVE  FamilyOf(t)' \in FamiliesOf(d) \cup {0}
  <2>1. FamilyOf(t)' \in {FamilyOf(t), 0}
    BY FamilyKept
  <2>2. t = 0 => FamilyOf(t)' = 0
    BY DEF FamilyOf
  <2> QED
    BY <2>1, <2>2
<1>2. ASSUME NEW f \in FamiliesOf(d)'
      PROVE  \/ \E t \in {refresh'[d], stored'[d]} : f = FamilyOf(t)'
             \/ \E r \in {slot'[d]} \ {NoRequest} : f \in Handed(r)'
  BY DEF FamiliesOf
<1> QED
  BY <1>1, <1>2 DEF Drifts

\* A device that the step passes by.
LEMMA DriftsBeside ==
  ASSUME SessionInv, Answered, Devicewise, Ages, NEW d \in Devices, Keeps(d),
         Waiting(d) => request'[slot[d]] = request[slot[d]]
  PROVE  Drifts(d)
<1>1. /\ refresh'[d] = refresh[d] /\ stored'[d] = stored[d] /\ slot'[d] = slot[d]
      /\ refresh[d] \in 0..issued /\ stored[d] \in 0..issued
      /\ slot[d] \in Requests \cup {NoRequest}
  BY DEF Keeps, Devicewise, Held, DeviceTypes
<1>2. \A t \in {refresh'[d], stored'[d]} : FamilyOf(t) \in FamiliesOf(d) /\ t \in 0..issued
  BY <1>1 DEF FamiliesOf
<1>3. ASSUME NEW r \in {slot'[d]} \ {NoRequest}, NEW f \in Handed(r)'
      PROVE  f \in FamiliesOf(d) \cup {0}
  <2>1. r = slot[d] /\ r \in Requests /\ request'[r] = request[r]
    BY <1>1 DEF Waiting
  <2>2. f \in Handed(r) \cup {0}
    BY <2>1, HandedKept
  <2> QED
    BY <2>1, <2>2 DEF FamiliesOf
<1> QED
  BY <1>2, <1>3, DriftsBy

\* A device whose request is served.
LEMMA DriftsServed ==
  ASSUME SessionInv, Answered, Devicewise, Ages, NEW d \in Devices, Keeps(d),
         Waiting(d), Serve(slot[d])
  PROVE  Drifts(d)
<1>1. /\ refresh'[d] = refresh[d] /\ stored'[d] = stored[d] /\ slot'[d] = slot[d]
      /\ refresh[d] \in 0..issued /\ stored[d] \in 0..issued
      /\ slot[d] \in Requests
  BY DEF Keeps, Devicewise, Held, DeviceTypes, Waiting
<1>2. \A t \in {refresh'[d], stored'[d]} : FamilyOf(t) \in FamiliesOf(d) /\ t \in 0..issued
  BY <1>1 DEF FamiliesOf
<1>3. request \in [Requests -> RequestRecord]
  BY DEF SessionInv, TypeOK, RequestRecord
<1>4. ASSUME NEW r \in {slot[d]}, NEW f \in Handed(r)'
      PROVE  f \in FamiliesOf(d) \cup {0} \/ (f = issued + 1 /\ OpenSession(r))
  <2>1. r \in Requests /\ Serve(r)
    BY <1>1
  <2>2. CASE RevokeFamily(r) \/ Logout(r) \/ RevokeDevice(r) \/ RevokeOthers(r)
    <3>1. request'[r].stage = "done" /\ request'[r].token = 0
      BY <1>3, <2>1, <2>2 DEF RevokeFamily, Logout, RevokeDevice, RevokeOthers, Answer, Idle
    <3> QED
      BY <3>1 DEF Handed, Rotates, At, FamilyOf
  <2>3. CASE PurgeExpired(r)
    <3>1. request'[r].stage = "open"
      BY <1>3, <2>1, <2>3 DEF PurgeExpired, Move, RequestRecord
    <3> QED
      BY <3>1 DEF Handed, Rotates, At
  <2>4. CASE Retire(r)
    <3>1. /\ request[r].stage = "retire" /\ request'[r].stage = "renew"
          /\ request'[r].family = request[r].family
      BY <1>3, <2>1, <2>4 DEF Retire, Move, RequestRecord, At
    <3>2. f \in Handed(r)
      BY <3>1 DEF Handed, Rotates, At
    <3> QED
      BY <1>1, <1>4, <2>1, <3>2, SessionClientAssumption DEF FamiliesOf
  <2>5. CASE OpenSession(r)
    <3>1. request'[r].stage = "done" /\ request'[r].token = issued + 1
      BY <1>3, <2>1, <2>5 DEF OpenSession, Answer, Idle
    <3>2. issued \in Nat /\ request[r].since \in Nat
      BY <1>3, <2>1, SessionsAssumption DEF SessionInv, TypeOK, RequestRecord
    <3>3. sessions'[issued + 1].family = issued + 1
      BY <2>5, <3>2, SessionsAssumption DEF OpenSession, Insert, SessionInv, TypeOK, Tokens
    <3>4. f = issued + 1
      BY <3>1, <3>2, <3>3 DEF Handed, Rotates, At, FamilyOf
    <3> QED
      BY <2>5, <3>4
  <2>6. CASE Renew(r)
    <3>1. /\ request'[r].stage = "done" /\ request'[r].token = issued + 1
          /\ request[r].stage = "renew"
      BY <1>3, <2>1, <2>6 DEF Renew, Answer, Idle, At
    <3>2. issued \in Nat
      BY SessionsAssumption DEF SessionInv, TypeOK
    <3>3. sessions'[issued + 1].family = request[r].family
      BY <2>6, <3>2, SessionsAssumption DEF Renew, Insert, SessionInv, TypeOK, Tokens
    <3>4. f = request[r].family
      BY <3>1, <3>2, <3>3 DEF Handed, Rotates, At, FamilyOf
    <3>5. f \in Handed(r)
      BY <3>1, <3>4 DEF Handed, Rotates
    <3> QED
      BY <1>1, <1>4, <2>1, <3>5, SessionClientAssumption DEF FamiliesOf
  <2> QED
    BY <2>1, <2>2, <2>3, <2>4, <2>5, <2>6 DEF Serve
<1> QED
  BY <1>1, <1>2, <1>4, DriftsBy

\* The steps of a device that change nothing on the server.
Unseen(d) ==
  \/ UnlockOffline(d) \/ Begin(d) \/ Served(d) \/ NextRequest(d) \/ GiveUp(d)
  \/ Offline(d) \/ Lost(d) \/ Lock(d) \/ Kill(d)

LEMMA OwnSteps ==
  ASSUME NEW d, OwnStep(d)
  PROVE  \/ Unseen(d) \/ Login(d) \/ Unlock(d) \/ Rotate(d)
         \/ Granted(d) \/ Refused(d) \/ Broken(d) \/ Recover(d)
  BY DEF OwnStep, Unseen, Work

LEMMA UnseenStep ==
  ASSUME NEW d, Unseen(d)
  PROVE  UNCHANGED sessionVars
  BY DEF Unseen, UnlockOffline, Begin, Served, NextRequest, GiveUp, Offline, Lost, Lock,
     Kill, Fail, Forget

\* What a device has and waits for after a step of its own.
LEMMA OwnHold ==
  ASSUME Devicewise, NEW d \in Devices, OwnStep(d)
  PROVE  /\ \/ refresh'[d] \in {0, refresh[d], stored[d]}
            \/ Granted(d) /\ refresh'[d] = request[slot[d]].token
         /\ \/ stored'[d] \in {0, refresh[d], stored[d]}
            \/ Granted(d) /\ stored'[d] = request[slot[d]].token
         /\ \/ slot'[d] \in {NoRequest, slot[d]}
            \/ Login(d) \/ Unlock(d) \/ Rotate(d)
<1>1. DeviceTypes
  BY DEF Devicewise
<1>2. CASE Unseen(d)
  <2>1. CASE Served(d)
    <3>1. /\ refresh' = refresh /\ slot' = slot
          /\ \/ stored' = stored
             \/ stored' = [stored EXCEPT ![d] = IF refresh[d] = 0 THEN @ ELSE refresh[d]]
      BY <2>1 DEF Served, Persist
    <3> QED
      BY <1>1, <3>1 DEF DeviceTypes
  <2>2. CASE ~Served(d)
    BY <1>1, <1>2, <2>2 DEF Unseen, DeviceTypes, UnlockOffline, Begin, NextRequest, GiveUp,
       Offline, Lost, Lock, Kill, Fail, Forget
  <2> QED
    BY <2>1, <2>2
<1>3. CASE Login(d) \/ Unlock(d) \/ Rotate(d)
  BY <1>1, <1>3 DEF DeviceTypes, Login, Unlock, Rotate
<1>4. CASE Granted(d)
  BY <1>1, <1>4 DEF DeviceTypes, Granted
<1>5. CASE Refused(d) \/ Broken(d) \/ Recover(d)
  BY <1>1, <1>5 DEF DeviceTypes, Refused, Broken, Recover, SignedOut
<1> QED
  BY <1>2, <1>3, <1>4, <1>5, OwnSteps

\* A refresh is presented for a token that the device holds.
Presents(d, r, t) ==
  /\ Unused(r) /\ Refresh(r, t) /\ slot'[d] = r
  /\ t # 0 /\ t \in {refresh[d], stored[d]}

LEMMA Presentation ==
  ASSUME SessionInv, Devicewise, NEW d \in Devices, Unlock(d) \/ Rotate(d)
  PROVE  \E r \in Requests, t \in Issued : Presents(d, r, t)
<1>1. DeviceTypes /\ (refresh[d] = 0 => access[d] = 0)
      /\ refresh[d] \in 0..issued /\ stored[d] \in 0..issued /\ issued \in Nat
  BY SessionsAssumption DEF Devicewise, DevicesSound, Held, SessionInv, TypeOK
<1>2. CASE Unlock(d)
  <2>1. PICK r \in Requests : Unused(r) /\ Refresh(r, stored[d]) /\ slot' = [slot EXCEPT ![d] = r]
    BY <1>2 DEF Unlock
  <2>2. stored[d] \in Issued /\ stored[d] # 0
    BY <1>1, <1>2 DEF Unlock, Issued
  <2>3. PICK t \in Issued : t = stored[d]
    BY <2>2
  <2> QED
    BY <1>1, <2>1, <2>2, <2>3 DEF Presents, DeviceTypes
<1>3. CASE Rotate(d)
  <2>1. PICK r \in Requests : Unused(r) /\ Refresh(r, refresh[d]) /\ slot' = [slot EXCEPT ![d] = r]
    BY <1>3 DEF Rotate
  <2>2. refresh[d] \in Issued /\ refresh[d] # 0
    BY <1>1, <1>3 DEF Rotate, Issued
  <2>3. PICK t \in Issued : t = refresh[d]
    BY <2>2
  <2> QED
    BY <1>1, <2>1, <2>2, <2>3 DEF Presents, DeviceTypes
<1> QED
  BY <1>2, <1>3

\* What a refresh does to its request.
LEMMA RefreshMove ==
  ASSUME SessionInv, NEW r \in Requests, NEW t \in Issued, Refresh(r, t)
  PROVE  /\ \A q \in Requests \ {r} : request'[q] = request[q]
         /\ sessions' = sessions /\ request[r].stage = "idle"
         /\ \/ request'[r].stage = "reuse" /\ MeetRetired(r, t)
            \/ request'[r].stage = "done" /\ request'[r].token = 0
            \/ request'[r].stage = "retire" /\ AcceptRefresh(r, t)
         /\ request'[r].stage \in {"reuse", "retire"} =>
              request'[r].family = sessions[t].family /\ request'[r].token = t /\ Exists(t)
<1>1. request \in [Requests -> RequestRecord]
  BY DEF SessionInv, TypeOK, RequestRecord
<1>2. CASE MeetRetired(r, t)
  BY <1>1, <1>2 DEF MeetRetired, Idle, At
<1>3. CASE RefuseRefresh(r, t)
  BY <1>1, <1>3 DEF RefuseRefresh, Answer, Idle, At
<1>4. CASE AcceptRefresh(r, t)
  BY <1>1, <1>4 DEF AcceptRefresh, Refreshable, At
<1> QED
  BY <1>2, <1>3, <1>4 DEF Refresh

LEMMA DriftsOwn ==
  ASSUME SessionInv, Answered, Devicewise, Ages, NEW d \in Devices, OwnStep(d)
  PROVE  Drifts(d)
<1>1. /\ refresh[d] \in 0..issued /\ stored[d] \in 0..issued /\ 0 \in 0..issued
      /\ slot[d] \in Requests \cup {NoRequest}
  BY SessionsAssumption DEF Devicewise, Held, DeviceTypes, SessionInv, TypeOK
<1>2. FamilyOf(refresh[d]) \in FamiliesOf(d) /\ FamilyOf(stored[d]) \in FamiliesOf(d)
  BY DEF FamiliesOf
<1>3. ASSUME Granted(d)
      PROVE  /\ request[slot[d]].token \in 0..issued
             /\ FamilyOf(request[slot[d]].token) \in FamiliesOf(d)
  <2>1. PICK r \in Requests : r = slot[d] /\ At(r, "done") /\ r # NoRequest
    BY <1>1, <1>3 DEF Granted, Waiting
  <2> QED
    BY <2>1, HandedFamilies DEF FamiliesOf
<1>4. \A t \in {refresh'[d], stored'[d]} :
        t \in 0..issued /\ (t = 0 \/ FamilyOf(t) \in FamiliesOf(d))
  BY <1>1, <1>2, <1>3, OwnHold
<1>5. ASSUME NEW r \in {slot'[d]} \ {NoRequest}, NEW f \in Handed(r)'
      PROVE  f \in FamiliesOf(d) \cup {0}
  <2>1. CASE Login(d)
    <3>1. PICK q \in Requests : StartLogin(q) /\ slot' = [slot EXCEPT ![d] = q]
      BY <2>1 DEF Login
    <3>2. q = r /\ request'[r].stage = "login"
      BY <1>5, <3>1 DEF Devicewise, DeviceTypes, StartLogin, Idle, SessionInv, TypeOK
    <3> QED
      BY <1>5, <3>2 DEF Handed, Rotates, At
  <2>2. CASE Unlock(d) \/ Rotate(d)
    <3>1. PICK q \in Requests, t \in Issued : Presents(d, q, t)
      BY <2>2, Presentation
    <3>2. q = r /\ r \in Requests /\ Refresh(r, t) /\ t # 0 /\ t \in {refresh[d], stored[d]}
      BY <1>5, <3>1 DEF Presents
    <3>3. \/ request'[r].stage = "reuse"
          \/ request'[r].stage = "done" /\ request'[r].token = 0
          \/ request'[r].stage = "retire" /\ request'[r].family = sessions[t].family
      BY <3>2, RefreshMove
    <3>4. f = 0 \/ f = FamilyOf(t)
      BY <1>5, <3>2, <3>3 DEF Handed, Rotates, At, FamilyOf
    <3> QED
      BY <1>2, <3>2, <3>4
  <2>3. CASE ~(Login(d) \/ Unlock(d) \/ Rotate(d))
    <3>1. r = slot[d] /\ r \in Requests
      BY <1>1, <1>5, <2>3, OwnHold
    <3>2. CASE Unseen(d) \/ Recover(d)
      <4>1. request' = request
        BY <3>2, UnseenStep DEF sessionVars, Recover, RevokeAll
      <4>2. f \in Handed(r) \cup {0}
        BY <1>5, <3>1, <4>1, HandedKept
      <4> QED
        BY <1>5, <3>1, <4>2 DEF FamiliesOf
    <3>3. CASE Granted(d) \/ Refused(d) \/ Broken(d)
      <4>1. slot'[d] = NoRequest
        BY <3>3 DEF Granted, Refused, Broken, SignedOut, Devicewise, DeviceTypes
      <4> QED
        BY <1>5, <4>1
    <3> QED
      BY <2>3, <3>2, <3>3, OwnSteps
  <2> QED
    BY <2>1, <2>2, <2>3
<1> QED
  BY <1>4, <1>5, DriftsBy

\* A device that another one passes by.
LEMMA Beside ==
  ASSUME SessionInv, Devicewise, Apart, NEW d \in Devices, NEW e \in Devices, d # e,
         OwnStep(d)
  PROVE  /\ Keeps(e)
         /\ Waiting(e) => request'[slot[e]] = request[slot[e]]
         /\ Waiting(e) /\ slot'[d] # NoRequest => slot'[d] # slot[e]
<1>1. DeviceTypes /\ (Waiting(e) => slot[e] \in Requests) /\ (Waiting(d) => slot[d] \in Requests)
      /\ (Waiting(e) => slot[e] # slot[d])
  BY DEF Devicewise, DeviceTypes, Waiting, Apart
<1>2. CASE Unseen(d)
  <2>1. request' = request
    BY <1>2, UnseenStep DEF sessionVars
  <2>2. Keeps(e)
    <3>1. CASE Served(d)
      BY <1>1, <3>1 DEF Served, Persist, Return, DeviceTypes, Keeps
    <3>2. CASE ~Served(d)
      BY <1>1, <1>2, <3>2 DEF Unseen, DeviceTypes, UnlockOffline, Begin, NextRequest,
         GiveUp, Offline, Lost, Lock, Kill, Fail, Forget, Return, Keeps
    <3> QED
      BY <3>1, <3>2
  <2>3. slot'[d] \in {NoRequest, slot[d]}
    <3>1. slot' = slot \/ slot' = [slot EXCEPT ![d] = NoRequest]
      BY <1>2 DEF Unseen, UnlockOffline, Begin, Served, NextRequest, GiveUp, Offline, Lost,
         Lock, Kill, Fail, Forget
    <3> QED
      BY <1>1, <3>1 DEF DeviceTypes
  <2> QED
    BY <1>1, <2>1, <2>2, <2>3
<1>3. CASE Login(d)
  <2>1. PICK r \in Requests : Unused(r) /\ StartLogin(r) /\ slot' = [slot EXCEPT ![d] = r]
    BY <1>3 DEF Login
  <2>2. slot'[d] = r /\ slot[e] # r /\ \A q \in Requests \ {r} : request'[q] = request[q]
    BY <1>1, <2>1 DEF Unused, StartLogin, SessionInv, TypeOK, DeviceTypes
  <2>3. Keeps(e)
    BY <1>1, <1>3, <2>1 DEF Login, DeviceTypes, Keeps
  <2> QED
    BY <1>1, <2>2, <2>3
<1>4. CASE Unlock(d) \/ Rotate(d)
  <2>1. PICK r \in Requests, t \in Issued : Presents(d, r, t)
    BY <1>4, Presentation
  <2>2. slot'[d] = r /\ slot[e] # r /\ \A q \in Requests \ {r} : request'[q] = request[q]
    BY <2>1, RefreshMove DEF Presents, Unused
  <2>3. Keeps(e)
    BY <1>1, <1>4 DEF Unlock, Rotate, DeviceTypes, Keeps
  <2> QED
    BY <1>1, <2>2, <2>3
<1>5. CASE Granted(d) \/ Refused(d) \/ Broken(d)
  <2>1. Waiting(d) /\ (Release(slot[d]) \/ Drop(slot[d]))
    BY <1>5 DEF Granted, Refused, Broken
  <2>2. \A q \in Requests \ {slot[d]} : request'[q] = request[q]
    BY <2>1 DEF Release, Drop, SessionInv, TypeOK
  <2>3. slot'[d] = NoRequest
    BY <1>1, <1>5 DEF Granted, Refused, Broken, SignedOut, DeviceTypes
  <2>4. Keeps(e)
    BY <1>1, <1>5 DEF Granted, Refused, Broken, SignedOut, Return, DeviceTypes, Keeps
  <2> QED
    BY <1>1, <2>2, <2>3, <2>4
<1>6. CASE Recover(d)
  BY <1>1, <1>6 DEF Recover, RevokeAll, DeviceTypes, Keeps
<1> QED
  BY <1>2, <1>3, <1>4, <1>5, <1>6, OwnSteps

LEMMA AcceptedRequest ==
  ASSUME SessionInv, NEW q \in Requests, NEW t \in Issued, AcceptRefresh(q, t)
  PROVE  /\ request[q].stage = "idle" /\ request'[q].stage = "retire"
         /\ request'[q].token = t /\ request'[q].family = sessions[t].family
         /\ Exists(t) /\ Active(t)
BY DEF AcceptRefresh, Refreshable, At, SessionInv, TypeOK

\* A rotation that a device begins is not of another device's family.
LEMMA SteadyBeside ==
  ASSUME SessionInv, Devicewise, Apart, NEW d \in Devices, NEW e \in Devices, d # e,
         OwnStep(d), NEW f \in FamiliesOf(e)
  PROVE  Steady(f)
<1>1. CASE Unseen(d) \/ Login(d) \/ Granted(d) \/ Refused(d) \/ Broken(d) \/ Recover(d)
  <2>1. ASSUME NEW q \in Requests, NEW t \in Issued, AcceptRefresh(q, t)
        PROVE  FALSE
    <3>1. request[q].stage = "idle" /\ request'[q].stage = "retire"
      BY <2>1, AcceptedRequest
    <3>2. \/ request' = request
          \/ \E r \in Requests : StartLogin(r)
          \/ \E r : request' = [request EXCEPT ![r] = Idle]
      <4>1. CASE Unseen(d) \/ Recover(d)
        BY <4>1, UnseenStep DEF sessionVars, Recover, RevokeAll
      <4>2. CASE Login(d)
        BY <4>2 DEF Login
      <4>3. CASE Granted(d) \/ Refused(d) \/ Broken(d)
        BY <4>3 DEF Granted, Refused, Broken, Drop, Release
      <4> QED
        BY <1>1, <4>1, <4>2, <4>3
    <3>3. CASE \E r \in Requests : StartLogin(r)
      <4>1. PICK r \in Requests : StartLogin(r)
        BY <3>3
      <4>2. request'[r].stage = "login" /\ \A p \in Requests \ {r} : request'[p] = request[p]
        BY <4>1 DEF StartLogin, Idle, SessionInv, TypeOK
      <4> QED
        BY <3>1, <4>2
    <3>4. CASE \E r : request' = [request EXCEPT ![r] = Idle]
      <4>1. Idle.stage = "idle"
        BY DEF Idle
      <4>2. request'[q] = Idle \/ request'[q] = request[q]
        BY <3>4 DEF SessionInv, TypeOK
      <4> QED
        BY <3>1, <4>1, <4>2
    <3> QED
      BY <3>1, <3>2, <3>3, <3>4
  <2> QED
    BY <2>1 DEF Steady
<1>2. CASE Unlock(d) \/ Rotate(d)
  <2>1. PICK r \in Requests, t \in Issued : Presents(d, r, t)
    BY <1>2, Presentation
  <2>2. ASSUME NEW q \in Requests, NEW p \in Issued, AcceptRefresh(q, p),
               sessions[p].family = f, f # 0
        PROVE  FALSE
    <3>1. /\ request[q].stage = "idle" /\ request'[q].stage = "retire"
          /\ request'[q].token = p
      BY <2>2, AcceptedRequest
    <3>2. q = r /\ request'[q].token = t
      BY <2>1, <3>1, RefreshMove DEF Presents
    <3>3. FamilyOf(t) = f /\ FamilyOf(t) \in FamiliesOf(d)
      BY <2>1, <2>2, <3>1, <3>2 DEF Presents, FamilyOf, FamiliesOf
    <3> QED
      BY <2>2, <3>3 DEF Apart
  <2> QED
    BY <2>2 DEF Steady
<1> QED
  BY <1>1, <1>2, OwnSteps

\* A stranger's rotation makes its family suspect.
LEMMA SteadyStranger ==
  ASSUME SessionInv, Stranger, NEW f
  PROVE  Steady(f)
<1>1. PICK r \in Requests :
        /\ Ask(r)
        /\ LET g == {request'[r].family} \ {0}
           IN  IF request'[r].stage \in {"retire", "reuse"}
                 THEN suspect' = suspect \cup g
                 ELSE UNCHANGED suspect
  BY DEF Stranger
<1>2. ASSUME NEW q \in Requests, NEW t \in Issued, AcceptRefresh(q, t),
             sessions[t].family = f, f # 0
      PROVE  f \in suspect'
  <2>1. request[q].stage = "idle" /\ request'[q].stage = "retire" /\ request'[q].family = f
    BY <1>2, AcceptedRequest
  <2>2. \E x : request' = [request EXCEPT ![r] = x]
    BY <1>1 DEF Ask, StartLogin, Refresh, MeetRetired, RefuseRefresh, AcceptRefresh, Answer,
       StartLogout, StartRevoke, StartOthers, Authenticate
  <2>3. q = r
    BY <2>1, <2>2 DEF SessionInv, TypeOK
  <2> QED
    BY <1>1, <1>2, <2>1, <2>3
<1> QED
  BY <1>2 DEF Steady

\* A server step begins no rotation.
LEMMA SteadyServer ==
  ASSUME SessionInv, Server \/ UNCHANGED vars, NEW f
  PROVE  Steady(f)
<1>1. ASSUME NEW q \in Requests, NEW t \in Issued, AcceptRefresh(q, t)
      PROVE  Steady(f)
  <2>1. request[q].stage = "idle" /\ request'[q].stage = "retire"
    BY <1>1, AcceptedRequest
  <2>2. CASE UNCHANGED request
    BY <2>1, <2>2
  <2>3. ASSUME NEW r \in Requests, Serve(r)
        PROVE  Steady(f)
    BY <2>3, ServeSteady
  <2>4. ASSUME NEW r \in Requests, Drop(r) \/ Release(r)
        PROVE  FALSE
    <3>1. Idle.stage = "idle"
      BY DEF Idle
    <3>2. request'[q] = Idle \/ request'[q] = request[q]
      BY <2>4 DEF Drop, Release, SessionInv, TypeOK
    <3> QED
      BY <2>1, <3>1, <3>2
  <2> QED
    BY <2>2, <2>3, <2>4 DEF Server, Tick, vars, sessionVars
<1> QED
  BY <1>1 DEF Steady

-----------------------------------------------------------------------------
(* The accusation. *)

\* A family about to be revoked for a reuse is suspected, or dead.
Accused ==
  \A r \in Requests :
    At(r, "reuse") =>
      /\ request[r].family \in Issued
      /\ request[r].family \notin suspect => Dead(request[r].family)

LEMMA DeadKept ==
  ASSUME SessionInv, Ages, NEW f \in Issued, Dead(f), f \notin suspect'
  PROVE  Dead(f)'
<1>1. Issued \subseteq Tokens /\ 0 \notin Tokens
  BY SessionsAssumption DEF SessionInv, TypeOK, Issued, Tokens
<1>2. Alone(f, 0, NoRequest)
  BY <1>1 DEF Dead, Rotating, Alone, Rotates, At
<1>3. Steady(f)
  BY <1>1, AcceptedRequest DEF Steady, Dead
<1>4. Alone(f, 0, NoRequest)'
  BY <1>2, <1>3, AloneKept, SessionClientAssumption
<1> QED
  BY <1>1, <1>4, SessionClientAssumption DEF Dead, Rotating, Alone, Rotates, At

\* An accusation that stands.
LEMMA AccusedKept ==
  ASSUME SessionInv, Ages, Wary, Accused, issued \in Nat, issued' \in Nat, issued <= issued',
         NEW r \in Requests, At(r, "reuse"), request'[r] = request[r]
  PROVE  /\ request'[r].family \in Issued'
         /\ request'[r].family \notin suspect' => Dead(request[r].family)'
<1>1. PICK f \in Issued : f = request[r].family /\ (f \notin suspect => Dead(f))
  BY DEF Accused
<1>2. f \notin suspect' => Dead(f)'
  BY <1>1, DeadKept DEF Wary
<1>3. f = request'[r].family /\ f \in Issued'
  BY <1>1 DEF Issued
<1> QED
  BY <1>2, <1>3 DEF Dead, Rotating, At, Active

\* A new one.
LEMMA NewAccusation ==
  ASSUME SessionInv, Ages, Wary, issued \in Nat, issued' \in Nat, issued <= issued',
         NEW r \in Requests, NEW t \in Issued, MeetRetired(r, t),
         sessions[t].family \in suspect' \/ Last(t)
  PROVE  /\ request'[r].family \in Issued'
         /\ request'[r].family \notin suspect' => Dead(request[r].family)'
<1>1. /\ request'[r].stage = "reuse" /\ request'[r].family = sessions[t].family
      /\ \A q \in Requests \ {r} : request'[q] = request[q]
      /\ sessions' = sessions /\ Exists(t) /\ ~Active(t) /\ t # 0
  BY SessionsAssumption DEF MeetRetired, Idle, SessionInv, TypeOK, Issued
<1>2. sessions[t].family \in Issued /\ sessions[t].family \in Issued'
  <2>1. t \in Tokens
    BY SessionsAssumption DEF SessionInv, TypeOK, Issued, Tokens
  <2>2. sessions[t].family \in Issued
    BY <1>1, <2>1 DEF SessionInv, RowsKnown
  <2> QED
    BY <2>2 DEF Issued
<1>3. PICK f \in Issued : f = sessions[t].family /\ f = request'[r].family
  BY <1>1, <1>2
<1>4. f \notin suspect' => Dead(f)'
  <2> SUFFICES ASSUME f \notin suspect' PROVE Dead(f)'
    OBVIOUS
  <2>1. Alone(f, t, NoRequest)
    BY <1>1, <1>3 DEF Last, Trusted, Wary
  <2>2. ASSUME NEW q \in Requests, request'[q].family = f
        PROVE  request'[q].stage \notin {"retire", "renew"}
    BY <1>1, <2>1, <2>2, SessionClientAssumption DEF Alone, Rotates
  <2>3. ASSUME NEW p \in Tokens, sessions'[p].family = f
        PROVE  sessions'[p].revoked
    BY <1>1, <2>1, <2>3 DEF Alone, Active
  <2> QED
    BY <2>2, <2>3 DEF Dead, Rotating, At, Active
<1> QED
  BY <1>2, <1>3, <1>4 DEF Dead, Rotating, At, Active

-----------------------------------------------------------------------------
(* All of it together. *)

LEMMA ServedLine ==
  ASSUME SessionInv, Answered, Devicewise, Ages, Wary, NEW d \in Devices, Line(d),
         Keeps(d), Waiting(d), Serve(slot[d])
  PROVE  Line(d)'
<1> PICK a \in 0..issued, s \in 0..issued :
           /\ a = refresh[d] /\ s = stored[d]
           /\ ~Waiting(d) => Resting(a, s, call[d] # "none")
           /\ Waiting(d) => slot[d] \in Requests /\ AtWork(slot[d], a, s, call[d] = "login")
           /\ call[d] = "login" \/ (~session[d] /\ call[d] = "none") => a = 0
  BY LineParts
<1>1. PICK r \in Requests : r = slot[d]
  OBVIOUS
<1>2. Serve(r) /\ call[d] # "none"
  BY <1>1 DEF Devicewise, DevicesSound
<1>3. /\ refresh'[d] = a /\ stored'[d] = s /\ slot'[d] = r /\ call'[d] = call[d]
  BY <1>1 DEF Keeps
<1>4. Steady(FamilyOf(a)) /\ Steady(FamilyOf(s))
  BY <1>2, ServeSteady
<1>5. CASE call[d] = "login"
  <2>1. AtWork(r, a, s, TRUE)
    BY <1>1, <1>5
  <2>2. AtWork(r, a, s, TRUE)'
    BY <1>2, <1>4, <2>1, LoginServed, LastKept DEF AtWork
  <2> QED
    BY <1>2, <1>3, <1>5, <2>2, LineAtWork
<1>6. CASE call[d] # "login"
  <2>1. AtWork(r, a, s, FALSE)
    BY <1>1, <1>6
  <2>2. RefreshAt(r, a, s)'
    BY <1>2, <2>1, RefreshServed DEF AtWork
  <2>3. ASSUME a # s, Trusted(s)'
        PROVE  SuccessorOf(s, a)'
    BY <2>1, <2>3, TrustedBefore, SuccessorKept DEF AtWork
  <2>4. AtWork(r, a, s, FALSE)'
    BY <2>1, <2>2, <2>3 DEF AtWork
  <2> QED
    BY <1>2, <1>3, <1>6, <2>4, LineAtWork
<1> QED
  BY <1>5, <1>6

\* What the step of a device does to its own line.
LEMMA OwnLine ==
  ASSUME SessionInv, Answered, Devicewise, Ages, Wary, Clock, NEW d \in Devices, Line(d),
         OwnStep(d)
  PROVE  Line(d)'
<1>1. CASE Unseen(d)
  BY <1>1, UnseenStep, LocalLine DEF Unseen
<1>2. CASE Login(d) \/ Unlock(d) \/ Rotate(d)
  BY <1>2, BeginningLine
<1>3. CASE Granted(d) \/ Refused(d) \/ Broken(d)
  BY <1>3, AnswerLine
<1>4. CASE Recover(d)
  BY <1>4, RecoveredLine
<1> QED
  BY <1>1, <1>2, <1>3, <1>4, OwnSteps

\* Steps of the server and of strangers.
LEMMA OutsideSteps ==
  ASSUME SessionInv, Answered, Devicewise, Ages, Wary, NEW d \in Devices, Line(d),
         Stranger \/ Server \/ UNCHANGED vars
  PROVE  Line(d)' /\ Drifts(d)
<1>1. Keeps(d)
  BY DEF Stranger, Server, vars, clientVars, Keeps
<1>2. \A f \in FamiliesOf(d) : Steady(f)
  BY SteadyStranger, SteadyServer
<1>3. ASSUME NEW r \in Requests, NEW x, request' = [request EXCEPT ![r] = x], slot[d] # r
      PROVE  Waiting(d) => request'[slot[d]] = request[slot[d]]
  BY <1>3 DEF SessionInv, TypeOK, Waiting, Devicewise, DeviceTypes
<1>4. CASE Waiting(d) /\ Serve(slot[d])
  BY <1>1, <1>4, ServedLine, DriftsServed
<1>5. CASE ~(Waiting(d) /\ Serve(slot[d]))
  <2>1. Waiting(d) => request'[slot[d]] = request[slot[d]]
    <3>1. CASE Stranger
      <4>1. PICK r \in Requests : Unused(r) /\ Ask(r)
        BY <3>1 DEF Stranger
      <4>2. \E x : request' = [request EXCEPT ![r] = x]
        BY <4>1 DEF Ask, StartLogin, Refresh, MeetRetired, RefuseRefresh, AcceptRefresh,
           Answer, StartLogout, StartRevoke, StartOthers, Authenticate
      <4> QED
        BY <1>3, <4>1, <4>2 DEF Unused
    <3>2. ASSUME NEW r \in Requests, Serve(r)
          PROVE  Waiting(d) => request'[slot[d]] = request[slot[d]]
      <4>1. \E x : request' = [request EXCEPT ![r] = x]
        BY <3>2 DEF Serve, PurgeExpired, OpenSession, RevokeFamily, Retire, Renew, Logout,
           RevokeDevice, RevokeOthers, Move, Answer
      <4> QED
        BY <1>3, <1>5, <3>2, <4>1
    <3>3. ASSUME NEW r \in Requests, slot[d] # r, Drop(r) \/ Release(r)
          PROVE  Waiting(d) => request'[slot[d]] = request[slot[d]]
      BY <1>3, <3>3 DEF Drop, Release
    <3>4. CASE UNCHANGED request
      BY <3>4
    <3> QED
      BY <3>1, <3>2, <3>3, <3>4 DEF Server, Tick, vars, sessionVars
  <2> QED
    BY <1>1, <1>2, <2>1, LineKept, DriftsBeside
<1> QED
  BY <1>4, <1>5

LEMMA ClientStepKinds ==
  ASSUME [ClientNext]_vars
  PROVE  (\E d \in Devices : OwnStep(d)) \/ Stranger \/ Server \/ UNCHANGED vars
BY DEF ClientNext, OwnStep

LEMMA StaysWary ==
  ASSUME [ClientNext]_vars
  PROVE  Wary
<1>1. ASSUME NEW d \in Devices, OwnStep(d)
      PROVE  Wary
  <2>1. CASE Unseen(d)
    BY <2>1 DEF Unseen, UnlockOffline, Begin, Served, NextRequest, GiveUp, Offline, Lost,
       Lock, Kill, Fail, Forget, Wary, history
  <2>2. CASE ~Unseen(d)
    BY <1>1, <2>2, OwnSteps DEF Login, Unlock, Rotate, Granted, Refused, Broken, Recover,
       Wary, history
  <2> QED
    BY <2>1, <2>2
<1>2. CASE Stranger
  BY <1>2 DEF Stranger, Wary
<1>3. CASE Server \/ UNCHANGED vars
  BY <1>3 DEF Server, vars, history, Wary
<1> QED
  BY <1>1, <1>2, <1>3, ClientStepKinds

LEMMA LineSteps ==
  ASSUME SessionInv, Answered, Devicewise, Ages, Wary, Clock, Apart,
         \A e \in Devices : Line(e), [ClientNext]_vars, NEW d \in Devices
  PROVE  Line(d)' /\ Drifts(d)
<1>1. ASSUME NEW e \in Devices, OwnStep(e)
      PROVE  Line(d)' /\ Drifts(d)
  <2>1. CASE e = d
    BY <1>1, <2>1, OwnLine, DriftsOwn
  <2>2. CASE e # d
    <3>1. Keeps(d) /\ (Waiting(d) => request'[slot[d]] = request[slot[d]])
      BY <1>1, <2>2, Beside
    <3>2. \A f \in FamiliesOf(d) : Steady(f)
      BY <1>1, <2>2, SteadyBeside
    <3> QED
      BY <3>1, <3>2, LineKept, DriftsBeside
  <2> QED
    BY <2>1, <2>2
<1>2. CASE Stranger \/ Server \/ UNCHANGED vars
  BY <1>2, OutsideSteps
<1> QED
  BY <1>1, <1>2, ClientStepKinds

LEMMA ApartSteps ==
  ASSUME SessionInv, Answered, Devicewise, Apart, [ClientNext]_vars,
         \A d \in Devices : Drifts(d)
  PROVE  Apart'
<1> SUFFICES ASSUME NEW d \in Devices, NEW e \in Devices, d # e
             PROVE  /\ FamiliesOf(d)' \cap FamiliesOf(e)' \subseteq {0}
                    /\ Waiting(d)' => slot'[d] # slot'[e]
  BY DEF Apart
<1>1. ASSUME NEW f \in FamiliesOf(d)', f \in FamiliesOf(e)', f # 0
      PROVE  FALSE
  <2>1. FamiliesOf(d) \subseteq 0..issued /\ FamiliesOf(e) \subseteq 0..issued /\ issued \in Nat
    BY FamiliesKnown, SessionsAssumption DEF SessionInv, TypeOK
  <2>2. /\ f \in FamiliesOf(d) \/ (f = issued + 1 /\ Waiting(d) /\ OpenSession(slot[d]))
        /\ f \in FamiliesOf(e) \/ (f = issued + 1 /\ Waiting(e) /\ OpenSession(slot[e]))
    BY <1>1 DEF Drifts
  <2>3. CASE f # issued + 1
    BY <1>1, <2>2, <2>3 DEF Apart
  <2>4. CASE f = issued + 1
    <3>1. /\ Waiting(d) /\ OpenSession(slot[d]) /\ Waiting(e) /\ OpenSession(slot[e])
      BY <2>1, <2>2, <2>4
    <3>2. slot[d] \in Requests /\ slot[e] \in Requests /\ slot[d] # slot[e]
      BY <3>1 DEF Waiting, Devicewise, DeviceTypes, Apart
    <3>3. request'[slot[e]] = request[slot[e]]
      BY <3>1, <3>2 DEF OpenSession, Answer, SessionInv, TypeOK
    <3>4. request[slot[e]].stage = "open" /\ request'[slot[e]].stage = "done"
      <4>1. PICK r \in Requests : r = slot[e]
        BY <3>2
      <4>2. At(r, "open") /\ Answer(r, issued + 1)
        BY <3>1, <4>1 DEF OpenSession
      <4>3. request'[r].stage = "done"
        BY <4>2 DEF Answer, Idle, SessionInv, TypeOK
      <4> QED
        BY <4>1, <4>2, <4>3 DEF At
    <3> QED
      BY <3>3, <3>4
  <2> QED
    BY <2>3, <2>4
<1>2. ASSUME slot'[d] # NoRequest
      PROVE  slot'[d] # slot'[e]
  <2>1. slot[d] # NoRequest => slot[d] # slot[e]
    BY DEF Apart, Waiting
  <2>2. slot[e] # NoRequest => slot[e] # slot[d]
    BY DEF Apart, Waiting
  <2>3. ASSUME NEW g \in Devices, OwnStep(g)
        PROVE  slot'[d] # slot'[e]
    <3>1. CASE g = d
      <4>1. slot'[e] = slot[e] /\ (slot[e] # NoRequest => slot'[d] # slot[e])
        BY <1>2, <2>3, <3>1, Beside DEF Keeps, Waiting
      <4> QED
        BY <1>2, <4>1
    <3>2. CASE g = e
      <4>1. slot'[d] = slot[d] /\ (slot'[e] # NoRequest => slot'[e] # slot[d])
        BY <1>2, <2>3, <3>2, Beside DEF Keeps, Waiting
      <4> QED
        BY <1>2, <4>1
    <3>3. CASE g # d /\ g # e
      <4>1. slot'[d] = slot[d] /\ slot'[e] = slot[e]
        BY <2>3, <3>3, Beside DEF Keeps
      <4> QED
        BY <1>2, <2>1, <4>1
    <3> QED
      BY <3>1, <3>2, <3>3
  <2>4. CASE Stranger \/ Server \/ UNCHANGED vars
    <3>1. slot' = slot
      BY <2>4 DEF Stranger, Server, vars, clientVars
    <3> QED
      BY <1>2, <2>1, <3>1
  <2> QED
    BY <2>3, <2>4, ClientStepKinds
<1> QED
  BY <1>1, <1>2 DEF Waiting

\* Who meets a retired token.
LEMMA AccusedSteps ==
  ASSUME SessionInv, Devicewise, Ages, Wary, Accused, issued \in Nat, issued' \in Nat,
         issued <= issued', \A d \in Devices : Line(d), [ClientNext]_vars
  PROVE  Accused'
<1> SUFFICES ASSUME NEW q \in Requests, request'[q].stage = "reuse"
             PROVE  /\ request'[q].family \in Issued'
                    /\ request'[q].family \notin suspect' => Dead(request[q].family)'
  BY DEF Accused, At
<1> DEFINE Holds == /\ request'[q].family \in Issued'
                    /\ request'[q].family \notin suspect' => Dead(request[q].family)'
<1>1. CASE request'[q] = request[q]
  BY <1>1, AccusedKept DEF At
<1>2. ASSUME request'[q] # request[q], NEW d \in Devices, OwnStep(d)
      PROVE  Holds
  <2>1. CASE Unlock(d) \/ Rotate(d)
    <3>1. PICK r \in Requests, t \in Issued : Presents(d, r, t)
      BY <2>1, Presentation
    <3>2. q = r /\ MeetRetired(r, t)
      BY <1>2, <3>1, RefreshMove DEF Presents
    <3>3. Last(t)
      <4> PICK a \in 0..issued, s \in 0..issued :
             /\ a = refresh[d] /\ s = stored[d]
             /\ ~Waiting(d) => Resting(a, s, call[d] # "none")
             /\ Waiting(d) => slot[d] \in Requests /\ AtWork(slot[d], a, s, call[d] = "login")
             /\ call[d] = "login" \/ (~session[d] /\ call[d] = "none") => a = 0
        BY LineParts
      <4>1. CASE Unlock(d)
        <5>1. a = 0 /\ ~Waiting(d)
          BY <4>1 DEF Unlock, Devicewise, DevicesSound
        <5>2. t = s
          BY <3>1, <5>1 DEF Presents
        <5> QED
          BY <5>1, <5>2 DEF Resting
      <4>2. CASE Rotate(d)
        <5>1. ~Waiting(d) /\ access[d] # 0
          BY <4>2 DEF Rotate, Running
        <5>2. a # 0
          BY <5>1 DEF Devicewise, DevicesSound
        <5>3. Refresh(r, a)
          <6>1. PICK p \in Requests : Refresh(p, refresh[d]) /\ slot' = [slot EXCEPT ![d] = p]
            BY <4>2 DEF Rotate
          <6>2. p = r
            BY <3>1, <6>1 DEF Presents, Devicewise, DeviceTypes
          <6> QED
            BY <6>1, <6>2
        <5>4. a \in Issued
          BY <5>2 DEF Issued
        <5>5. t = a
          BY <3>1, <3>2, <5>3, <5>4, RefreshMove DEF Presents
        <5> QED
          BY <5>1, <5>2, <5>5 DEF Resting
      <4> QED
        BY <2>1, <4>1, <4>2
    <3> QED
      BY <3>2, <3>3, NewAccusation
  <2>2. CASE Unseen(d) \/ Recover(d)
    BY <1>2, <2>2, UnseenStep DEF sessionVars, Recover, RevokeAll
  <2>3. CASE Login(d)
    <3>1. PICK r \in Requests : StartLogin(r)
      BY <2>3 DEF Login
    <3>2. request'[r].stage = "login" /\ \A p \in Requests \ {r} : request'[p] = request[p]
      BY <3>1 DEF StartLogin, Idle, SessionInv, TypeOK
    <3> QED
      BY <1>2, <3>2
  <2>4. CASE Granted(d) \/ Refused(d) \/ Broken(d)
    <3>1. \E r : request' = [request EXCEPT ![r] = Idle]
      BY <2>4 DEF Granted, Refused, Broken, Drop, Release
    <3>2. request'[q] = Idle \/ request'[q] = request[q]
      BY <3>1 DEF SessionInv, TypeOK
    <3> QED
      BY <1>2, <3>2 DEF Idle
  <2> QED
    BY <1>2, <2>1, <2>2, <2>3, <2>4, OwnSteps
<1>3. ASSUME request'[q] # request[q], Stranger
      PROVE  Holds
  <2>1. PICK r \in Requests :
          /\ Ask(r)
          /\ LET g == {request'[r].family} \ {0}
             IN  IF request'[r].stage \in {"retire", "reuse"}
                   THEN suspect' = suspect \cup g
                   ELSE UNCHANGED suspect
    BY <1>3 DEF Stranger
  <2>2. \E x : request' = [request EXCEPT ![r] = x]
    BY <2>1 DEF Ask, StartLogin, Refresh, MeetRetired, RefuseRefresh, AcceptRefresh, Answer,
       StartLogout, StartRevoke, StartOthers, Authenticate
  <2>3. q = r
    BY <1>3, <2>2 DEF SessionInv, TypeOK
  <2>4. \E t \in Issued : MeetRetired(r, t)
    <3>1. CASE StartLogin(r)
      BY <2>3, <3>1 DEF StartLogin, Idle, SessionInv, TypeOK
    <3>2. ASSUME NEW t \in Issued, Refresh(r, t)
          PROVE  MeetRetired(r, t)
      BY <2>3, <3>2, RefreshMove
    <3>3. ASSUME NEW t \in Issued, StartLogout(r, t) \/ StartRevoke(r, t) \/ StartOthers(r, t)
          PROVE  FALSE
      BY <2>3, <3>3 DEF StartLogout, StartRevoke, StartOthers, Authenticate, Idle,
         SessionInv, TypeOK
    <3> QED
      BY <2>1, <3>1, <3>2, <3>3 DEF Ask
  <2>5. PICK t \in Issued : MeetRetired(r, t)
    BY <2>4
  <2>6. request'[r].family = sessions[t].family
    BY <2>5 DEF MeetRetired, Idle, SessionInv, TypeOK
  <2>7. sessions[t].family # 0
    <3>1. t \in Tokens /\ Exists(t)
      BY <2>5, SessionsAssumption DEF MeetRetired, SessionInv, TypeOK, Issued, Tokens
    <3> QED
      BY <3>1 DEF SessionInv, RowsKnown, Issued
  <2>8. sessions[t].family \in suspect'
    BY <2>1, <2>3, <2>6, <2>7
  <2> QED
    BY <2>3, <2>5, <2>8, NewAccusation
<1>4. ASSUME request'[q] # request[q], Server \/ UNCHANGED vars
      PROVE  FALSE
  <2>1. ASSUME NEW r \in Requests, Serve(r)
        PROVE  FALSE
    <3>1. \A p \in Requests \ {r} : request'[p] = request[p]
      BY <2>1 DEF Serve, PurgeExpired, OpenSession, RevokeFamily, Retire, Renew, Logout,
         RevokeDevice, RevokeOthers, Move, Answer, SessionInv, TypeOK
    <3>2. q = r
      BY <1>4, <3>1
    <3>3. request'[r].stage \in {"open", "renew", "done"}
      <4>1. \A stage : Move(r, stage) => request'[r].stage = stage
        BY DEF Move, SessionInv, TypeOK
      <4>2. \A t : Answer(r, t) => request'[r].stage = "done"
        BY DEF Answer, Idle, SessionInv, TypeOK
      <4> QED
        BY <2>1, <4>1, <4>2 DEF Serve, PurgeExpired, OpenSession, RevokeFamily, Retire,
           Renew, Logout, RevokeDevice, RevokeOthers
    <3> QED
      BY <3>2, <3>3
  <2>2. ASSUME NEW r \in Requests, Drop(r) \/ Release(r)
        PROVE  FALSE
    <3>1. request'[q] = Idle \/ request'[q] = request[q]
      BY <2>2 DEF Drop, Release, SessionInv, TypeOK
    <3> QED
      BY <1>4, <3>1 DEF Idle
  <2> QED
    BY <1>4, <2>1, <2>2 DEF Server, Tick, vars, sessionVars
<1> QED
  BY <1>1, <1>2, <1>3, <1>4, ClientStepKinds

\* The inductive invariant of the devices.
LineInv == ClientInv /\ Clock /\ Apart /\ Accused /\ \A d \in Devices : Line(d)

LEMMA InitialLines == ClientInit /\ ClientInv => LineInv
<1> SUFFICES ASSUME ClientInit, ClientInv PROVE LineInv
  OBVIOUS
<1>1. \A t \in Tokens : ~Exists(t)
  BY DEF ClientInit, Init, Exists
<1>2. \A r \in Requests : request[r].stage = "idle" /\ request[r].since = 0
  BY DEF ClientInit, Init, Idle
<1>3. now = 0 /\ RefreshTTL \in Nat
  BY SessionsAssumption DEF ClientInit, Init
<1>4. Clock
  BY <1>1, <1>2, <1>3 DEF Clock
<1>5. Accused
  BY <1>2 DEF Accused, At
<1>6. \A d \in Devices : refresh[d] = 0 /\ stored[d] = 0 /\ slot[d] = NoRequest
  BY DEF ClientInit
<1>7. Apart
  BY <1>6 DEF Apart, FamiliesOf, FamilyOf, Waiting
<1>8. \A d \in Devices : Line(d)
  BY <1>6 DEF Line, Resting, Last, Trusted
<1> QED
  BY <1>4, <1>5, <1>7, <1>8 DEF LineInv

LEMMA LineInvSteps == LineInv /\ [ClientNext]_vars => LineInv'
<1> SUFFICES ASSUME LineInv, [ClientNext]_vars PROVE LineInv'
  OBVIOUS
<1>1. ClientInv' /\ [Next]_sessionVars
  BY ClientSteps DEF LineInv
<1>2. SessionInv /\ Answered /\ Devicewise
  BY ClientParts DEF LineInv, ClientInv, Devicewise
<1>3. SessionInv' /\ issued \in Nat /\ issued' \in Nat /\ issued <= issued'
  BY <1>1, <1>2, AnsweredSteps DEF ClientInv
<1>4. Ages /\ Wary
  BY <1>1, <1>2, ServerAges, StaysWary
<1>5. Clock'
  BY <1>1, <1>2, <1>3, ClockKept DEF LineInv
<1>6. \A d \in Devices : Line(d)' /\ Drifts(d)
  BY <1>2, <1>4, LineSteps DEF LineInv
<1>7. Apart'
  BY <1>2, <1>6, ApartSteps DEF LineInv
<1>8. Accused'
  BY <1>2, <1>3, <1>4, AccusedSteps DEF LineInv
<1> QED
  BY <1>1, <1>5, <1>6, <1>7, <1>8 DEF LineInv

LEMMA LineInvariant == ClientSpec => []LineInv
<1>1. ClientInit /\ ClientInv => LineInv
  BY InitialLines
<1>2. LineInv /\ [ClientNext]_vars => LineInv'
  BY LineInvSteps
<1> QED
  BY <1>1, <1>2, ClientInvariant, PTL DEF ClientSpec

\* The reuse detection of the server (auth.rs:340-377) ends no session that is in
\* use unless a token of it was presented by a stranger, or a device lost the
\* answer to a refresh, or its memory, before the new token was on disk
\* (apps/desktop-core/src/api.rs: refresh_session, apps/desktop/src-tauri/src/
\* lib.rs: persist_rotated_refresh_token): whatever devices, requests and
\* interleavings there are.
THEOREM ReuseWellFounded == ClientSpec => NobodyWronglyAccused
<1>1. LineInv => \A r \in Requests : EndsLivingSession(r) => request[r].family \in suspect
  <2> SUFFICES ASSUME LineInv, NEW r \in Requests, EndsLivingSession(r),
                      request[r].family \notin suspect
               PROVE  FALSE
    OBVIOUS
  <2>1. PICK t \in RowsOf({request[r].family}) : Active(t)
    BY DEF EndsLivingSession
  <2>2. At(r, "reuse")
    BY DEF EndsLivingSession, RevokeFamily
  <2>3. Dead(request[r].family)
    BY <2>2 DEF LineInv, Accused
  <2> QED
    BY <2>1, <2>3 DEF RowsOf, Dead
<1> QED
  BY <1>1, LineInvariant, PTL DEF NobodyWronglyAccused
===============================================================================

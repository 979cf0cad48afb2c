------------------------------- MODULE Sessions -------------------------------
(***************************************************************************)
(* The login sessions of one account on the server (routes/auth.rs,        *)
(* routes/sessions.rs, state.rs: AuthSession).                             *)
(*                                                                         *)
(* A login opens a family; each refresh retires one row of it and inserts  *)
(* a successor.  Every handler is a few SQL statements, each of its own,   *)
(* with other requests between them; a request may end after any of them   *)
(* (a failed statement, a closed connection, a crash of the server).       *)
(*                                                                         *)
(* Access and refresh token of a row go together: a row, and the tokens    *)
(* that open it, are numbered in the order of their insertion; a family is *)
(* named for the row its login inserted.                                   *)
(***************************************************************************)
EXTENDS Naturals

CONSTANTS
  Requests,     \* the requests the server works on at a time
  AccessTTL,    \* ACCESS_TOKEN_TTL_SECS, in ticks of the clock
  RefreshTTL,   \* REFRESH_TOKEN_TTL_SECS
  AbsoluteTTL,  \* ABSOLUTE_SESSION_TTL_SECS
  MaxTokens,    \* bound on the rows inserted
  MaxTime       \* bound on the clock

ASSUME SessionsAssumption ==
  /\ AccessTTL \in Nat \ {0}
  /\ RefreshTTL \in Nat \ {0}
  /\ AbsoluteTTL \in Nat \ {0}
  /\ MaxTokens \in Nat
  /\ MaxTime \in Nat

VARIABLES
  sessions,  \* the table
  issued,    \* number of rows inserted so far
  now,       \* the clock
  request,   \* request[r]: where the handler of request r stands
  opened,    \* opened[f]: when the login of family f began
  renewed,   \* rows that have a successor
  ended      \* families that were revoked with no rotation of them under way

historyVars == <<opened, renewed, ended>>
sessionVars == <<sessions, issued, now, request, historyVars>>

Tokens == 1..MaxTokens
Issued == 1..issued

NoSession ==
  [family |-> 0, revoked |-> TRUE, access_expires_at |-> 0,
   refresh_expires_at |-> 0, absolute_expires_at |-> 0]

Session ==
  [family : Tokens, revoked : BOOLEAN, access_expires_at : Nat,
   refresh_expires_at : Nat, absolute_expires_at : Nat]

Idle == [stage |-> "idle", token |-> 0, family |-> 0, since |-> 0, cap |-> 0]

Stages ==
  {"idle", "login", "open", "reuse", "retire", "renew", "logout", "revoke",
   "others", "done"}

Exists(t) == sessions[t] # NoSession
Active(t) == ~sessions[t].revoked

At(r, stage) == request[r].stage = stage
Move(r, stage) == request' = [request EXCEPT ![r].stage = stage]

\* The request is answered: with a new row, or with none.
Answer(r, t) == request' = [request EXCEPT ![r] = [Idle EXCEPT !.stage = "done", !.token = t]]

\* A rotation of family f has read its row and not yet inserted the successor.
Rotating(f) ==
  \E r \in Requests : request[r].family = f /\ (At(r, "retire") \/ At(r, "renew"))

-----------------------------------------------------------------------------
(* Rows. *)

\* Mutant: the flag is not looked at.
Unexpired(t) ==
  /\ Exists(t)
  /\ sessions[t].refresh_expires_at > now
  /\ sessions[t].absolute_expires_at > now

\* The rows that a listing shows and a refresh accepts.
Refreshable(t) ==
  /\ Exists(t) /\ Active(t)
  /\ sessions[t].refresh_expires_at > now
  /\ sessions[t].absolute_expires_at > now

\* The rows that authenticate a request.
Valid(t) ==
  /\ Exists(t) /\ Active(t)
  /\ sessions[t].access_expires_at > now
  /\ sessions[t].absolute_expires_at > now

\* Revoke the rows of a set.
Revoke(rows) ==
  sessions' = [t \in Tokens |->
                 IF t \in rows /\ Exists(t)
                   THEN [sessions[t] EXCEPT !.revoked = TRUE] ELSE sessions[t]]

RowsOf(families) == {t \in Tokens : sessions[t].family \in families}

\* History: the families of a revocation that met no rotation.
End(families) == ended' = ended \cup {f \in families \cap Issued : ~Rotating(f)}

Insert(family, since, cap) ==
  /\ issued < MaxTokens
  /\ issued' = issued + 1
  /\ sessions' = [sessions EXCEPT ![issued + 1] =
       [family |-> family, revoked |-> FALSE,
        access_expires_at |-> since + AccessTTL,
        refresh_expires_at |-> since + RefreshTTL,
        absolute_expires_at |-> cap]]

-----------------------------------------------------------------------------
(* Login, once the credentials are accepted: rows past their refresh window *)
(* are deleted, best-effort, and a family is opened.                        *)

StartLogin(r) ==
  /\ At(r, "idle")
  /\ request' = [request EXCEPT ![r] = [Idle EXCEPT !.stage = "login", !.since = now]]
  /\ UNCHANGED <<sessions, issued, now, historyVars>>

PurgeExpired(r) ==
  /\ At(r, "login")
  /\ \/ sessions' = [t \in Tokens |->
           IF sessions[t].refresh_expires_at < request[r].since
             THEN NoSession ELSE sessions[t]]
     \/ UNCHANGED sessions
  /\ Move(r, "open")
  /\ UNCHANGED <<issued, now, historyVars>>

OpenSession(r) ==
  /\ At(r, "open")
  /\ Insert(issued + 1, request[r].since, request[r].since + AbsoluteTTL)
  /\ opened' = [opened EXCEPT ![issued + 1] = request[r].since]
  /\ Answer(r, issued + 1)
  /\ UNCHANGED <<now, renewed, ended>>

-----------------------------------------------------------------------------
(* Refresh. *)

\* The token was rotated, or its session revoked: reuse.
MeetRetired(r, t) ==
  /\ At(r, "idle")
  /\ Exists(t) /\ ~Active(t)
  /\ request' = [request EXCEPT ![r] =
       [Idle EXCEPT !.stage = "reuse", !.token = t,
                    !.family = sessions[t].family]]
  /\ UNCHANGED <<sessions, issued, now, historyVars>>

\* Every descendant of the login is revoked.
RevokeFamily(r) ==
  /\ At(r, "reuse")
  /\ Revoke(RowsOf({request[r].family}))
  /\ End({request[r].family})
  /\ Answer(r, 0)
  /\ UNCHANGED <<issued, now, opened, renewed>>

\* Unknown, or past its refresh window or its family's ceiling.
RefuseRefresh(r, t) ==
  /\ At(r, "idle")
  /\ Exists(t) => Active(t) /\ ~Refreshable(t)
  /\ Answer(r, 0)
  /\ UNCHANGED <<sessions, issued, now, historyVars>>

\* Mutant: the sliding refresh slides the ceiling, too.
Slide(t) == now + AbsoluteTTL

Ceiling(t) == sessions[t].absolute_expires_at

AcceptRefresh(r, t) ==
  /\ At(r, "idle")
  /\ Refreshable(t)
  /\ request' = [request EXCEPT ![r] =
       [stage |-> "retire", token |-> t, family |-> sessions[t].family,
        since |-> now, cap |-> Ceiling(t)]]
  /\ UNCHANGED <<sessions, issued, now, historyVars>>

\* Mutant: the old row stays as it is.
KeepOld(r) ==
  /\ At(r, "retire")
  /\ Move(r, "renew")
  /\ UNCHANGED <<sessions, issued, now, historyVars>>

Retire(r) ==
  /\ At(r, "retire")
  /\ Revoke({request[r].token})
  /\ Move(r, "renew")
  /\ UNCHANGED <<issued, now, historyVars>>

Renew(r) ==
  /\ At(r, "renew")
  /\ Insert(request[r].family, request[r].since, request[r].cap)
  /\ renewed' = renewed \cup {request[r].token}
  /\ Answer(r, issued + 1)
  /\ UNCHANGED <<now, opened, ended>>

-----------------------------------------------------------------------------
(* Requests with an access token: the extractor reads the row, the handler  *)
(* writes afterwards.                                                       *)

Authenticate(r, t, stage, target) ==
  /\ At(r, "idle")
  /\ Valid(t)
  /\ request' = [request EXCEPT ![r] =
       [Idle EXCEPT !.stage = stage, !.token = t, !.family = target]]
  /\ UNCHANGED <<sessions, issued, now, historyVars>>

StartLogout(r, t) == Authenticate(r, t, "logout", sessions[t].family)
StartRevoke(r, t) ==
  \E f \in Issued : Authenticate(r, t, "revoke", sessions[f].family)
StartOthers(r, t) == Authenticate(r, t, "others", sessions[t].family)

\* Logout revokes the row the request came with.
Logout(r) ==
  /\ At(r, "logout")
  /\ Revoke({request[r].token})
  /\ Answer(r, 0)
  /\ UNCHANGED <<issued, now, historyVars>>

\* One device is signed out.
RevokeDevice(r) ==
  /\ At(r, "revoke")
  /\ Revoke(RowsOf({request[r].family}))
  /\ End({request[r].family})
  /\ Answer(r, 0)
  /\ UNCHANGED <<issued, now, opened, renewed>>

\* Every other device is signed out: by the user, or by a change of password.
RevokeOthers(r) ==
  /\ At(r, "others")
  /\ Revoke(RowsOf(Tokens \ {request[r].family}))
  /\ End(Tokens \ {request[r].family})
  /\ Answer(r, 0)
  /\ UNCHANGED <<issued, now, opened, renewed>>

\* The account is recovered: every session ends, in the recovery's transaction.
RevokeAll ==
  /\ Revoke(Tokens)
  /\ End(Tokens)
  /\ UNCHANGED <<issued, now, request, opened, renewed>>

-----------------------------------------------------------------------------
Drop(r) ==
  /\ ~At(r, "idle") /\ ~At(r, "done")
  /\ request' = [request EXCEPT ![r] = Idle]
  /\ UNCHANGED <<sessions, issued, now, historyVars>>

\* The response is delivered, or lost.
Release(r) ==
  /\ At(r, "done")
  /\ request' = [request EXCEPT ![r] = Idle]
  /\ UNCHANGED <<sessions, issued, now, historyVars>>

Tick ==
  /\ now < MaxTime
  /\ now' = now + 1
  /\ UNCHANGED <<sessions, issued, request, historyVars>>

Init ==
  /\ sessions = [t \in Tokens |-> NoSession]
  /\ issued = 0
  /\ now = 0
  /\ request = [r \in Requests |-> Idle]
  /\ opened = [t \in Tokens |-> 0]
  /\ renewed = {}
  /\ ended = {}

\* What a client asks for: a login, or something with a token it was given.
Refresh(r, t) == MeetRetired(r, t) \/ RefuseRefresh(r, t) \/ AcceptRefresh(r, t)

Ask(r) ==
  \/ StartLogin(r)
  \/ \E t \in Issued :
       Refresh(r, t) \/ StartLogout(r, t) \/ StartRevoke(r, t) \/ StartOthers(r, t)

\* What the server does with it.
Serve(r) ==
  \/ PurgeExpired(r)
  \/ OpenSession(r)
  \/ RevokeFamily(r)
  \/ Retire(r)
  \/ Renew(r)
  \/ Logout(r)
  \/ RevokeDevice(r)
  \/ RevokeOthers(r)

Next ==
  \/ \E r \in Requests : Ask(r) \/ Serve(r) \/ Drop(r) \/ Release(r)
  \/ RevokeAll
  \/ Tick

Spec == Init /\ [][Next]_sessionVars

-----------------------------------------------------------------------------
(* Properties. *)

TypeOK ==
  /\ sessions \in [Tokens -> Session \cup {NoSession}]
  /\ issued \in 0..MaxTokens
  /\ now \in Nat
  /\ request \in [Requests -> [stage : Stages, token : 0..MaxTokens,
                               family : 0..MaxTokens, since : Nat, cap : Nat]]
  /\ opened \in [Tokens -> Nat]
  /\ renewed \subseteq Issued
  /\ ended \subseteq Issued

\* "Absolute session lifetime cap" (docs/REVIEW_RESPONSE.md:150): however often
\* a login is refreshed, and however long a rotation takes, no token of it is
\* good for anything once AbsoluteTTL has passed since the login began.
LifetimeCapped ==
  \A t \in Tokens :
    Valid(t) \/ Refreshable(t) =>
      now < opened[sessions[t].family] + AbsoluteTTL

\* "Rotate: retire this row, issue a successor" (auth.rs:378): a token that has a
\* successor is retired, and stays so.  A refresh that begins afterwards meets
\* the reuse detection; one that had read the row before is not kept back.
RenewedRetired == \A t \in renewed : sessions[t].revoked

\* "a refresh token is single-use" (auth.rs:320; docs/THREAT_MODEL.md:139): at
\* most one successor is issued for a token.
SingleUse ==
  [][\A r \in Requests : Renew(r) => request[r].token \notin renewed]_sessionVars

\* A family is dead when it has no active row and none on the way.
Dead(f) == ~Rotating(f) /\ \A t \in Tokens : sessions[t].family = f => ~Active(t)

\* Revocation sticks: a family revoked by a reuse of one of its tokens, by
\* another device, by a change of password or by a recovery of the account has
\* no token that works, ever after.  The exception is a rotation that had read
\* its row before the revocation: it inserts its successor all the same.
RevocationSticks == \A f \in ended : Dead(f)
=============================================================================

----------------------------- MODULE SessionClient -----------------------------
(***************************************************************************)
(* A device's hold on its session: the tokens in the API client            *)
(* (apps/desktop-core/src/api.rs: authed, refresh_session), the refresh    *)
(* token on disk, and the desktop's commands around them (src-tauri/src/   *)
(* lib.rs: login, unlock, lock, sync_now, persist_rotated_refresh_token).  *)
(*                                                                         *)
(* The server is the one of Sessions, with its handlers statement by       *)
(* statement.  A device waits for one request at a time; when it gives up  *)
(* waiting, or dies, the handler may go on.  Anybody else with a token of  *)
(* the account - another device, or a thief - is a stranger.               *)
(***************************************************************************)
EXTENDS Sessions

CONSTANTS
  Devices,
  NoRequest,   \* the device waits for no answer
  Strangers,   \* bound on the requests of strangers
  MaxFailures  \* bound on lost requests, lost responses and killed devices

ASSUME SessionClientAssumption ==
  /\ NoRequest \notin Requests
  /\ Strangers \in Nat
  /\ MaxFailures \in Nat

VARIABLES
  session,   \* session[d]: whether the vault is unlocked (AppStateInner.session)
  access,    \* access[d]: ApiClient.access_token, 0 for None
  refresh,   \* refresh[d]: ApiClient.refresh_token, 0 for None
  stored,    \* stored[d]: the refresh token on disk, 0 for none
  known,     \* devices with the account's metadata on disk
  call,      \* call[d]: the command under way
  retried,   \* retried[d]: its current request is the second attempt
  slot,      \* slot[d]: the login or refresh the command waits for
  failures,  \* number of failures met
  strangers, \* number of requests of strangers
  suspect    \* families a token of which may be presented twice

clientVars == <<session, access, refresh, stored, known, call, retried,
                slot>>
history == <<strangers, suspect>>
vars == <<sessionVars, clientVars, failures, history>>

\* The command that runs on d: "quiet" is a sync whose outcome is ignored and
\* after which nothing is written to disk.
Calls == {"none", "login", "unlock", "sync", "quiet", "other"}

Waiting(d) == slot[d] # NoRequest
Unused(r) == At(r, "idle") /\ \A d \in Devices : slot[d] # r
FamilyOf(t) == IF t = 0 THEN 0 ELSE sessions[t].family

\* The device has a token that the disk has not: only a sync that goes well
\* writes it down.
Unsaved(d) ==
  IF refresh[d] \in {0, stored[d]} THEN {} ELSE {FamilyOf(refresh[d])}

\* A refresh nobody waits for any more may have retired the device's token.
Orphan(d) == IF Waiting(d) THEN {FamilyOf(refresh[d])} \ {0} ELSE {}

Fault == failures < MaxFailures /\ failures' = failures + 1

-----------------------------------------------------------------------------
(* Commands begin. *)

Login(d) ==
  /\ ~session[d] /\ call[d] = "none"
  /\ \E r \in Requests :
       /\ Unused(r)
       /\ StartLogin(r)
       /\ slot' = [slot EXCEPT ![d] = r]
  /\ call' = [call EXCEPT ![d] = "login"]
  /\ UNCHANGED <<session, access, refresh, stored, known, retried, failures,
                 history>>

\* The refresh token is read back from disk and rotated at once.
Unlock(d) ==
  /\ ~session[d] /\ call[d] = "none"
  /\ stored[d] # 0
  /\ \E r \in Requests :
       /\ Unused(r)
       /\ Refresh(r, stored[d])
       /\ slot' = [slot EXCEPT ![d] = r]
  /\ refresh' = [refresh EXCEPT ![d] = stored[d]]
  /\ call' = [call EXCEPT ![d] = "unlock"]
  /\ UNCHANGED <<session, access, stored, known, retried, failures, history>>

\* Without a network "Offline is fine", and so is no token: the vault opens.
UnlockOffline(d) ==
  /\ ~session[d] /\ call[d] = "none"
  /\ d \in known
  /\ \/ Fault
     \/ stored[d] = 0 /\ UNCHANGED failures
  /\ session' = [session EXCEPT ![d] = TRUE]
  /\ refresh' = [refresh EXCEPT ![d] = stored[d]]
  /\ UNCHANGED <<sessionVars, access, stored, known, call, retried, slot,
                 history>>

\* sync_now, or a command that only asks something of the server.  Without an
\* access token the call ends at once with SessionExpired.
Begin(d) ==
  /\ session[d] /\ call[d] = "none"
  /\ access[d] # 0
  /\ \E kind \in {"sync", "other"} : call' = [call EXCEPT ![d] = kind]
  /\ retried' = [retried EXCEPT ![d] = FALSE]
  /\ UNCHANGED <<sessionVars, session, access, refresh, stored, known, slot,
                 failures, history>>

-----------------------------------------------------------------------------
(* Requests with the access token. *)

Running(d) == call[d] \in {"sync", "quiet", "other"} /\ ~Waiting(d)

\* The call is over; after a login or an unlock the vault opens now.
Return(d) ==
  /\ call' = [call EXCEPT ![d] = "none"]
  /\ session' = [session EXCEPT ![d] = TRUE]

\* Mutant: the disk keeps the token of the login.
PersistNothing(d) == UNCHANGED stored

\* persist_rotated_refresh_token
Persist(d) ==
  stored' = [stored EXCEPT ![d] = IF refresh[d] = 0 THEN @ ELSE refresh[d]]

\* The last request of the call is answered.  After a sync that went well the
\* token is written to disk, and a second pass may push the conflicted copies.
Served(d) ==
  /\ Running(d) /\ Valid(access[d])
  /\ \/ /\ Return(d)
        /\ suspect' = suspect \cup Unsaved(d)
        /\ UNCHANGED stored
     \/ /\ call[d] = "sync"
        /\ Persist(d)
        /\ \/ Return(d)
           \/ call' = [call EXCEPT ![d] = "quiet"] /\ UNCHANGED session
        /\ UNCHANGED suspect
  /\ retried' = [retried EXCEPT ![d] = FALSE]
  /\ UNCHANGED <<sessionVars, access, refresh, known, slot, failures,
                 strangers>>

\* A sync has further requests.
NextRequest(d) ==
  /\ Running(d) /\ Valid(access[d])
  /\ call[d] # "other" /\ retried[d]
  /\ retried' = [retried EXCEPT ![d] = FALSE]
  /\ UNCHANGED <<sessionVars, session, access, refresh, stored, known, call,
                 slot, failures, history>>

\* 401: rotate the session and try once more.
Rotate(d) ==
  /\ Running(d) /\ ~retried[d]
  /\ access[d] # 0 /\ ~Valid(access[d])
  /\ \E r \in Requests :
       /\ Unused(r)
       /\ Refresh(r, refresh[d])
       /\ slot' = [slot EXCEPT ![d] = r]
  /\ UNCHANGED <<session, access, refresh, stored, known, call, retried,
                 failures, history>>

Fail(d) ==
  /\ Return(d)
  /\ suspect' = suspect \cup Unsaved(d)
  /\ UNCHANGED <<sessionVars, access, refresh, stored, known, retried, slot,
                 strangers>>

\* 401 again: the call fails.
GiveUp(d) ==
  /\ Running(d)
  /\ \/ access[d] = 0
     \/ retried[d] /\ ~Valid(access[d])
  /\ Fail(d)
  /\ UNCHANGED failures

\* The network fails: the call ends and the client keeps its tokens.
Offline(d) ==
  /\ Running(d)
  /\ Fault
  /\ Fail(d)

-----------------------------------------------------------------------------
(* Answers of login and refresh. *)

Granted(d) ==
  /\ Waiting(d) /\ At(slot[d], "done") /\ request[slot[d]].token # 0
  /\ LET t == request[slot[d]].token
     IN  /\ access' = [access EXCEPT ![d] = t]
         /\ refresh' = [refresh EXCEPT ![d] = t]
         /\ stored' = IF call[d] \in {"login", "unlock"}
                        THEN [stored EXCEPT ![d] = t]
                        ELSE stored
  /\ known' = known \cup {d}
  /\ Release(slot[d])
  /\ slot' = [slot EXCEPT ![d] = NoRequest]
  /\ retried' = [retried EXCEPT ![d] = call[d] \notin {"login", "unlock"}]
  /\ call' = [call EXCEPT ![d] = IF @ \in {"login", "unlock"} THEN "quiet" ELSE @]
  /\ UNCHANGED <<session, failures, history>>

\* Mutant: the access token is kept.
KeepAccess(d) ==
  /\ refresh' = [refresh EXCEPT ![d] = 0]
  /\ slot' = [slot EXCEPT ![d] = NoRequest]
  /\ Return(d)
  /\ UNCHANGED <<access, stored, known, retried>>

\* What an error of a refresh leaves behind: no tokens, and the vault open.
SignedOut(d) ==
  /\ access' = [access EXCEPT ![d] = 0]
  /\ refresh' = [refresh EXCEPT ![d] = 0]
  /\ slot' = [slot EXCEPT ![d] = NoRequest]
  /\ Return(d)
  /\ UNCHANGED <<stored, known, retried>>

Refused(d) ==
  /\ Waiting(d) /\ At(slot[d], "done") /\ request[slot[d]].token = 0
  /\ Release(slot[d])
  /\ SignedOut(d)
  /\ suspect' = suspect \cup Unsaved(d)
  /\ UNCHANGED <<failures, strangers>>

\* The handler breaks off with an error response.
Broken(d) ==
  /\ Waiting(d) /\ call[d] # "login"
  /\ Fault
  /\ Drop(slot[d])
  /\ SignedOut(d)
  /\ suspect' = suspect \cup Unsaved(d) \cup Orphan(d)
  /\ UNCHANGED strangers

\* The response is lost: the tokens stay, a login is called off.
Lost(d) ==
  /\ Waiting(d)
  /\ Fault
  /\ slot' = [slot EXCEPT ![d] = NoRequest]
  /\ call' = [call EXCEPT ![d] = "none"]
  /\ session' = [session EXCEPT ![d] = call[d] # "login"]
  /\ suspect' = suspect \cup Orphan(d)
  /\ UNCHANGED <<sessionVars, access, refresh, stored, known, retried,
                 strangers>>

-----------------------------------------------------------------------------
(* Locking, closing and killing the application: its memory is gone. *)

Forget(d) ==
  /\ session' = [session EXCEPT ![d] = FALSE]
  /\ access' = [access EXCEPT ![d] = 0]
  /\ refresh' = [refresh EXCEPT ![d] = 0]
  /\ call' = [call EXCEPT ![d] = "none"]
  /\ retried' = [retried EXCEPT ![d] = FALSE]
  /\ slot' = [slot EXCEPT ![d] = NoRequest]
  /\ UNCHANGED <<sessionVars, stored, known, strangers>>

\* The user, or the watchdog, gets the mutex when no command holds it.
Lock(d) ==
  /\ session[d] /\ call[d] = "none"
  /\ Forget(d)
  /\ UNCHANGED <<failures, suspect>>

Kill(d) ==
  /\ call[d] # "none"
  /\ Fault
  /\ Forget(d)
  /\ suspect' = suspect \cup Unsaved(d) \cup Orphan(d)

\* recover_complete ends every session and clears the device's token.
Recover(d) ==
  /\ ~session[d] /\ call[d] = "none"
  /\ RevokeAll
  /\ stored' = [stored EXCEPT ![d] = 0]
  /\ UNCHANGED <<session, access, refresh, call, retried, known, slot,
                 failures, history>>

-----------------------------------------------------------------------------
(* Everybody else. *)

Stranger ==
  /\ strangers < Strangers
  /\ strangers' = strangers + 1
  /\ \E r \in Requests :
       /\ Unused(r)
       /\ Ask(r)
       /\ LET f == {request'[r].family} \ {0}
          IN  IF request'[r].stage \in {"retire", "reuse"}
                THEN suspect' = suspect \cup f
                ELSE UNCHANGED suspect
  /\ UNCHANGED <<clientVars, failures>>

Server ==
  /\ \/ \E r \in Requests :
          \/ Serve(r)
          \/ (\A d \in Devices : slot[d] # r) /\ (Drop(r) \/ Release(r))
     \/ Tick
  /\ UNCHANGED <<clientVars, failures, history>>

ClientInit ==
  /\ Init
  /\ session = [d \in Devices |-> FALSE]
  /\ access = [d \in Devices |-> 0]
  /\ refresh = [d \in Devices |-> 0]
  /\ stored = [d \in Devices |-> 0]
  /\ known = {}
  /\ call = [d \in Devices |-> "none"]
  /\ retried = [d \in Devices |-> FALSE]
  /\ slot = [d \in Devices |-> NoRequest]
  /\ failures = 0
  /\ strangers = 0
  /\ suspect = {}

\* What a device does while its user works and the network is up.
Work(d) ==
  \/ Begin(d)
  \/ Served(d)
  \/ NextRequest(d)
  \/ Rotate(d)
  \/ GiveUp(d)
  \/ Granted(d)
  \/ Refused(d)

ClientNext ==
  \/ \E d \in Devices :
       \/ Login(d) \/ Unlock(d) \/ UnlockOffline(d)
       \/ Work(d)
       \/ Offline(d) \/ Broken(d) \/ Lost(d)
       \/ Lock(d) \/ Kill(d) \/ Recover(d)
  \/ Stranger
  \/ Server

ClientSpec == ClientInit /\ [][ClientNext]_vars

-----------------------------------------------------------------------------
(* Properties. *)

ClientTypeOK ==
  /\ TypeOK
  /\ session \in [Devices -> BOOLEAN]
  /\ access \in [Devices -> 0..MaxTokens]
  /\ refresh \in [Devices -> 0..MaxTokens]
  /\ stored \in [Devices -> 0..MaxTokens]
  /\ known \subseteq Devices
  /\ call \in [Devices -> Calls]
  /\ retried \in [Devices -> BOOLEAN]
  /\ slot \in [Devices -> Requests \cup {NoRequest}]
  /\ failures \in 0..MaxFailures
  /\ \A d \in Devices :
       /\ refresh[d] = 0 => access[d] = 0
       /\ stored[d] # 0 => d \in known
       /\ Waiting(d) => call[d] # "none"

EndsLivingSession(r) ==
  RevokeFamily(r) /\ \E t \in RowsOf({request[r].family}) : Active(t)

\* The reuse detection ends no session in use without a reason: a stranger has
\* presented a token of the family, or a device lost the answer to a refresh,
\* or its memory, before the new token was on disk.
NobodyWronglyAccused ==
  [][\A r \in Requests :
       EndsLivingSession(r) => request[r].family \in suspect]_vars
=============================================================================

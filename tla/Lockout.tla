--------------------------------- MODULE Lockout ---------------------------------
(***************************************************************************)
(* Logging in to one account, statement by statement: the budget of the    *)
(* address (rate_limit.rs), the lockout of the account after failed        *)
(* attempts (routes/auth.rs: login, fail; security.rs) and the alert for a *)
(* new device (notify_new_sign_in).  What the second factor decides is     *)
(* left open here; SecondFactor models it.                                 *)
(*                                                                         *)
(* Time is relative: a lock by the time it has left, a failure and a       *)
(* request by their age.  The account is locked and counted in the         *)
(* database, the budgets are in memory.                                    *)
(*                                                                         *)
(* The budget is shared with everything else that is charged to the        *)
(* address: other accounts, recoveries, what is typed wrong inside a       *)
(* session (which is charged without a check).  All that can only refuse a *)
(* login earlier, and a login here may always not start.                   *)
(***************************************************************************)
EXTENDS Integers, FiniteSets

CONSTANTS
  Callers,      \* the requests the server works on at a time
  Ips,          \* the addresses they come from
  Devices,      \* device labels
  Threshold,    \* LOCKOUT_THRESHOLD
  LockBase,     \* LOCKOUT_BASE_SECS
  LockCap,      \* LOCKOUT_CAP_SECS
  Budget,       \* MAX_FAILURES_PER_WINDOW
  Window,       \* WINDOW_SECS
  MaxLag,       \* bound on the age of a request that failed and is not counted yet
  MaxStreak,    \* bound on the failures in a row
  MaxSessions   \* bound on the open sessions of a device

ASSUME LockoutAssumption ==
  /\ Threshold \in Nat \ {0} /\ LockBase \in Nat \ {0} /\ LockCap \in Nat \ {0}
  /\ Budget \in Nat \ {0} /\ Window \in Nat \ {0}
  /\ IsFiniteSet(Callers)
  /\ MaxLag \in Nat /\ MaxStreak \in Nat /\ MaxSessions \in Nat

VARIABLES
  failed,    \* failed_attempts
  lock,      \* what is left until lockout_until
  recent,    \* recent[ip][t]: failed logins here, of the address, t ago; in memory
  active,    \* active[n]: sessions of device n that are open
  ended,     \* devices with a row of a session that is not open any more
  call,      \* call[c]: where the handler of request c stands
  streak,    \* logins that failed since the counter was last reset
  warned,    \* the owner was warned of those attempts
  told,      \* devices the owner was told of since they were last without a session
  mishaps    \* what overlapped, or was cut short, so far

account == <<failed, lock, streak, warned>>
devices == <<active, ended, told>>
vars == <<account, recent, devices, call, mishaps>>

Idle == [stage |-> "idle", ip |-> "", device |-> "", read |-> 0, age |-> 0, new |-> FALSE]

At(c, stage) == call[c].stage = stage
Move(c, stage) == call' = [call EXCEPT ![c].stage = stage]
End(c) == call' = [call EXCEPT ![c] = Idle]

-----------------------------------------------------------------------------
\* A login that failed and is not counted yet.
Uncounted(c) == At(c, "fail") \/ At(c, "count")
Rejected == {c \in Callers : Uncounted(c)}

\* The failures of an address, one by one: the k-th of those t ago.
OneByOne(times) == UNION {{t} \X (1 .. times[t]) : t \in DOMAIN times}

Failures(ip) == Cardinality(OneByOne(recent[ip]))

\* Mutant: one more failure than the budget.
Overspent(ip) == Failures(ip) > Budget

\* IpLimiter::check.
Exhausted(ip) == Failures(ip) >= Budget

\* The address, then the lock, then the password; the row is read once.  A login that
\* was right but lacks a verified address or a code changes nothing.
Login(c) ==
  /\ At(c, "idle") /\ lock = 0
  /\ \E ip \in Ips, n \in Devices, stage \in {"fail", "success"} :
       /\ ~Exhausted(ip)
       /\ stage = "fail" => failed < MaxStreak /\ streak < MaxStreak
       /\ streak' = IF stage = "fail" THEN streak + 1 ELSE streak
       /\ call' = [call EXCEPT ![c] =
            IF stage = "fail"
              THEN [Idle EXCEPT !.stage = stage, !.ip = ip, !.read = failed]
              ELSE [Idle EXCEPT !.stage = stage, !.device = n]]
  /\ UNCHANGED <<failed, lock, warned, recent, devices, mishaps>>

\* fail: record_failure ...
Record(c) ==
  /\ At(c, "fail")
  /\ recent' = IF call[c].age < Window
                 THEN [recent EXCEPT ![call[c].ip][call[c].age] = @ + 1] ELSE recent
  /\ Move(c, "count")
  /\ UNCHANGED <<account, devices, mishaps>>

\* A base shifted by so many doublings, of which there are six at most.
Shifted == <<1, 2, 4, 8, 16, 32, 64>>

LockoutDuration(n) ==
  LET doublings == IF n - Threshold < 6 THEN n - Threshold ELSE 6
      d == LockBase * Shifted[doublings + 1]
  IN  IF n < Threshold THEN 0 ELSE IF d < LockCap THEN d ELSE LockCap

\* Mutant: the counter starts again with every lock.
ForgetCount(n) == IF n >= Threshold THEN 0 ELSE n

Count(n) == n

\* ... the counter, written as it was read, plus one; the lock counts from the login ...
WriteCount(c) ==
  /\ failed' = Count(call[c].read + 1)
  /\ LET left == LockoutDuration(call[c].read + 1) - call[c].age
     IN  lock' = IF left > 0 THEN left ELSE 0
  /\ mishaps' = IF call[c].read # failed THEN mishaps \cup {"count"} ELSE mishaps

\* ... unless the statement fails, which the handler does not look at ...
LoseCount == mishaps' = mishaps \cup {"uncounted"} /\ UNCHANGED <<failed, lock>>

CountFailure(c) ==
  /\ At(c, "count")
  /\ WriteCount(c) \/ LoseCount
  /\ IF call[c].read + 1 = Threshold
       THEN call' = [call EXCEPT ![c] = [Idle EXCEPT !.stage = "warn"]] ELSE End(c)
  /\ UNCHANGED <<recent, devices, streak, warned>>

\* ... and the mail, once the threshold is reached.
Warn(c) ==
  /\ At(c, "warn")
  /\ warned' = TRUE
  /\ End(c)
  /\ UNCHANGED <<failed, lock, streak, recent, devices, mishaps>>

\* Logins that have failed and are still to be counted count from the reset on.
Reset ==
  /\ failed' = 0 /\ lock' = 0 /\ warned' = FALSE
  /\ streak' = Cardinality(Rejected)

\* The counter is reset first.
Succeed(c) ==
  /\ At(c, "success")
  /\ Reset
  /\ Move(c, "look")
  /\ UNCHANGED <<recent, devices, mishaps>>

\* A recovery or a change of password resets the counter, too.
Rekey ==
  /\ Reset
  /\ UNCHANGED <<recent, devices, call, mishaps>>

\* Mutant: sessions that were revoked count, too.
HasRow(n) == active[n] > 0 \/ n \in ended

HasSession(n) == active[n] > 0

\* active_session_with_name, before this login's row exists ...
Look(c) ==
  /\ At(c, "look")
  /\ call' = [call EXCEPT ![c].stage = "insert", ![c].new = ~HasSession(call[c].device)]
  /\ UNCHANGED <<account, recent, devices, mishaps>>

\* ... create_session, which purges what is long expired first ...
CreateSession(c) ==
  /\ At(c, "insert")
  /\ LET n == call[c].device
     IN  /\ active[n] < MaxSessions
         /\ active' = [active EXCEPT ![n] = @ + 1]
  /\ \E purged \in SUBSET ended : ended' = ended \ purged
  /\ IF call[c].new THEN Move(c, "notify") ELSE End(c)
  /\ UNCHANGED <<account, recent, told, mishaps>>

\* ... and notify_new_sign_in.
Notify(c) ==
  /\ At(c, "notify")
  /\ told' = told \cup {call[c].device}
  /\ End(c)
  /\ UNCHANGED <<account, recent, active, ended, mishaps>>

\* A login has seen the session.
KnewIt(c, n) == At(c, "insert") /\ call[c].device = n /\ ~call[c].new

\* A session is revoked, or expires.
SignOut ==
  /\ \E n \in Devices :
       /\ active[n] > 0
       /\ active' = [active EXCEPT ![n] = @ - 1]
       /\ ended' = ended \cup {n}
       /\ told' = IF active[n] = 1 THEN told \ {n} ELSE told
       /\ mishaps' = IF active[n] = 1 /\ \E c \in Callers : KnewIt(c, n)
                       THEN mishaps \cup {"lapse"} ELSE mishaps
  /\ UNCHANGED <<account, recent, call>>

-----------------------------------------------------------------------------
\* What is left undone when the handler stops.
Owing(c) == call[c].stage \in {"warn", "notify"}

CutShort(stopped) ==
  mishaps' = mishaps \cup (IF \E c \in stopped : Owing(c) THEN {"cut"} ELSE {})
                     \cup (IF \E c \in stopped : Uncounted(c) THEN {"uncounted"} ELSE {})

\* The client hangs up: the handler stops at an await.
Abandon(c) ==
  /\ ~At(c, "idle")
  /\ CutShort({c})
  /\ End(c)
  /\ UNCHANGED <<account, recent, devices>>

Fresh == [ip \in Ips |-> [t \in 0 .. Window - 1 |-> 0]]

\* The database stays, what is in memory does not.
Restart ==
  /\ recent' = Fresh
  /\ call' = [c \in Callers |-> Idle]
  /\ CutShort(Callers)
  /\ UNCHANGED <<account, devices>>

Tick ==
  /\ \A c \in Callers : Uncounted(c) => call[c].age < MaxLag
  /\ lock' = IF lock > 0 THEN lock - 1 ELSE 0
  /\ recent' = [ip \in Ips |-> [t \in 0 .. Window - 1 |-> IF t = 0 THEN 0 ELSE recent[ip][t - 1]]]
  /\ call' = [c \in Callers |-> IF Uncounted(c) THEN [call[c] EXCEPT !.age = @ + 1] ELSE call[c]]
  /\ UNCHANGED <<failed, streak, warned, devices, mishaps>>

Init ==
  /\ failed = 0 /\ lock = 0 /\ streak = 0 /\ warned = FALSE
  /\ recent = Fresh
  /\ active = [n \in Devices |-> 0] /\ ended = {} /\ told = {}
  /\ call = [c \in Callers |-> Idle]
  /\ mishaps = {}

Handle(c) ==
  \/ Login(c) \/ Record(c) \/ CountFailure(c) \/ Warn(c)
  \/ Succeed(c) \/ Look(c) \/ CreateSession(c) \/ Notify(c)
  \/ Abandon(c)

Next == (\E c \in Callers : Handle(c)) \/ Rekey \/ SignOut \/ Restart \/ Tick

Spec == Init /\ [][Next]_vars

-----------------------------------------------------------------------------
(* Properties. *)

Stages ==
  {"idle", "fail", "count", "warn", "success", "look", "insert", "notify"}

\* The budget is checked when a login starts and charged when it has failed: of the
\* logins to this account that an address fails within a window, all but one of
\* those that overlap may exceed it, one failure each.
TypeOK ==
  /\ failed \in 0 .. MaxStreak /\ streak \in Nat
  /\ lock \in 0 .. LockCap
  /\ \A ip \in Ips : Failures(ip) \in 0 .. Budget + Cardinality(Callers) - 1
  /\ active \in [Devices -> 0 .. MaxSessions]
  /\ ended \subseteq Devices /\ told \subseteq Devices
  /\ \A c \in Callers : call[c].stage \in Stages /\ call[c].age \in 0 .. MaxLag
  /\ warned \in BOOLEAN

\* "Record a failed attempt: bump the per-account ... counters, apply progressive
\* lockout, notify the owner" (auth.rs:31): every login that failed since the last reset
\* is in the counter or about to be, no lock stands without as many as the threshold,
\* and once they reach it the owner is warned.  The exceptions are a counter that was
\* written between the read and the write of another attempt, an attempt that ends
\* before its write or whose write fails, and a mail that was cut short: with any of the
\* first three, a failed attempt is in no counter.
FailuresCounted ==
  mishaps \cap {"count", "uncounted"} = {} =>
    /\ streak = failed + Cardinality(Rejected)
    /\ lock > 0 => failed >= Threshold
    /\ failed >= Threshold =>
         warned \/ "cut" \in mishaps \/ \E c \in Callers : At(c, "warn")

\* "A new device (or a re-login after the previous session lapsed) alerts the owner"
\* (auth.rs:150): no device has a session the owner was not told of, or is about to be.
\* The exceptions are a session that ends between the look and the insert, and a
\* mail that was cut short.
NewDeviceAlerted ==
  mishaps \cap {"lapse", "cut"} = {} =>
    \A n \in Devices :
      active[n] > 0 => n \in told \/ \E c \in Callers : At(c, "notify") /\ call[c].device = n
=============================================================================

----------------------------- MODULE LockoutProofs -----------------------------
(***************************************************************************)
(* Theorems about logging in (Lockout): failures are counted and locks     *)
(* stand on them, no device is signed in without an alert, and what the    *)
(* budget of an address and the cap of a lock bound.                       *)
(***************************************************************************)
EXTENDS Lockout, FiniteSetTheorems, TLAPS

(* The inductive invariant. *)

CallRecord ==
  [stage : Stages, ip : Ips \cup {""}, device : Devices \cup {""},
   read : Nat, age : Nat, new : BOOLEAN]

\* What TypeOK says without the budgets, of calls as a whole.
Shape ==
  /\ failed \in Nat /\ streak \in Nat
  /\ active \in [Devices -> Nat]
  /\ call \in [Callers -> CallRecord]
  /\ \A c \in Callers :
       call[c].stage \in {"success", "look", "insert", "notify"} => call[c].device \in Devices

\* A login that has seen a session of its device finds it still there.
SeenStays ==
  "lapse" \notin mishaps =>
    \A c \in Callers : At(c, "insert") /\ ~call[c].new => active[call[c].device] > 0

LockoutInv == Shape /\ SeenStays /\ FailuresCounted /\ NewDeviceAlerted

-----------------------------------------------------------------------------
(* One step of the call of one request. *)

\* What is left of a record after its stage has changed.
LEMMA Restaged ==
  ASSUME NEW x \in CallRecord, NEW stage \in Stages
  PROVE  /\ [x EXCEPT !.stage = stage] \in CallRecord
         /\ [x EXCEPT !.stage = stage].stage = stage
         /\ [x EXCEPT !.stage = stage].device = x.device
         /\ [x EXCEPT !.stage = stage].new = x.new
         /\ [x EXCEPT !.stage = stage].ip = x.ip
         /\ [x EXCEPT !.stage = stage].read = x.read
         /\ [x EXCEPT !.stage = stage].age = x.age
BY DEF CallRecord

\* The logins that failed and are not counted, and how many they are.
LEMMA RejectedFinite ==
  ASSUME LockoutAssumption
  PROVE  IsFiniteSet(Rejected) /\ Cardinality(Rejected) \in Nat /\ Cardinality(Rejected') \in Nat
<1>1. IsFiniteSet(Callers) /\ Rejected \in SUBSET Callers /\ Rejected' \in SUBSET Callers
  BY DEF LockoutAssumption, Rejected
<1>2. IsFiniteSet(Rejected) /\ IsFiniteSet(Rejected')
  BY <1>1, FS_Subset
<1>. QED BY <1>2, FS_CardinalityType

LEMMA SameRejected ==
  ASSUME NEW c \in Callers, \A e \in Callers \ {c} : call'[e] = call[e],
         call'[c].stage \in {"fail", "count"} <=> call[c].stage \in {"fail", "count"}
  PROVE  Rejected' = Rejected
BY DEF Rejected, Uncounted, At

LEMMA OneRejected ==
  ASSUME LockoutAssumption, NEW c \in Callers, \A e \in Callers \ {c} : call'[e] = call[e],
         call'[c].stage \in {"fail", "count"}, call[c].stage \notin {"fail", "count"}
  PROVE  Cardinality(Rejected') = Cardinality(Rejected) + 1
<1>1. Rejected' = Rejected \cup {c} /\ c \notin Rejected
  BY DEF Rejected, Uncounted, At
<1>. QED BY <1>1, RejectedFinite, FS_AddElement

LEMMA OneCounted ==
  ASSUME LockoutAssumption, NEW c \in Callers, \A e \in Callers \ {c} : call'[e] = call[e],
         call'[c].stage \notin {"fail", "count"}, call[c].stage \in {"fail", "count"}
  PROVE  Cardinality(Rejected) = Cardinality(Rejected') + 1
<1>1. Rejected' = Rejected \ {c} /\ c \in Rejected
  BY DEF Rejected, Uncounted, At
<1>2. Cardinality(Rejected \ {c}) = Cardinality(Rejected) - 1
  BY <1>1, RejectedFinite, FS_RemoveElement
<1>. QED BY <1>1, <1>2, RejectedFinite

LEMMA IdleShape == Idle \in CallRecord /\ Idle.stage = "idle"
BY DEF Idle, CallRecord, Stages

\* A step that moves one call, and neither counts nor tells anything; a login that fails
\* is on its way.
LEMMA QuietStep ==
  ASSUME LockoutInv, NEW c \in Callers, NEW x \in CallRecord,
         call' = [call EXCEPT ![c] = x],
         x.stage \in {"success", "look", "insert", "notify"} => x.device \in Devices,
         x.stage = "insert" /\ ~x.new => active[x.device] > 0,
         call[c].stage \notin {"warn", "notify"},
         streak' \in Nat,
         streak = failed + Cardinality(Rejected) => streak' = failed + Cardinality(Rejected'),
         UNCHANGED <<failed, lock, warned, active, told, mishaps>>
  PROVE  LockoutInv'
<1>1. /\ call'[c] = x /\ \A e \in Callers \ {c} : call'[e] = call[e]
      /\ call' \in [Callers -> CallRecord]
  BY DEF LockoutInv, Shape
<1>2. /\ failed' = failed /\ lock' = lock /\ warned' = warned
      /\ active' = active /\ told' = told /\ mishaps' = mishaps
  OBVIOUS
<1>3. Shape'
  <2>1. \A e \in Callers :
          call'[e].stage \in {"success", "look", "insert", "notify"} => call'[e].device \in Devices
    BY <1>1 DEF LockoutInv, Shape
  <2>. QED BY <1>1, <1>2, <2>1 DEF LockoutInv, Shape
<1>4. SeenStays'
  BY <1>1, <1>2 DEF LockoutInv, SeenStays, At
<1>5. FailuresCounted'
  <2>1. \A e \in Callers : At(e, "warn") => At(e, "warn")'
    BY <1>1 DEF At
  <2>. QED BY <1>2, <2>1 DEF LockoutInv, FailuresCounted
<1>6. NewDeviceAlerted'
  <2>1. \A e \in Callers : At(e, "notify") => At(e, "notify")' /\ call'[e].device = call[e].device
    BY <1>1 DEF At
  <2>. QED BY <1>2, <2>1 DEF LockoutInv, NewDeviceAlerted
<1>. QED BY <1>3, <1>4, <1>5, <1>6 DEF LockoutInv

\* A step that keeps the record of who has failed and is not counted.
LEMMA StillRejected ==
  ASSUME LockoutInv, NEW c \in Callers, \A e \in Callers \ {c} : call'[e] = call[e],
         call'[c].stage \in {"fail", "count"} <=> call[c].stage \in {"fail", "count"},
         streak' = streak
  PROVE  /\ streak' \in Nat
         /\ streak = failed + Cardinality(Rejected) => streak' = failed + Cardinality(Rejected')
BY SameRejected DEF LockoutInv, Shape

\* A step that starts the counters again.
LEMMA ResetStep ==
  ASSUME LockoutAssumption, Reset, Rejected' = Rejected
  PROVE  FailuresCounted' /\ failed' = 0 /\ streak' \in Nat
BY RejectedFinite DEF LockoutAssumption, Reset, FailuresCounted

-----------------------------------------------------------------------------
(* The invariant holds at first, and every step keeps it. *)

LEMMA LockoutInit == LockoutAssumption /\ Init => LockoutInv
<1>. SUFFICES ASSUME LockoutAssumption, Init PROVE LockoutInv
  OBVIOUS
<1>1. \A c \in Callers : call[c] = Idle
  BY DEF Init
<1>2. Shape
  BY <1>1, IdleShape DEF Init, Shape
<1>3. SeenStays
  BY <1>1, IdleShape DEF SeenStays, At
<1>4. FailuresCounted
  <2>1. Rejected = {}
    BY <1>1, IdleShape DEF Rejected, Uncounted, At
  <2>2. Cardinality(Rejected) = 0
    BY <2>1, FS_EmptySet
  <2>. QED BY <2>2 DEF Init, FailuresCounted, LockoutAssumption
<1>5. NewDeviceAlerted
  BY DEF Init, NewDeviceAlerted
<1>. QED BY <1>2, <1>3, <1>4, <1>5 DEF LockoutInv

LEMMA LoginKeeps ==
  ASSUME LockoutAssumption, LockoutInv, NEW c \in Callers, Login(c)
  PROVE  LockoutInv'
<1>1. PICK ip \in Ips, n \in Devices, stage \in {"fail", "success"} :
        /\ streak' = IF stage = "fail" THEN streak + 1 ELSE streak
        /\ call' = [call EXCEPT ![c] =
            IF stage = "fail"
              THEN [Idle EXCEPT !.stage = stage, !.ip = ip, !.read = failed]
              ELSE [Idle EXCEPT !.stage = stage, !.device = n]]
  BY DEF Login
<1>2. call[c].stage = "idle" /\ UNCHANGED <<failed, lock, warned, active, told, mishaps>>
  BY DEF Login, At, devices
<1>3. CASE stage = "fail"
  <2>. DEFINE x == [Idle EXCEPT !.stage = stage, !.ip = ip, !.read = failed]
  <2>1. x \in CallRecord /\ x.stage = "fail"
    BY <1>3 DEF Idle, CallRecord, Stages, LockoutInv, Shape
  <2>2. call' = [call EXCEPT ![c] = x]
    BY <1>1, <1>3
  <2>. HIDE DEF x
  <2>3. /\ \A e \in Callers \ {c} : call'[e] = call[e]
        /\ call'[c].stage = "fail"
    BY <2>1, <2>2 DEF LockoutInv, Shape
  <2>4. Cardinality(Rejected') = Cardinality(Rejected) + 1
    BY <1>2, <2>3, OneRejected
  <2>5. /\ streak' \in Nat
        /\ streak = failed + Cardinality(Rejected) => streak' = failed + Cardinality(Rejected')
    BY <1>1, <1>3, <2>4, RejectedFinite DEF LockoutInv, Shape
  <2>. QED BY <1>2, <2>1, <2>2, <2>5, QuietStep
<1>4. CASE stage = "success"
  <2>. DEFINE x == [Idle EXCEPT !.stage = stage, !.device = n]
  <2>1. x \in CallRecord /\ x.stage = "success" /\ x.device \in Devices
    BY <1>4 DEF Idle, CallRecord, Stages
  <2>2. call' = [call EXCEPT ![c] = x]
    BY <1>1, <1>4
  <2>. HIDE DEF x
  <2>3. /\ \A e \in Callers \ {c} : call'[e] = call[e]
        /\ call'[c].stage = "success" /\ streak' = streak
    BY <1>1, <1>4, <2>1, <2>2 DEF LockoutInv, Shape
  <2>4. /\ streak' \in Nat
        /\ streak = failed + Cardinality(Rejected) => streak' = failed + Cardinality(Rejected')
    BY <1>2, <2>3, StillRejected
  <2>. QED BY <1>2, <2>1, <2>2, <2>4, QuietStep
<1>. QED BY <1>3, <1>4

LEMMA RecordKeeps ==
  ASSUME LockoutInv, NEW c \in Callers, Record(c)
  PROVE  LockoutInv'
<1>. DEFINE x == [call[c] EXCEPT !.stage = "count"]
<1>1. x \in CallRecord /\ x.stage = "count"
  <2>1. call[c] \in CallRecord
    BY DEF LockoutInv, Shape
  <2>2. "count" \in Stages
    BY DEF Stages
  <2>. QED BY <2>1, <2>2, Restaged
<1>2. call' = [call EXCEPT ![c] = x]
  BY DEF Record, Move, LockoutInv, Shape
<1>3. /\ call[c].stage = "fail" /\ streak' = streak
      /\ UNCHANGED <<failed, lock, warned, active, told, mishaps>>
  BY DEF Record, At, devices, account
<1>. HIDE DEF x
<1>4. /\ \A e \in Callers \ {c} : call'[e] = call[e]
      /\ call'[c].stage = "count"
  BY <1>1, <1>2 DEF LockoutInv, Shape
<1>5. /\ streak' \in Nat
      /\ streak = failed + Cardinality(Rejected) => streak' = failed + Cardinality(Rejected')
  BY <1>3, <1>4, StillRejected
<1>. QED BY <1>1, <1>2, <1>3, <1>5, QuietStep

\* The one step that counts.
LEMMA CountFailureKeeps ==
  ASSUME LockoutAssumption, LockoutInv, NEW c \in Callers, CountFailure(c)
  PROVE  LockoutInv'
<1>. DEFINE x == IF call[c].read + 1 = Threshold
                   THEN [Idle EXCEPT !.stage = "warn"] ELSE Idle
<1>1. /\ x \in CallRecord /\ x.stage \in {"warn", "idle"}
      /\ call[c].read + 1 = Threshold => x.stage = "warn"
  BY DEF Idle, CallRecord, Stages
<1>2. call' = [call EXCEPT ![c] = x]
  BY DEF CountFailure, End
<1>. HIDE DEF x
<1>3. /\ call'[c] = x /\ \A e \in Callers \ {c} : call'[e] = call[e]
      /\ call' \in [Callers -> CallRecord]
  BY <1>1, <1>2 DEF LockoutInv, Shape
<1>4. /\ call[c].stage = "count" /\ call[c].read \in Nat /\ call[c].age \in Nat
      /\ streak' = streak /\ active' = active /\ told' = told /\ warned' = warned
      /\ WriteCount(c) \/ LoseCount
  BY DEF CountFailure, At, devices, LockoutInv, Shape, CallRecord
<1>5. /\ mishaps \subseteq mishaps' /\ failed' \in Nat
      /\ {"lapse", "cut"} \cap mishaps' = {"lapse", "cut"} \cap mishaps
      /\ \/ "uncounted" \in mishaps'
         \/ WriteCount(c) /\ (call[c].read # failed => "count" \in mishaps')
  <2>1. CASE WriteCount(c)
    BY <1>4, <2>1 DEF WriteCount, Count
  <2>2. CASE LoseCount
    BY <2>2 DEF LoseCount, LockoutInv, Shape
  <2>. QED BY <1>4, <2>1, <2>2
<1>6. Shape'
  BY <1>1, <1>3, <1>4, <1>5 DEF LockoutInv, Shape
<1>7. SeenStays'
  BY <1>1, <1>3, <1>4, <1>5 DEF LockoutInv, SeenStays, At
<1>8. FailuresCounted'
  <2>. SUFFICES ASSUME "count" \notin mishaps', "uncounted" \notin mishaps'
                PROVE  /\ streak' = failed' + Cardinality(Rejected')
                       /\ lock' > 0 => failed' >= Threshold
                       /\ failed' >= Threshold =>
                            \/ warned' \/ "cut" \in mishaps'
                            \/ \E e \in Callers : At(e, "warn")'
    BY DEF FailuresCounted
  <2>1. /\ call[c].read = failed /\ WriteCount(c)
        /\ mishaps \cap {"count", "uncounted"} = {}
        /\ streak = failed + Cardinality(Rejected)
    BY <1>5 DEF LockoutInv, FailuresCounted
  <2>2. failed' = call[c].read + 1 /\ streak' = failed' + Cardinality(Rejected')
    <3>1. Cardinality(Rejected) = Cardinality(Rejected') + 1
      BY <1>1, <1>3, <1>4, OneCounted
    <3>. QED BY <1>4, <2>1, <3>1, RejectedFinite DEF WriteCount, Count
  <2>3. lock' > 0 => failed' >= Threshold
    <3>1. CASE call[c].read + 1 < Threshold
      <4>1. LockoutDuration(call[c].read + 1) = 0
        BY <3>1 DEF LockoutDuration
      <4>2. lock' = 0
        BY <1>4, <2>1, <4>1 DEF WriteCount
      <4>. QED BY <4>2
    <3>. QED BY <1>4, <2>2, <3>1 DEF LockoutAssumption
  <2>4. failed' >= Threshold =>
          warned' \/ "cut" \in mishaps' \/ \E e \in Callers : At(e, "warn")'
    <3>1. CASE call[c].read + 1 = Threshold
      BY <1>1, <1>3, <3>1 DEF At
    <3>2. CASE call[c].read + 1 # Threshold
      <4>1. failed' >= Threshold => failed >= Threshold
        BY <1>4, <2>1, <2>2, <3>2 DEF LockoutAssumption
      <4>2. \A e \in Callers : At(e, "warn") => At(e, "warn")'
        BY <1>3, <1>4 DEF At
      <4>. QED BY <1>4, <1>5, <2>1, <4>1, <4>2 DEF LockoutInv, FailuresCounted
    <3>. QED BY <3>1, <3>2
  <2>. QED BY <2>2, <2>3, <2>4
<1>9. NewDeviceAlerted'
  <2>1. \A e \in Callers : At(e, "notify") => At(e, "notify")' /\ call'[e].device = call[e].device
    BY <1>3, <1>4 DEF At
  <2>. QED BY <1>4, <1>5, <2>1 DEF LockoutInv, NewDeviceAlerted
<1>. QED BY <1>6, <1>7, <1>8, <1>9 DEF LockoutInv

LEMMA WarnKeeps ==
  ASSUME LockoutInv, NEW c \in Callers, Warn(c)
  PROVE  LockoutInv'
<1>1. /\ call'[c] = Idle /\ \A e \in Callers \ {c} : call'[e] = call[e]
      /\ call' \in [Callers -> CallRecord]
  BY IdleShape DEF Warn, End, LockoutInv, Shape
<1>2. /\ call[c].stage = "warn" /\ warned' = TRUE
      /\ failed' = failed /\ lock' = lock /\ streak' = streak
      /\ active' = active /\ told' = told /\ mishaps' = mishaps
  BY DEF Warn, At, devices
<1>3. Shape'
  BY <1>1, <1>2, IdleShape DEF LockoutInv, Shape
<1>4. SeenStays'
  BY <1>1, <1>2, IdleShape DEF LockoutInv, SeenStays, At
<1>5. FailuresCounted'
  <2>1. Rejected' = Rejected
    BY <1>1, <1>2, IdleShape, SameRejected
  <2>. QED BY <1>2, <2>1 DEF LockoutInv, FailuresCounted
<1>6. NewDeviceAlerted'
  <2>1. \A e \in Callers : At(e, "notify") => At(e, "notify")' /\ call'[e].device = call[e].device
    BY <1>1, <1>2 DEF At
  <2>. QED BY <1>2, <2>1 DEF LockoutInv, NewDeviceAlerted
<1>. QED BY <1>3, <1>4, <1>5, <1>6 DEF LockoutInv

LEMMA SucceedKeeps ==
  ASSUME LockoutAssumption, LockoutInv, NEW c \in Callers, Succeed(c)
  PROVE  LockoutInv'
<1>. DEFINE x == [call[c] EXCEPT !.stage = "look"]
<1>1. x \in CallRecord /\ x.stage = "look" /\ x.device = call[c].device
  BY Restaged DEF LockoutInv, Shape, Stages
<1>2. call' = [call EXCEPT ![c] = x]
  BY DEF Succeed, Move, LockoutInv, Shape
<1>. HIDE DEF x
<1>3. /\ call'[c] = x /\ \A e \in Callers \ {c} : call'[e] = call[e]
      /\ call' \in [Callers -> CallRecord]
  BY <1>1, <1>2 DEF LockoutInv, Shape
<1>4. /\ call[c].stage = "success" /\ Reset
      /\ active' = active /\ told' = told /\ mishaps' = mishaps
  BY DEF Succeed, At, devices
<1>5. Rejected' = Rejected
  BY <1>1, <1>3, <1>4, SameRejected
<1>6. Shape'
  BY <1>1, <1>3, <1>4, <1>5, ResetStep DEF LockoutInv, Shape
<1>7. SeenStays'
  BY <1>1, <1>3, <1>4 DEF LockoutInv, SeenStays, At
<1>8. FailuresCounted'
  BY <1>4, <1>5, ResetStep
<1>9. NewDeviceAlerted'
  <2>1. \A e \in Callers : At(e, "notify") => At(e, "notify")' /\ call'[e].device = call[e].device
    BY <1>3, <1>4 DEF At
  <2>. QED BY <1>4, <2>1 DEF LockoutInv, NewDeviceAlerted
<1>. QED BY <1>6, <1>7, <1>8, <1>9 DEF LockoutInv

LEMMA RekeyKeeps ==
  ASSUME LockoutAssumption, LockoutInv, Rekey
  PROVE  LockoutInv'
<1>1. Reset /\ active' = active /\ told' = told /\ mishaps' = mishaps /\ call' = call
  BY DEF Rekey, devices
<1>2. Rejected' = Rejected
  BY <1>1 DEF Rejected, Uncounted, At
<1>3. Shape'
  BY <1>1, <1>2, ResetStep DEF LockoutInv, Shape
<1>4. SeenStays' /\ NewDeviceAlerted'
  BY <1>1 DEF LockoutInv, SeenStays, NewDeviceAlerted, At
<1>5. FailuresCounted'
  BY <1>1, <1>2, ResetStep
<1>. QED BY <1>3, <1>4, <1>5 DEF LockoutInv

LEMMA LookKeeps ==
  ASSUME LockoutInv, NEW c \in Callers, Look(c)
  PROVE  LockoutInv'
<1>. DEFINE x == [call[c] EXCEPT !.stage = "insert", !.new = ~HasSession(call[c].device)]
<1>1. call[c] \in CallRecord /\ call[c].stage = "look"
  BY DEF LockoutInv, Shape, Look, At
<1>2. call[c].device \in Devices
  BY <1>1 DEF LockoutInv, Shape
<1>3. /\ x \in CallRecord /\ x.stage = "insert" /\ x.device = call[c].device
      /\ x.new = ~HasSession(call[c].device)
  BY <1>1 DEF CallRecord, Stages, HasSession
<1>4. ~x.new => active[x.device] > 0
  BY <1>3 DEF HasSession
<1>5. call' = [call EXCEPT ![c] = x]
  BY DEF Look, LockoutInv, Shape
<1>6. streak' = streak /\ UNCHANGED <<failed, lock, warned, active, told, mishaps>>
  BY DEF Look, devices, account
<1>. HIDE DEF x
<1>7. /\ \A e \in Callers \ {c} : call'[e] = call[e]
      /\ call'[c].stage = "insert"
  BY <1>3, <1>5 DEF LockoutInv, Shape
<1>8. /\ streak' \in Nat
      /\ streak = failed + Cardinality(Rejected) => streak' = failed + Cardinality(Rejected')
  BY <1>1, <1>6, <1>7, StillRejected
<1>. QED BY <1>1, <1>2, <1>3, <1>4, <1>5, <1>6, <1>8, QuietStep

LEMMA CreateSessionKeeps ==
  ASSUME LockoutInv, NEW c \in Callers, CreateSession(c)
  PROVE  LockoutInv'
<1>1. PICK n \in Devices : n = call[c].device
  BY DEF LockoutInv, Shape, CreateSession, At
<1>2. /\ call[c].stage = "insert" /\ call[c] \in CallRecord
      /\ active' = [active EXCEPT ![n] = @ + 1]
      /\ failed' = failed /\ lock' = lock /\ streak' = streak /\ warned' = warned
      /\ told' = told /\ mishaps' = mishaps
  BY <1>1 DEF CreateSession, At, account, LockoutInv, Shape
<1>3. /\ active \in [Devices -> Nat] /\ active' \in [Devices -> Nat]
      /\ active'[n] = active[n] + 1 /\ \A m \in Devices \ {n} : active'[m] = active[m]
  BY <1>2 DEF LockoutInv, Shape
<1>4. /\ call' \in [Callers -> CallRecord] /\ \A e \in Callers \ {c} : call'[e] = call[e]
      /\ call[c].new => call'[c].stage = "notify" /\ call'[c].device = n
      /\ ~call[c].new => call'[c].stage = "idle"
  <2>1. CASE call[c].new
    <3>. DEFINE x == [call[c] EXCEPT !.stage = "notify"]
    <3>1. x \in CallRecord /\ x.stage = "notify" /\ x.device = n
      BY <1>1, <1>2, Restaged DEF Stages
    <3>2. call' = [call EXCEPT ![c] = x]
      BY <2>1 DEF CreateSession, Move, LockoutInv, Shape
    <3>. HIDE DEF x
    <3>. QED BY <2>1, <3>1, <3>2 DEF LockoutInv, Shape
  <2>2. CASE ~call[c].new
    <3>1. call' = [call EXCEPT ![c] = Idle]
      BY <2>2 DEF CreateSession, End
    <3>. QED BY <2>2, <3>1, IdleShape DEF LockoutInv, Shape
  <2>. QED BY <1>2, <2>1, <2>2 DEF CallRecord
<1>5. call[c].new \in BOOLEAN
  BY <1>2 DEF CallRecord
<1>6. Shape'
  <2>1. \A e \in Callers :
          call'[e].stage \in {"success", "look", "insert", "notify"} => call'[e].device \in Devices
    BY <1>4, <1>5 DEF LockoutInv, Shape
  <2>. QED BY <1>2, <1>3, <1>4, <2>1 DEF LockoutInv, Shape
<1>7. SeenStays'
  <2>. SUFFICES ASSUME "lapse" \notin mishaps', NEW e \in Callers,
                       call'[e].stage = "insert", ~call'[e].new
                PROVE  active'[call'[e].device] > 0
    BY DEF SeenStays, At
  <2>1. e # c /\ call'[e] = call[e]
    BY <1>4, <1>5
  <2>2. call[e].device \in Devices /\ active[call[e].device] > 0
    BY <1>2, <2>1 DEF LockoutInv, Shape, SeenStays, At
  <2>. QED BY <1>3, <2>1, <2>2
<1>8. FailuresCounted'
  <2>1. \A e \in Callers : At(e, "warn") => At(e, "warn")'
    BY <1>2, <1>4 DEF At
  <2>2. Rejected' = Rejected
    BY <1>2, <1>4, <1>5, SameRejected
  <2>. QED BY <1>2, <2>1, <2>2 DEF LockoutInv, FailuresCounted
<1>9. NewDeviceAlerted'
  <2>. SUFFICES ASSUME mishaps' \cap {"lapse", "cut"} = {}, NEW m \in Devices, active'[m] > 0
                PROVE  \/ m \in told'
                       \/ \E e \in Callers : At(e, "notify")' /\ call'[e].device = m
    BY DEF NewDeviceAlerted
  <2>1. \A e \in Callers : At(e, "notify") => At(e, "notify")' /\ call'[e].device = call[e].device
    BY <1>2, <1>4 DEF At
  <2>2. CASE active[m] > 0
    BY <1>2, <2>1, <2>2 DEF LockoutInv, NewDeviceAlerted
  <2>3. CASE ~(active[m] > 0)
    <3>1. m = n
      BY <1>3, <2>3
    <3>2. call[c].new
      <4>1. "lapse" \notin mishaps
        BY <1>2
      <4>. QED BY <1>1, <1>2, <2>3, <3>1, <4>1 DEF LockoutInv, SeenStays, At
    <3>. QED BY <1>4, <3>1, <3>2 DEF At
  <2>. QED BY <2>2, <2>3
<1>. QED BY <1>6, <1>7, <1>8, <1>9 DEF LockoutInv

LEMMA NotifyKeeps ==
  ASSUME LockoutInv, NEW c \in Callers, Notify(c)
  PROVE  LockoutInv'
<1>1. /\ call'[c] = Idle /\ \A e \in Callers \ {c} : call'[e] = call[e]
      /\ call' \in [Callers -> CallRecord]
  BY IdleShape DEF Notify, End, LockoutInv, Shape
<1>2. /\ call[c].stage = "notify" /\ told' = told \cup {call[c].device}
      /\ failed' = failed /\ lock' = lock /\ streak' = streak /\ warned' = warned
      /\ active' = active /\ mishaps' = mishaps
  BY DEF Notify, At, account
<1>3. Shape'
  BY <1>1, <1>2, IdleShape DEF LockoutInv, Shape
<1>4. SeenStays'
  BY <1>1, <1>2, IdleShape DEF LockoutInv, SeenStays, At
<1>5. FailuresCounted'
  <2>1. \A e \in Callers : At(e, "warn") => At(e, "warn")'
    BY <1>1, <1>2 DEF At
  <2>2. Rejected' = Rejected
    BY <1>1, <1>2, IdleShape, SameRejected
  <2>. QED BY <1>2, <2>1, <2>2 DEF LockoutInv, FailuresCounted
<1>6. NewDeviceAlerted'
  <2>1. \A e \in Callers :
          At(e, "notify") =>
            \/ At(e, "notify")' /\ call'[e].device = call[e].device
            \/ call[e].device \in told'
    BY <1>1, <1>2 DEF At
  <2>. QED BY <1>2, <2>1 DEF LockoutInv, NewDeviceAlerted
<1>. QED BY <1>3, <1>4, <1>5, <1>6 DEF LockoutInv

LEMMA SignOutKeeps ==
  ASSUME LockoutInv, SignOut
  PROVE  LockoutInv'
<1>1. PICK n \in Devices :
        /\ active[n] > 0
        /\ active' = [active EXCEPT ![n] = @ - 1]
        /\ told' = IF active[n] = 1 THEN told \ {n} ELSE told
        /\ mishaps' = IF active[n] = 1 /\ \E c \in Callers : KnewIt(c, n)
                        THEN mishaps \cup {"lapse"} ELSE mishaps
  BY DEF SignOut
<1>2. /\ failed' = failed /\ lock' = lock /\ streak' = streak /\ warned' = warned
      /\ call' = call
  BY DEF SignOut, account
<1>3. /\ active \in [Devices -> Nat] /\ active' \in [Devices -> Nat]
      /\ active'[n] = active[n] - 1 /\ \A m \in Devices \ {n} : active'[m] = active[m]
  BY <1>1 DEF LockoutInv, Shape
<1>4. /\ mishaps \subseteq mishaps'
      /\ {"count", "uncounted", "cut"} \cap mishaps' = {"count", "uncounted", "cut"} \cap mishaps
  BY <1>1
<1>5. Shape'
  BY <1>2, <1>3 DEF LockoutInv, Shape
<1>6. SeenStays'
  <2>. SUFFICES ASSUME "lapse" \notin mishaps', NEW e \in Callers,
                       At(e, "insert"), ~call[e].new
                PROVE  active'[call[e].device] > 0
    BY <1>2 DEF SeenStays, At
  <2>1. call[e].device \in Devices /\ active[call[e].device] > 0
    BY <1>4 DEF LockoutInv, Shape, SeenStays, At
  <2>2. call[e].device = n => active[n] # 1
    BY <1>1 DEF KnewIt
  <2>. QED BY <1>1, <1>3, <2>1, <2>2
<1>7. FailuresCounted'
  BY <1>2, <1>4 DEF LockoutInv, FailuresCounted, At, Rejected, Uncounted
<1>8. NewDeviceAlerted'
  <2>. SUFFICES ASSUME mishaps' \cap {"lapse", "cut"} = {}, NEW m \in Devices, active'[m] > 0
                PROVE  m \in told' \/ \E e \in Callers : At(e, "notify") /\ call[e].device = m
    BY <1>2 DEF NewDeviceAlerted, At
  <2>1. active[m] > 0 /\ (m = n => active[n] # 1)
    BY <1>1, <1>3
  <2>2. m \in told \/ \E e \in Callers : At(e, "notify") /\ call[e].device = m
    BY <1>4, <2>1 DEF LockoutInv, NewDeviceAlerted
  <2>. QED BY <1>1, <2>1, <2>2
<1>. QED BY <1>5, <1>6, <1>7, <1>8 DEF LockoutInv

\* A call ends, or all of them: what is still owed is noted.
LEMMA CutKeeps ==
  ASSUME LockoutInv, NEW gone \in SUBSET Callers,
         call' = [e \in Callers |-> IF e \in gone THEN Idle ELSE call[e]],
         CutShort(gone),
         UNCHANGED <<account, active, told>>
  PROVE  LockoutInv'
<1>1. /\ failed' = failed /\ lock' = lock /\ streak' = streak /\ warned' = warned
      /\ active' = active /\ told' = told
  BY DEF account
<1>2. \A e \in Callers : IF e \in gone THEN call'[e] = Idle ELSE call'[e] = call[e]
  OBVIOUS
<1>3. call' \in [Callers -> CallRecord]
  BY IdleShape DEF LockoutInv, Shape
<1>4. /\ mishaps \subseteq mishaps'
      /\ {"count", "lapse"} \cap mishaps' = {"count", "lapse"} \cap mishaps
      /\ \A e \in gone : Owing(e) => "cut" \in mishaps'
      /\ \A e \in gone : Uncounted(e) => "uncounted" \in mishaps'
  BY DEF CutShort
<1>5. Shape'
  BY <1>1, <1>2, <1>3, IdleShape DEF LockoutInv, Shape
<1>6. SeenStays'
  BY <1>1, <1>2, <1>4, IdleShape DEF LockoutInv, SeenStays, At
<1>7. FailuresCounted'
  <2>1. \A e \in Callers : At(e, "warn") => At(e, "warn")' \/ "cut" \in mishaps'
    BY <1>2, <1>4 DEF At, Owing
  <2>2. "uncounted" \in mishaps' \/ Rejected' = Rejected
    BY <1>2, <1>4, IdleShape DEF Rejected, Uncounted, At
  <2>. QED BY <1>1, <1>4, <2>1, <2>2 DEF LockoutInv, FailuresCounted
<1>8. NewDeviceAlerted'
  <2>1. \A e \in Callers :
          At(e, "notify") =>
            \/ At(e, "notify")' /\ call'[e].device = call[e].device
            \/ "cut" \in mishaps'
    BY <1>2, <1>4 DEF At, Owing
  <2>. QED BY <1>1, <1>4, <2>1 DEF LockoutInv, NewDeviceAlerted
<1>. QED BY <1>5, <1>6, <1>7, <1>8 DEF LockoutInv

LEMMA TickKeeps ==
  ASSUME LockoutAssumption, LockoutInv, Tick
  PROVE  LockoutInv'
<1>1. /\ failed' = failed /\ streak' = streak /\ warned' = warned
      /\ active' = active /\ told' = told /\ mishaps' = mishaps
      /\ lock' = IF lock > 0 THEN lock - 1 ELSE 0
      /\ call' = [c \in Callers |->
                    IF Uncounted(c) THEN [call[c] EXCEPT !.age = @ + 1] ELSE call[c]]
  BY DEF Tick, devices
<1>2. \A c \in Callers :
        /\ call'[c] \in CallRecord
        /\ call'[c].stage = call[c].stage /\ call'[c].device = call[c].device
        /\ call'[c].new = call[c].new
  <2>. SUFFICES ASSUME NEW c \in Callers
                PROVE  /\ call'[c] \in CallRecord
                       /\ call'[c].stage = call[c].stage /\ call'[c].device = call[c].device
                       /\ call'[c].new = call[c].new
    OBVIOUS
  <2>1. call[c] \in CallRecord
    BY DEF LockoutInv, Shape
  <2>4. call[c].age \in Nat
    BY <2>1 DEF CallRecord
  <2>5. PICK older \in Nat : older = call[c].age + 1
    BY <2>4
  <2>. DEFINE x == [call[c] EXCEPT !.age = older]
  <2>2. /\ x \in CallRecord
        /\ x.stage = call[c].stage /\ x.device = call[c].device /\ x.new = call[c].new
    BY <2>1 DEF CallRecord
  <2>3. call'[c] = x \/ call'[c] = call[c]
    BY <1>1, <2>5
  <2>. HIDE DEF x
  <2>. QED BY <2>1, <2>2, <2>3
<1>3. call' \in [Callers -> CallRecord]
  BY <1>1, <1>2
<1>4. Shape'
  BY <1>1, <1>2, <1>3 DEF LockoutInv, Shape
<1>5. SeenStays'
  BY <1>1, <1>2 DEF LockoutInv, SeenStays, At
<1>6. FailuresCounted'
  <2>1. lock' > 0 => lock > 0
    BY <1>1
  <2>2. Rejected' = Rejected
    BY <1>2 DEF Rejected, Uncounted, At
  <2>. QED BY <1>1, <1>2, <2>1, <2>2 DEF LockoutInv, FailuresCounted, At
<1>7. NewDeviceAlerted'
  BY <1>1, <1>2 DEF LockoutInv, NewDeviceAlerted, At
<1>. QED BY <1>4, <1>5, <1>6, <1>7 DEF LockoutInv

LEMMA LockoutStep ==
  LockoutAssumption /\ LockoutInv /\ [Next]_vars => LockoutInv'
<1>. SUFFICES ASSUME LockoutAssumption, LockoutInv, [Next]_vars PROVE LockoutInv'
  OBVIOUS
<1>1. ASSUME NEW c \in Callers, Handle(c) PROVE LockoutInv'
  <2>1. CASE Abandon(c)
    <3>. DEFINE gone == {c}
    <3>1. call' = [e \in Callers |-> IF e \in gone THEN Idle ELSE call[e]]
      BY <2>1 DEF Abandon, End, LockoutInv, Shape
    <3>2. CutShort(gone)
      BY <2>1 DEF Abandon
    <3>3. UNCHANGED <<account, active, told>>
      BY <2>1 DEF Abandon, devices
    <3>. QED BY <3>1, <3>2, <3>3, CutKeeps
  <2>. QED
    BY <1>1, <2>1, LoginKeeps, RecordKeeps, CountFailureKeeps, WarnKeeps, SucceedKeeps,
       LookKeeps, CreateSessionKeeps, NotifyKeeps DEF Handle
<1>2. CASE Restart
  <2>1. call' = [e \in Callers |-> IF e \in Callers THEN Idle ELSE call[e]]
    BY <1>2 DEF Restart
  <2>2. UNCHANGED <<account, active, told>>
    BY <1>2 DEF Restart, devices
  <2>. QED BY <1>2, <2>1, <2>2, CutKeeps DEF Restart
<1>3. CASE UNCHANGED vars
  BY <1>3 DEF vars, account, devices, LockoutInv, Shape, SeenStays, FailuresCounted,
              NewDeviceAlerted, At, Rejected, Uncounted
<1>. QED BY <1>1, <1>2, <1>3, RekeyKeeps, SignOutKeeps, TickKeeps DEF Next

LEMMA LockoutInvariant == Spec => []LockoutInv
<1>1. Init => LockoutInv
  BY LockoutInit, LockoutAssumption
<1>2. LockoutInv /\ [Next]_vars => LockoutInv'
  BY LockoutStep, LockoutAssumption
<1>. QED BY <1>1, <1>2, PTL DEF Spec

-----------------------------------------------------------------------------
(* Budgets and bounds. *)

\* The failures of an address as times since: so many of each age.
Times == [0 .. Window - 1 -> Nat]

LEMMA Listed ==
  ASSUME NEW f \in Times, NEW p
  PROVE  p \in OneByOne(f) <=>
           \E t \in 0 .. Window - 1, k \in Nat : p = <<t, k>> /\ 1 <= k /\ k <= f[t]
<1>1. ASSUME p \in OneByOne(f)
      PROVE  \E t \in 0 .. Window - 1, k \in Nat : p = <<t, k>> /\ 1 <= k /\ k <= f[t]
  <2>1. PICK t \in 0 .. Window - 1 : p \in {t} \X (1 .. f[t])
    BY <1>1 DEF OneByOne, Times
  <2>2. f[t] \in Nat
    BY DEF Times
  <2>3. PICK k \in 1 .. f[t] : p = <<t, k>>
    BY <2>1
  <2>. QED BY <2>2, <2>3
<1>2. ASSUME NEW t \in 0 .. Window - 1, NEW k \in Nat, p = <<t, k>>, 1 <= k, k <= f[t]
      PROVE  p \in OneByOne(f)
  <2>1. f[t] \in Nat
    BY DEF Times
  <2>2. p \in {t} \X (1 .. f[t])
    BY <1>2, <2>1
  <2>. QED BY <2>2 DEF OneByOne, Times
<1>. QED BY <1>1, <1>2

\* One more failure is one more.
LEMMA Charged ==
  ASSUME NEW f \in Times, NEW t \in 0 .. Window - 1, IsFiniteSet(OneByOne(f)),
         NEW g, g = [f EXCEPT ![t] = @ + 1]
  PROVE  /\ g \in Times /\ IsFiniteSet(OneByOne(g))
         /\ Cardinality(OneByOne(g)) = Cardinality(OneByOne(f)) + 1
<1>1. /\ g \in Times /\ f[t] \in Nat /\ g[t] = f[t] + 1
      /\ \A u \in 0 .. Window - 1 : f[u] \in Nat /\ (u # t => g[u] = f[u])
  BY DEF Times
<1>. DEFINE p == <<t, f[t] + 1>>
<1>2. p \notin OneByOne(f)
  BY <1>1, Listed
<1>3. OneByOne(g) \subseteq OneByOne(f) \cup {p}
  <2>. SUFFICES ASSUME NEW q \in OneByOne(g), q \notin OneByOne(f) PROVE q = p
    OBVIOUS
  <2>1. PICK u \in 0 .. Window - 1, k \in Nat : q = <<u, k>> /\ 1 <= k /\ k <= g[u]
    BY <1>1, Listed
  <2>2. ~(k <= f[u])
    BY <2>1, Listed
  <2>. QED BY <1>1, <2>1, <2>2
<1>4. OneByOne(f) \subseteq OneByOne(g)
  <2>. SUFFICES ASSUME NEW q \in OneByOne(f) PROVE q \in OneByOne(g)
    OBVIOUS
  <2>1. PICK u \in 0 .. Window - 1, k \in Nat : q = <<u, k>> /\ 1 <= k /\ k <= f[u]
    BY Listed
  <2>2. k <= g[u]
    BY <1>1, <2>1
  <2>. QED BY <1>1, <2>1, <2>2, Listed
<1>5. p \in OneByOne(g)
  <2>1. f[t] + 1 \in Nat /\ 1 <= f[t] + 1 /\ f[t] + 1 <= g[t]
    BY <1>1
  <2>. QED BY <1>1, <2>1, Listed
<1>6. OneByOne(g) = OneByOne(f) \cup {p}
  BY <1>3, <1>4, <1>5
<1>7. /\ IsFiniteSet(OneByOne(f) \cup {p})
      /\ Cardinality(OneByOne(f) \cup {p}) = Cardinality(OneByOne(f)) + 1
  <2>. HIDE DEF p
  <2>. QED BY <1>2, FS_AddElement
<1>. QED BY <1>1, <1>6, <1>7

\* No failure comes back as time goes by.
LEMMA Aged ==
  ASSUME NEW f \in Times, IsFiniteSet(OneByOne(f)), Window \in Nat \ {0},
         NEW g, g = [t \in 0 .. Window - 1 |-> IF t = 0 THEN 0 ELSE f[t - 1]]
  PROVE  /\ g \in Times /\ IsFiniteSet(OneByOne(g))
         /\ Cardinality(OneByOne(g)) <= Cardinality(OneByOne(f))
<1>1. \A t \in 0 .. Window - 1 : g[t] \in Nat /\ (t = 0 => g[t] = 0)
                                 /\ (t # 0 => t - 1 \in 0 .. Window - 1 /\ g[t] = f[t - 1])
  BY DEF Times
<1>2. g \in Times
  BY <1>1 DEF Times
<1>. DEFINE younger == [p \in OneByOne(g) |-> <<p[1] - 1, p[2]>>]
<1>3. ASSUME NEW p \in OneByOne(g)
      PROVE  \E t \in 1 .. Window - 1, k \in Nat :
               p = <<t, k>> /\ younger[p] = <<t - 1, k>> /\ younger[p] \in OneByOne(f)
  <2>1. PICK t \in 0 .. Window - 1, k \in Nat : p = <<t, k>> /\ 1 <= k /\ k <= g[t]
    BY <1>2, Listed
  <2>2. t # 0 /\ t - 1 \in 0 .. Window - 1 /\ k <= f[t - 1]
    BY <1>1, <2>1
  <2>3. younger[p] = <<t - 1, k>>
    BY <2>1
  <2>4. <<t - 1, k>> \in OneByOne(f)
    BY <2>1, <2>2, Listed
  <2>5. t \in 1 .. Window - 1
    BY <2>2
  <2>. HIDE DEF younger
  <2>. QED BY <2>1, <2>3, <2>4, <2>5
<1>4. younger \in [OneByOne(g) -> OneByOne(f)]
  BY <1>3
<1>5. ASSUME NEW p \in OneByOne(g), NEW q \in OneByOne(g), younger[p] = younger[q]
      PROVE  p = q
  <2>1. PICK t \in 1 .. Window - 1, k \in Nat : p = <<t, k>> /\ younger[p] = <<t - 1, k>>
    BY <1>3
  <2>2. PICK u \in 1 .. Window - 1, j \in Nat : q = <<u, j>> /\ younger[q] = <<u - 1, j>>
    BY <1>3
  <2>3. t - 1 = u - 1 /\ k = j
    BY <1>5, <2>1, <2>2
  <2>. QED BY <2>1, <2>2, <2>3
<1>. HIDE DEF younger
<1>6. younger \in Injection(OneByOne(g), OneByOne(f))
  BY <1>4, <1>5 DEF Injection, IsInjective
<1>. QED BY <1>2, <1>6, FS_Injection

LEMMA Unfailed ==
  ASSUME NEW f, f = [t \in 0 .. Window - 1 |-> 0]
  PROVE  f \in Times /\ IsFiniteSet(OneByOne(f)) /\ Cardinality(OneByOne(f)) = 0
<1>1. f \in Times
  BY DEF Times
<1>2. ASSUME NEW p \in OneByOne(f) PROVE FALSE
  <2>1. PICK t \in 0 .. Window - 1, k \in Nat : p = <<t, k>> /\ 1 <= k /\ k <= f[t]
    BY <1>1, Listed
  <2>. QED BY <2>1
<1>. QED BY <1>1, <1>2, FS_EmptySet

\* The failures an address still owes to its budget.
Owed(ip) == {c \in Callers : At(c, "fail") /\ call[c].ip = ip}

\* What was let in on the budget is recorded or owed; all but one of the
\* calls that overlap may exceed it, by one failure each.
BudgetKept ==
  \A ip \in Ips :
    /\ recent[ip] \in Times /\ IsFiniteSet(OneByOne(recent[ip]))
    /\ Failures(ip) + Cardinality(Owed(ip)) <= Budget + Cardinality(Callers) - 1

\* A failure on its way was read below the bound and is younger than the bound.
CallsBounded ==
  \A c \in Callers :
    /\ call[c].age \in 0 .. MaxLag
    /\ Uncounted(c) => call[c].ip \in Ips /\ call[c].read \in 0 .. MaxStreak - 1

CountersBounded ==
  /\ failed \in 0 .. MaxStreak
  /\ lock \in 0 .. LockCap
  /\ active \in [Devices -> 0 .. MaxSessions]
  /\ ended \subseteq Devices /\ told \subseteq Devices
  /\ recent = [ip \in Ips |-> recent[ip]]

BoundsInv == CountersBounded /\ CallsBounded /\ BudgetKept /\ warned \in BOOLEAN

LEMMA OwedFinite ==
  ASSUME LockoutAssumption, NEW ip
  PROVE  /\ IsFiniteSet(Owed(ip)) /\ Cardinality(Owed(ip)) \in Nat
         /\ Cardinality(Callers) \in Nat
         /\ Cardinality(Owed(ip)) <= Cardinality(Callers)
         /\ Cardinality(Owed(ip)') \in Nat
         /\ Cardinality(Owed(ip)') <= Cardinality(Callers)
         /\ Owed(ip)' \subseteq Owed(ip) => Cardinality(Owed(ip)') <= Cardinality(Owed(ip))
<1>1. IsFiniteSet(Callers) /\ Owed(ip) \in SUBSET Callers /\ Owed(ip)' \in SUBSET Callers
  BY DEF LockoutAssumption, Owed
<1>2. /\ IsFiniteSet(Owed(ip)) /\ Cardinality(Owed(ip)) <= Cardinality(Callers)
      /\ IsFiniteSet(Owed(ip)') /\ Cardinality(Owed(ip)') <= Cardinality(Callers)
  BY <1>1, FS_Subset
<1>3. /\ Cardinality(Owed(ip)) \in Nat /\ Cardinality(Owed(ip)') \in Nat
      /\ Cardinality(Callers) \in Nat
  BY <1>1, <1>2, FS_CardinalityType
<1>4. Owed(ip)' \subseteq Owed(ip) => Cardinality(Owed(ip)') <= Cardinality(Owed(ip))
  BY <1>2, FS_Subset
<1>. QED BY <1>2, <1>3, <1>4

\* No failure is recorded, and none begins.
LEMMA NothingOwed ==
  ASSUME LockoutAssumption, BudgetKept, recent' = recent,
         \A c \in Callers : At(c, "fail")' => At(c, "fail") /\ call'[c].ip = call[c].ip
  PROVE  BudgetKept'
<1>. SUFFICES ASSUME NEW ip \in Ips
              PROVE  /\ recent'[ip] \in Times /\ IsFiniteSet(OneByOne(recent'[ip]))
                     /\ Failures(ip)' + Cardinality(Owed(ip)') <= Budget + Cardinality(Callers) - 1
  BY DEF BudgetKept
<1>1. Owed(ip)' \subseteq Owed(ip)
  BY DEF Owed
<1>2. Cardinality(Owed(ip)') <= Cardinality(Owed(ip))
  BY <1>1, OwedFinite
<1>3. /\ recent[ip] \in Times /\ IsFiniteSet(OneByOne(recent[ip]))
      /\ Failures(ip) + Cardinality(Owed(ip)) <= Budget + Cardinality(Callers) - 1
  BY DEF BudgetKept
<1>4. Failures(ip) \in Nat /\ Budget \in Nat
  BY <1>3, FS_CardinalityType DEF Failures, LockoutAssumption
<1>5. Failures(ip)' = Failures(ip)
  BY DEF Failures
<1>. QED BY <1>2, <1>3, <1>4, <1>5, OwedFinite

\* A login begins on a budget that is not exhausted.
LEMMA LoginBudget ==
  ASSUME LockoutAssumption, LockoutInv, BudgetKept, NEW c \in Callers, Login(c)
  PROVE  BudgetKept'
<1>1. PICK spent \in Ips, n \in Devices, stage \in {"fail", "success"} :
        /\ ~Exhausted(spent)
        /\ call' = [call EXCEPT ![c] =
             IF stage = "fail"
               THEN [Idle EXCEPT !.stage = stage, !.ip = spent, !.read = failed]
               ELSE [Idle EXCEPT !.stage = stage, !.device = n]]
  BY DEF Login
<1>2. /\ recent' = recent
      /\ \A e \in Callers \ {c} : call'[e] = call[e]
      /\ call'[c].stage = "fail" => call'[c].ip = spent
  BY <1>1 DEF Login, LockoutInv, Shape, Idle
<1>. SUFFICES ASSUME NEW ip \in Ips
              PROVE  /\ recent'[ip] \in Times /\ IsFiniteSet(OneByOne(recent'[ip]))
                     /\ Failures(ip)' + Cardinality(Owed(ip)') <= Budget + Cardinality(Callers) - 1
  BY DEF BudgetKept
<1>3. /\ recent[ip] \in Times /\ IsFiniteSet(OneByOne(recent[ip]))
      /\ Failures(ip) + Cardinality(Owed(ip)) <= Budget + Cardinality(Callers) - 1
  BY DEF BudgetKept
<1>4. Failures(ip)' = Failures(ip) /\ Failures(ip) \in Nat /\ Budget \in Nat
  BY <1>2, <1>3, FS_CardinalityType DEF Failures, LockoutAssumption
<1>5. CASE ip = spent
  <2>1. Failures(ip) < Budget
    BY <1>1, <1>4, <1>5 DEF Exhausted
  <2>. QED BY <1>2, <1>3, <1>4, <2>1, OwedFinite
<1>6. CASE ip # spent
  <2>1. Owed(ip)' \subseteq Owed(ip)
    BY <1>2, <1>6 DEF Owed, At
  <2>. QED BY <1>2, <1>3, <1>4, <2>1, OwedFinite
<1>. QED BY <1>5, <1>6

\* What was owed is recorded, or too old to count.
LEMMA RecordBudget ==
  ASSUME LockoutAssumption, LockoutInv, BoundsInv, NEW c \in Callers, Record(c)
  PROVE  BudgetKept' /\ recent' = [ip \in Ips |-> recent'[ip]]
<1>. DEFINE paid == call[c].ip
            age == call[c].age
<1>1. /\ At(c, "fail") /\ paid \in Ips /\ age \in Nat
      /\ recent' = IF age < Window THEN [recent EXCEPT ![paid][age] = @ + 1] ELSE recent
      /\ call'[c].stage = "count" /\ \A e \in Callers \ {c} : call'[e] = call[e]
  BY DEF Record, Move, At, Uncounted, BoundsInv, CallsBounded, LockoutInv, Shape, CallRecord
<1>2. \A ip \in Ips : recent[ip] \in Times
  BY DEF BoundsInv, BudgetKept
<1>3. recent = [ip \in Ips |-> recent[ip]]
  BY DEF BoundsInv, CountersBounded
<1>4. /\ recent' = [ip \in Ips |-> recent'[ip]]
      /\ recent'[paid] = IF age < Window THEN [recent[paid] EXCEPT ![age] = @ + 1] ELSE recent[paid]
      /\ \A ip \in Ips \ {paid} : recent'[ip] = recent[ip]
  <2>. HIDE DEF paid, age
  <2>. QED BY <1>1, <1>3
<1>. SUFFICES ASSUME NEW ip \in Ips
              PROVE  /\ recent'[ip] \in Times /\ IsFiniteSet(OneByOne(recent'[ip]))
                     /\ Failures(ip)' + Cardinality(Owed(ip)') <= Budget + Cardinality(Callers) - 1
  BY <1>4 DEF BudgetKept
<1>5. /\ recent[ip] \in Times /\ IsFiniteSet(OneByOne(recent[ip]))
      /\ Failures(ip) + Cardinality(Owed(ip)) <= Budget + Cardinality(Callers) - 1
  BY DEF BoundsInv, BudgetKept
<1>6. Failures(ip) \in Nat /\ Budget \in Nat
  BY <1>5, FS_CardinalityType DEF Failures, LockoutAssumption
<1>7. CASE ip = paid
  <2>1. Owed(ip)' = Owed(ip) \ {c} /\ c \in Owed(ip)
    BY <1>1, <1>7 DEF Owed, At
  <2>2. Cardinality(Owed(ip)') = Cardinality(Owed(ip)) - 1
    <3>1. IsFiniteSet(Owed(ip))
      BY OwedFinite
    <3>2. Cardinality(Owed(ip) \ {c}) = Cardinality(Owed(ip)) - 1
      BY <2>1, <3>1, FS_RemoveElement
    <3>. QED BY <2>1, <3>2
  <2>3. /\ recent'[ip] \in Times /\ IsFiniteSet(OneByOne(recent'[ip]))
        /\ Failures(ip)' \in {Failures(ip), Failures(ip) + 1}
    <3>1. CASE age < Window
      <4>1. age \in 0 .. Window - 1 /\ recent'[ip] = [recent[ip] EXCEPT ![age] = @ + 1]
        BY <1>1, <1>4, <1>7, <3>1 DEF LockoutAssumption
      <4>. HIDE DEF age, paid
      <4>. QED BY <1>5, <4>1, Charged DEF Failures
    <3>2. CASE ~(age < Window)
      BY <1>4, <1>5, <1>7, <3>2 DEF Failures
    <3>. QED BY <3>1, <3>2
  <2>. QED BY <1>5, <1>6, <2>2, <2>3, OwedFinite
<1>8. CASE ip # paid
  <2>1. Owed(ip)' = Owed(ip)
    BY <1>1, <1>8 DEF Owed, At
  <2>2. recent'[ip] = recent[ip]
    BY <1>4, <1>8
  <2>. QED BY <1>5, <2>1, <2>2 DEF Failures
<1>. QED BY <1>7, <1>8

LEMMA RestartBudget ==
  ASSUME LockoutAssumption, Restart
  PROVE  BudgetKept' /\ recent' = [ip \in Ips |-> recent'[ip]]
<1>1. recent' = [ip \in Ips |-> [t \in 0 .. Window - 1 |-> 0]]
  BY DEF Restart, Fresh
<1>. SUFFICES ASSUME NEW ip \in Ips
              PROVE  /\ recent'[ip] \in Times /\ IsFiniteSet(OneByOne(recent'[ip]))
                     /\ Failures(ip)' + Cardinality(Owed(ip)') <= Budget + Cardinality(Callers) - 1
  BY <1>1 DEF BudgetKept
<1>2. recent'[ip] \in Times /\ IsFiniteSet(OneByOne(recent'[ip])) /\ Failures(ip)' = 0
  BY <1>1, Unfailed DEF Failures
<1>. QED BY <1>2, OwedFinite DEF LockoutAssumption

LEMMA TickBudget ==
  ASSUME LockoutAssumption, LockoutInv, BoundsInv, Tick
  PROVE  BudgetKept' /\ recent' = [ip \in Ips |-> recent'[ip]]
<1>1. /\ recent' = [ip \in Ips |->
           [t \in 0 .. Window - 1 |-> IF t = 0 THEN 0 ELSE recent[ip][t - 1]]]
      /\ call' = [c \in Callers |->
           IF Uncounted(c) THEN [call[c] EXCEPT !.age = @ + 1] ELSE call[c]]
  BY DEF Tick
<1>2. \A c \in Callers : call'[c].stage = call[c].stage /\ call'[c].ip = call[c].ip
  BY <1>1 DEF LockoutInv, Shape, CallRecord
<1>. SUFFICES ASSUME NEW ip \in Ips
              PROVE  /\ recent'[ip] \in Times /\ IsFiniteSet(OneByOne(recent'[ip]))
                     /\ Failures(ip)' + Cardinality(Owed(ip)') <= Budget + Cardinality(Callers) - 1
  BY <1>1 DEF BudgetKept
<1>3. /\ recent[ip] \in Times /\ IsFiniteSet(OneByOne(recent[ip]))
      /\ Failures(ip) + Cardinality(Owed(ip)) <= Budget + Cardinality(Callers) - 1
  BY DEF BoundsInv, BudgetKept
<1>4. Owed(ip)' = Owed(ip)
  BY <1>2 DEF Owed, At
<1>5. /\ recent'[ip] \in Times /\ IsFiniteSet(OneByOne(recent'[ip]))
      /\ Failures(ip)' <= Failures(ip)
  BY <1>1, <1>3, Aged DEF Failures, LockoutAssumption
<1>6. Failures(ip) \in Nat /\ Failures(ip)' \in Nat /\ Budget \in Nat
  BY <1>3, <1>5, FS_CardinalityType DEF Failures, LockoutAssumption
<1>. QED BY <1>3, <1>4, <1>5, <1>6, OwedFinite

\* A lock is at most LockCap, however many failures it stands on.
LEMMA DurationCapped ==
  ASSUME LockoutAssumption, NEW n \in Int
  PROVE  LockoutDuration(n) \in 0 .. LockCap
<1>. DEFINE doublings == IF n - Threshold < 6 THEN n - Threshold ELSE 6
<1>1. CASE n < Threshold
  BY <1>1 DEF LockoutDuration, LockoutAssumption
<1>2. CASE ~(n < Threshold)
  <2>1. doublings + 1 \in 1 .. 7
    BY <1>2 DEF LockoutAssumption
  <2>2. Shifted[doublings + 1] \in Nat
    <3>. HIDE DEF doublings
    <3>. QED BY <2>1 DEF Shifted
  <2>. HIDE DEF doublings
  <2>3. LockBase * Shifted[doublings + 1] \in Nat
    <3>1. \A a, b \in Nat : a * b \in Nat
      OBVIOUS
    <3>. QED BY <2>2, <3>1 DEF LockoutAssumption
  <2>4. LockoutDuration(n) = IF LockBase * Shifted[doublings + 1] < LockCap
                               THEN LockBase * Shifted[doublings + 1] ELSE LockCap
    BY <1>2 DEF LockoutDuration, doublings
  <2>. QED BY <2>3, <2>4 DEF LockoutAssumption
<1>. QED BY <1>1, <1>2

LEMMA CountersStep ==
  ASSUME LockoutAssumption, LockoutInv, BoundsInv, [Next]_vars,
         recent' = [ip \in Ips |-> recent'[ip]]
  PROVE  CountersBounded'
<1>. USE DEF CountersBounded, account, devices
<1>1. CountersBounded /\ MaxStreak \in Nat /\ MaxSessions \in Nat /\ LockCap \in Nat
  BY DEF BoundsInv, LockoutAssumption
<1>2. ASSUME NEW c \in Callers, CountFailure(c)
      PROVE  CountersBounded'
  <2>1. call[c].read \in 0 .. MaxStreak - 1 /\ call[c].age \in 0 .. MaxLag
    BY <1>2 DEF CountFailure, BoundsInv, CallsBounded, Uncounted
  <2>2. failed' \in 0 .. MaxStreak
    BY <1>1, <1>2, <2>1 DEF CountFailure, WriteCount, LoseCount, Count
  <2>3. lock' \in 0 .. LockCap
    <3>1. LockoutDuration(call[c].read + 1) \in 0 .. LockCap
      BY <1>1, <2>1, DurationCapped
    <3>. QED BY <1>1, <1>2, <2>1, <3>1
         DEF CountFailure, WriteCount, LoseCount, LockoutAssumption
  <2>. QED BY <1>1, <1>2, <2>2, <2>3 DEF CountFailure
<1>3. ASSUME NEW c \in Callers, CreateSession(c)
      PROVE  CountersBounded'
  <2>1. active' \in [Devices -> 0 .. MaxSessions]
    <3>1. PICK n \in Devices : n = call[c].device
      BY <1>3 DEF CreateSession, At, LockoutInv, Shape
    <3>2. active[n] < MaxSessions /\ active' = [active EXCEPT ![n] = @ + 1]
      BY <1>3, <3>1 DEF CreateSession
    <3>. QED BY <1>1, <3>2
  <2>2. ended' \subseteq Devices
    BY <1>1, <1>3 DEF CreateSession
  <2>. QED BY <1>1, <1>3, <2>1, <2>2 DEF CreateSession
<1>4. ASSUME NEW c \in Callers, Notify(c)
      PROVE  CountersBounded'
  <2>1. call[c].device \in Devices
    BY <1>4 DEF Notify, At, LockoutInv, Shape
  <2>. QED BY <1>1, <1>4, <2>1 DEF Notify
<1>5. CASE SignOut
  <2>1. PICK n \in Devices :
          /\ active[n] > 0
          /\ active' = [active EXCEPT ![n] = @ - 1]
          /\ ended' = ended \cup {n}
          /\ told' = IF active[n] = 1 THEN told \ {n} ELSE told
    BY <1>5 DEF SignOut
  <2>2. active' \in [Devices -> 0 .. MaxSessions]
    BY <1>1, <2>1
  <2>3. ended' \subseteq Devices /\ told' \subseteq Devices
    BY <1>1, <2>1
  <2>. QED BY <1>1, <1>5, <2>2, <2>3 DEF SignOut
<1>6. CASE Tick
  <2>1. lock' \in 0 .. LockCap
    BY <1>1, <1>6 DEF Tick
  <2>. QED BY <1>1, <1>6, <2>1 DEF Tick
<1>7. ASSUME NEW c \in Callers, Login(c) \/ Record(c) \/ Look(c) \/ Abandon(c)
      PROVE  CountersBounded'
  BY <1>1, <1>7 DEF Login, Record, Look, Abandon
<1>8. ASSUME NEW c \in Callers, Warn(c) \/ Succeed(c)
      PROVE  CountersBounded'
  BY <1>1, <1>8 DEF Warn, Succeed, Reset
<1>9. CASE Rekey \/ Restart \/ UNCHANGED vars
  BY <1>1, <1>9 DEF Rekey, Reset, Restart, vars
<1>. QED BY <1>2, <1>3, <1>4, <1>5, <1>6, <1>7, <1>8, <1>9 DEF Next, Handle

\* A step of one call.
LEMMA OneBounded ==
  ASSUME LockoutInv, CallsBounded, NEW c \in Callers, NEW x,
         call' = [call EXCEPT ![c] = x],
         x.age \in 0 .. MaxLag,
         x.stage \in {"fail", "count"} => x.ip \in Ips /\ x.read \in 0 .. MaxStreak - 1
  PROVE  CallsBounded'
<1>1. call'[c] = x /\ \A e \in Callers \ {c} : call'[e] = call[e]
  BY DEF LockoutInv, Shape
<1>. QED BY <1>1 DEF CallsBounded, Uncounted, At

LEMMA CallsStep ==
  ASSUME LockoutAssumption, LockoutInv, BoundsInv, [Next]_vars
  PROVE  CallsBounded'
<1>1. /\ call \in [Callers -> CallRecord] /\ CallsBounded /\ 0 \in 0 .. MaxLag
      /\ failed \in Nat
  BY DEF LockoutInv, Shape, BoundsInv, LockoutAssumption
<1>2. ASSUME NEW c \in Callers, Login(c)
      PROVE  CallsBounded'
  <2>1. PICK ip \in Ips, n \in Devices, stage \in {"fail", "success"} :
          /\ stage = "fail" => failed < MaxStreak
          /\ call' = [call EXCEPT ![c] =
               IF stage = "fail"
                 THEN [Idle EXCEPT !.stage = stage, !.ip = ip, !.read = failed]
                 ELSE [Idle EXCEPT !.stage = stage, !.device = n]]
    BY <1>2 DEF Login
  <2>. DEFINE x == IF stage = "fail"
                     THEN [Idle EXCEPT !.stage = stage, !.ip = ip, !.read = failed]
                     ELSE [Idle EXCEPT !.stage = stage, !.device = n]
  <2>2. x.age = 0 /\ (stage = "fail" => x.ip = ip /\ x.read = failed) /\ x.stage = stage
    BY DEF Idle
  <2>3. call' = [call EXCEPT ![c] = x]
    BY <2>1
  <2>4. stage = "fail" => failed \in 0 .. MaxStreak - 1
    BY <1>1, <2>1 DEF LockoutAssumption
  <2>. HIDE DEF x
  <2>. QED BY <1>1, <2>2, <2>3, <2>4, OneBounded
<1>3. ASSUME NEW c \in Callers, NEW stage \in Stages \ {"fail"}, Move(c, stage),
             stage = "count" => At(c, "fail")
      PROVE  CallsBounded'
  <2>. DEFINE x == [call[c] EXCEPT !.stage = stage]
  <2>1. x.stage = stage /\ x.age = call[c].age /\ x.ip = call[c].ip /\ x.read = call[c].read
    BY <1>1, Restaged
  <2>2. call' = [call EXCEPT ![c] = x]
    BY <1>1, <1>3 DEF Move
  <2>3. /\ call[c].age \in 0 .. MaxLag
        /\ stage = "count" => call[c].ip \in Ips /\ call[c].read \in 0 .. MaxStreak - 1
    BY <1>1, <1>3 DEF CallsBounded, Uncounted
  <2>. HIDE DEF x
  <2>. QED BY <1>1, <1>3, <2>1, <2>2, <2>3, OneBounded
<1>4. ASSUME NEW c \in Callers, NEW stage \in {"idle", "warn"},
             call' = [call EXCEPT ![c] = [Idle EXCEPT !.stage = stage]]
      PROVE  CallsBounded'
  <2>1. [Idle EXCEPT !.stage = stage].age = 0 /\ [Idle EXCEPT !.stage = stage].stage = stage
    BY DEF Idle
  <2>. QED BY <1>1, <1>4, <2>1, OneBounded
<1>5. ASSUME NEW c \in Callers, End(c)
      PROVE  CallsBounded'
  <2>1. Idle.age = 0 /\ Idle.stage = "idle"
    BY DEF Idle
  <2>. QED BY <1>1, <1>5, <2>1, OneBounded DEF End
<1>6. ASSUME NEW c \in Callers, Record(c) \/ Succeed(c)
      PROVE  CallsBounded'
  BY <1>3, <1>6 DEF Record, Succeed, Stages
<1>7. ASSUME NEW c \in Callers, CountFailure(c) \/ CreateSession(c)
      PROVE  CallsBounded'
  BY <1>3, <1>4, <1>5, <1>7 DEF CountFailure, CreateSession, Stages
<1>8. ASSUME NEW c \in Callers, Warn(c) \/ Notify(c) \/ Abandon(c)
      PROVE  CallsBounded'
  BY <1>5, <1>8 DEF Warn, Notify, Abandon
<1>9. ASSUME NEW c \in Callers, Look(c)
      PROVE  CallsBounded'
  <2>. DEFINE x == [call[c] EXCEPT !.stage = "insert", !.new = ~HasSession(call[c].device)]
  <2>1. x.stage = "insert" /\ x.age = call[c].age
    BY <1>1 DEF CallRecord
  <2>2. call' = [call EXCEPT ![c] = x]
    BY <1>1, <1>9 DEF Look
  <2>3. call[c].age \in 0 .. MaxLag
    BY <1>1 DEF CallsBounded
  <2>. HIDE DEF x
  <2>. QED BY <1>1, <2>1, <2>2, <2>3, OneBounded
<1>10. CASE Restart
  BY <1>1, <1>10 DEF Restart, Idle, CallsBounded, Uncounted, At
<1>11. CASE Tick
  <2>. SUFFICES ASSUME NEW c \in Callers
                PROVE  /\ call'[c].age \in 0 .. MaxLag
                       /\ Uncounted(c)' =>
                            call'[c].ip \in Ips /\ call'[c].read \in 0 .. MaxStreak - 1
    BY DEF CallsBounded
  <2>1. /\ call[c] \in CallRecord /\ call[c].age \in 0 .. MaxLag /\ MaxLag \in Nat
        /\ Uncounted(c) => call[c].ip \in Ips /\ call[c].read \in 0 .. MaxStreak - 1
    BY <1>1 DEF CallsBounded, LockoutAssumption
  <2>2. CASE Uncounted(c)
    <3>1. PICK older \in 0 .. MaxLag : older = call[c].age + 1
      BY <1>11, <2>1, <2>2 DEF Tick
    <3>2. call'[c] = [call[c] EXCEPT !.age = older]
      BY <1>11, <2>2, <3>1 DEF Tick
    <3>. QED BY <2>1, <2>2, <3>2 DEF CallRecord
  <2>3. CASE ~Uncounted(c)
    <3>1. call'[c] = call[c]
      BY <1>11, <2>3 DEF Tick
    <3>. QED BY <2>1, <2>3, <3>1 DEF Uncounted, At
  <2>. QED BY <2>2, <2>3
<1>12. CASE Rekey \/ SignOut \/ UNCHANGED vars
  BY <1>1, <1>12 DEF Rekey, SignOut, vars, CallsBounded, Uncounted, At
<1>. QED BY <1>2, <1>6, <1>7, <1>8, <1>9, <1>10, <1>11, <1>12 DEF Next, Handle

LEMMA BudgetStep ==
  ASSUME LockoutAssumption, LockoutInv, BoundsInv, [Next]_vars
  PROVE  BudgetKept' /\ recent' = [ip \in Ips |-> recent'[ip]]
<1>1. /\ BudgetKept /\ recent = [ip \in Ips |-> recent[ip]]
      /\ call \in [Callers -> CallRecord]
  BY DEF BoundsInv, CountersBounded, LockoutInv, Shape
<1>2. ASSUME recent' = recent, NEW c \in Callers, call'[c].stage # "fail",
             \A e \in Callers \ {c} : call'[e] = call[e]
      PROVE  BudgetKept' /\ recent' = [ip \in Ips |-> recent'[ip]]
  <2>1. \A e \in Callers : At(e, "fail")' => At(e, "fail") /\ call'[e].ip = call[e].ip
    BY <1>2 DEF At
  <2>. QED BY <1>1, <1>2, <2>1, NothingOwed
<1>3. ASSUME NEW c \in Callers, Login(c)
      PROVE  BudgetKept' /\ recent' = [ip \in Ips |-> recent'[ip]]
  BY <1>1, <1>3, LoginBudget DEF Login
<1>4. ASSUME NEW c \in Callers,
             CountFailure(c) \/ Warn(c) \/ CreateSession(c) \/ Notify(c) \/ Abandon(c)
      PROVE  BudgetKept' /\ recent' = [ip \in Ips |-> recent'[ip]]
  <2>1. recent' = recent
    BY <1>4 DEF CountFailure, Warn, CreateSession, Notify, Abandon
  <2>2. \/ call' = [call EXCEPT ![c] = Idle]
        \/ call' = [call EXCEPT ![c] = [Idle EXCEPT !.stage = "warn"]]
        \/ call' = [call EXCEPT ![c].stage = "notify"]
    BY <1>4 DEF CountFailure, Warn, CreateSession, Notify, Abandon, End, Move
  <2>3. Idle.stage # "fail" /\ [Idle EXCEPT !.stage = "warn"].stage # "fail"
    BY DEF Idle
  <2>4. [call[c] EXCEPT !.stage = "notify"].stage # "fail"
    BY <1>1 DEF CallRecord
  <2>5. /\ \A e \in Callers \ {c} : call'[e] = call[e]
        /\ call'[c].stage # "fail"
    BY <1>1, <2>2, <2>3, <2>4
  <2>. QED BY <1>2, <2>1, <2>5
<1>5. ASSUME NEW c \in Callers, Succeed(c) \/ Look(c)
      PROVE  BudgetKept' /\ recent' = [ip \in Ips |-> recent'[ip]]
  <2>1. recent' = recent
    BY <1>5 DEF Succeed, Look
  <2>2. call[c] \in CallRecord
    BY <1>1
  <2>3. \/ call' = [call EXCEPT ![c] = [call[c] EXCEPT !.stage = "look"]]
        \/ call' = [call EXCEPT ![c] =
               [call[c] EXCEPT !.stage = "insert", !.new = ~HasSession(call[c].device)]]
    BY <1>1, <1>5 DEF Succeed, Look, Move
  <2>4. /\ [call[c] EXCEPT !.stage = "look"].stage # "fail"
        /\ [call[c] EXCEPT !.stage = "insert", !.new = ~HasSession(call[c].device)].stage # "fail"
    BY <2>2 DEF CallRecord
  <2>5. \A e \in Callers \ {c} : call'[e] = call[e]
    BY <1>1, <2>3
  <2>6. call'[c].stage # "fail"
    BY <1>1, <2>3, <2>4
  <2>. QED BY <1>2, <2>1, <2>5, <2>6
<1>6. CASE Rekey \/ SignOut \/ UNCHANGED vars
  <2>1. recent' = recent /\ call' = call
    BY <1>6 DEF Rekey, SignOut, vars
  <2>. QED BY <1>1, <2>1, NothingOwed DEF At
<1>. QED
  BY <1>3, <1>4, <1>5, <1>6, RecordBudget, RestartBudget, TickBudget
     DEF Next, Handle

LEMMA WarnedStep ==
  ASSUME warned \in BOOLEAN, [Next]_vars
  PROVE  warned' \in BOOLEAN
<1>1. warned' = warned \/ warned' = TRUE \/ warned' = FALSE
  BY DEF Next, Handle, Login, Record, CountFailure, Warn, Succeed, Look, CreateSession, Notify,
         Abandon, Rekey, Reset, SignOut, Restart, Tick, account, vars
<1>. QED BY <1>1, Zenon

LEMMA BoundsInit == LockoutAssumption /\ Init => BoundsInv
<1>. SUFFICES ASSUME LockoutAssumption, Init PROVE BoundsInv
  OBVIOUS
<1>1. \A ip \in Ips : recent[ip] = [t \in 0 .. Window - 1 |-> 0]
  BY DEF Init, Fresh
<1>2. BudgetKept
  <2>. SUFFICES ASSUME NEW ip \in Ips
                PROVE  /\ recent[ip] \in Times /\ IsFiniteSet(OneByOne(recent[ip]))
                       /\ Failures(ip) + Cardinality(Owed(ip)) <= Budget + Cardinality(Callers) - 1
    BY DEF BudgetKept
  <2>1. recent[ip] \in Times /\ IsFiniteSet(OneByOne(recent[ip])) /\ Failures(ip) = 0
    BY <1>1, Unfailed DEF Failures
  <2>. QED BY <2>1, OwedFinite DEF LockoutAssumption
<1>3. CallsBounded
  <2>1. Idle.age = 0 /\ Idle.stage = "idle"
    BY DEF Idle
  <2>. QED BY <2>1 DEF Init, CallsBounded, Uncounted, At, LockoutAssumption
<1>4. CountersBounded
  BY DEF Init, Fresh, CountersBounded, LockoutAssumption
<1>5. warned \in BOOLEAN
  BY Zenon DEF Init
<1>. QED BY <1>2, <1>3, <1>4, <1>5 DEF BoundsInv

LEMMA BoundsInvariant == Spec => [](LockoutInv /\ BoundsInv)
<1>1. Init => LockoutInv /\ BoundsInv
  BY LockoutInit, BoundsInit, LockoutAssumption
<1>2. LockoutInv /\ BoundsInv /\ [Next]_vars => (LockoutInv /\ BoundsInv)'
  BY LockoutStep, CountersStep, CallsStep, BudgetStep, WarnedStep, LockoutAssumption
     DEF BoundsInv
<1>. QED BY <1>1, <1>2, PTL DEF Spec

-----------------------------------------------------------------------------
(* The theorems. *)

\* The types; with them, that no lock is longer than LockCap (security.rs:107) and that
\* of the logins to this account an address fails fewer within a window than its budget
\* and one per login that can be under way together (rate_limit.rs, check and
\* record_failure, which are two calls of the handler).
THEOREM LockoutTyped == Spec => []TypeOK
<1>1. LockoutInv /\ BoundsInv => TypeOK
  <2>. SUFFICES ASSUME LockoutInv, BoundsInv PROVE TypeOK
    OBVIOUS
  <2>1. \A ip \in Ips : Failures(ip) \in 0 .. Budget + Cardinality(Callers) - 1
    <3>. SUFFICES ASSUME NEW ip \in Ips
                  PROVE  Failures(ip) \in 0 .. Budget + Cardinality(Callers) - 1
      OBVIOUS
    <3>1. /\ IsFiniteSet(OneByOne(recent[ip]))
          /\ Failures(ip) + Cardinality(Owed(ip)) <= Budget + Cardinality(Callers) - 1
      BY DEF BoundsInv, BudgetKept
    <3>2. Failures(ip) \in Nat /\ Budget \in Nat
      BY <3>1, FS_CardinalityType, LockoutAssumption DEF Failures, LockoutAssumption
    <3>. QED BY <3>1, <3>2, OwedFinite, LockoutAssumption
  <2>2. \A c \in Callers : call[c].stage \in Stages /\ call[c].age \in 0 .. MaxLag
    BY DEF BoundsInv, CallsBounded, LockoutInv, Shape, CallRecord
  <2>3. streak \in Nat
    BY DEF LockoutInv, Shape
  <2>. QED BY <2>1, <2>2, <2>3 DEF BoundsInv, CountersBounded, TypeOK
<1>. QED BY <1>1, BoundsInvariant, PTL

\* The counter is the number of the logins that failed since the last reset, less those
\* whose handler has still to write it; no lock stands below the threshold, and at the
\* threshold the owner is warned (auth.rs:31, fail).  Excepted are the attempts that are
\* in no counter: written over by another, cut before their write, or lost with an
\* UPDATE that failed (auth.rs:45); and a mail that was cut short.
THEOREM FailuresAllCounted == Spec => []FailuresCounted
<1>1. LockoutInv => FailuresCounted
  BY DEF LockoutInv
<1>. QED BY <1>1, LockoutInvariant, PTL

\* No device has a session the owner was not told of, or is about to be (auth.rs:150),
\* unless a session ended between the look and the insert, or a mail was cut short.
THEOREM DevicesAllAnnounced == Spec => []NewDeviceAlerted
<1>1. LockoutInv => NewDeviceAlerted
  BY DEF LockoutInv
<1>. QED BY <1>1, LockoutInvariant, PTL
=============================================================================

--------------------------- MODULE SecondFactorProofs ---------------------------
(***************************************************************************)
(* Theorems about the second factor (SecondFactor): a code counts once,    *)
(* what is asked for was shown to work, and the recovery codes that work   *)
(* are of one set.                                                         *)
(***************************************************************************)
EXTENDS SecondFactor, TLAPS

(* The inductive invariant. *)

Ops == {"none", "login", "enroll", "disable", "regenerate", "sensitive"}

CallRecord ==
  [op : Ops, stage : Stages, secret : Secrets \cup {0}, step : Int,
   set : Sets \cup {0}, left : Nat, age : 0 .. MaxLag]

\* What a request holds where it is used.
Proper(x) ==
  /\ x.stage = "update" => x.secret \in Secrets /\ x.step \in (-1 - x.age) .. (1 - x.age)
  /\ x.stage = "insert" => x.set \in Sets /\ x.left \in 1 .. SetSize

Shape ==
  /\ totp \in [secret : Secrets \cup {0}, active : BOOLEAN, last : Never .. 1]
  /\ totp = NoRow \/ totp.secret \in Secrets
  /\ codes \subseteq Sets \X (1 .. SetSize)
  /\ call \in [Callers -> CallRecord]
  /\ \A c \in Callers : Proper(call[c])
  /\ spent \in [Secrets -> Never .. 1]
  /\ confirmed \subseteq Secrets

\* A request about to activate the row has seen a code of its secret.
Activation ==
  "enroll" \notin mishaps =>
    /\ totp.active => totp.secret \in confirmed
    /\ \A c \in Callers : At(c, "activate") => totp = NoRow \/ totp.secret \in confirmed

\* The row remembers the newest step, also of a secret whose code is on its way to it.
Counting ==
  "disable" \notin mishaps =>
    /\ "twice" \notin mishaps
    /\ totp # NoRow => spent[totp.secret] <= totp.last
    /\ \A c \in Callers : At(c, "update") => spent[call[c].secret] <= totp.last

\* One request at a time inserts codes, next to codes of its own set.
Issuing ==
  "codes" \notin mishaps =>
    /\ \A c, d \in Callers : At(c, "insert") /\ At(d, "insert") => c = d
    /\ \A c \in Callers : At(c, "insert") => \A x \in codes : x[1] = call[c].set
    /\ \A x, y \in codes : x[1] = y[1]

FactorInv == Shape /\ Activation /\ Counting /\ Issuing

-----------------------------------------------------------------------------
(* Records of requests. *)

LEMMA IdleShape ==
  FactorAssumption => Idle \in CallRecord /\ Proper(Idle) /\ Idle.stage = "idle"
BY DEF FactorAssumption, Idle, CallRecord, Stages, Ops, Proper

LEMMA Begun ==
  ASSUME FactorAssumption, NEW op \in Ops, NEW stage \in Stages
  PROVE  /\ [Idle EXCEPT !.op = op, !.stage = stage] \in CallRecord
         /\ [Idle EXCEPT !.op = op, !.stage = stage].stage = stage
BY IdleShape DEF CallRecord

LEMMA Passed ==
  ASSUME FactorAssumption, NEW stage \in Stages
  PROVE  /\ [Idle EXCEPT !.stage = stage] \in CallRecord
         /\ [Idle EXCEPT !.stage = stage].stage = stage
BY IdleShape DEF CallRecord

LEMMA Restaged ==
  ASSUME NEW x \in CallRecord, NEW stage \in Stages
  PROVE  /\ [x EXCEPT !.stage = stage] \in CallRecord
         /\ [x EXCEPT !.stage = stage].stage = stage
BY DEF CallRecord

\* The call of one request changes.
LEMMA OneCall ==
  ASSUME Shape, NEW c \in Callers, NEW x \in CallRecord, Proper(x),
         call' = [call EXCEPT ![c] = x]
  PROVE  /\ call'[c] = x /\ \A e \in Callers \ {c} : call'[e] = call[e]
         /\ call' \in [Callers -> CallRecord]
         /\ \A e \in Callers : Proper(call'[e])
BY DEF Shape

-----------------------------------------------------------------------------
(* When a step cannot disturb a part of the invariant. *)

LEMMA ActivationKept ==
  ASSUME Activation, "enroll" \in mishaps => "enroll" \in mishaps',
         totp'.secret = totp.secret, totp'.active = totp.active,
         totp = NoRow => totp' = NoRow,
         confirmed \subseteq confirmed',
         \A e \in Callers : call'[e].stage = "activate" => call[e].stage = "activate"
  PROVE  Activation'
BY DEF Activation, At

LEMMA CountingKept ==
  ASSUME Counting,
         "disable" \in mishaps => "disable" \in mishaps',
         "twice" \in mishaps' => "twice" \in mishaps,
         totp' # NoRow => totp # NoRow,
         totp'.secret = totp.secret, totp'.last = totp.last, spent' = spent,
         \A e \in Callers :
           call'[e].stage = "update" => call[e].stage = "update" /\ call'[e].secret = call[e].secret
  PROVE  Counting'
BY DEF Counting, At

LEMMA IssuingKept ==
  ASSUME Issuing, "codes" \in mishaps => "codes" \in mishaps', codes' \subseteq codes,
         \A e \in Callers :
           call'[e].stage = "insert" => call[e].stage = "insert" /\ call'[e].set = call[e].set
  PROVE  Issuing'
BY DEF Issuing, At

\* A step that moves one request where it disturbs nothing.
LEMMA QuietStep ==
  ASSUME FactorInv, NEW c \in Callers, NEW x \in CallRecord,
         call' = [call EXCEPT ![c] = x],
         x.stage \notin {"update", "activate", "insert"},
         codes' \subseteq codes,
         UNCHANGED <<totp, spent, confirmed, mishaps>>
  PROVE  FactorInv'
<1>0. Proper(x)
  BY DEF Proper
<1>1. /\ call'[c] = x /\ \A e \in Callers \ {c} : call'[e] = call[e]
      /\ call' \in [Callers -> CallRecord]
      /\ \A e \in Callers : Proper(call'[e])
  BY <1>0, OneCall DEF FactorInv
<1>2. Shape'
  BY <1>1 DEF FactorInv, Shape
<1>3. Activation'
  BY <1>1, ActivationKept DEF FactorInv
<1>4. Counting'
  BY <1>1, CountingKept DEF FactorInv
<1>5. Issuing'
  BY <1>1, IssuingKept DEF FactorInv
<1>. QED BY <1>2, <1>3, <1>4, <1>5 DEF FactorInv

-----------------------------------------------------------------------------
(* The invariant holds at first, and every step keeps it. *)

LEMMA FactorInit == FactorAssumption /\ Init => FactorInv
<1>. SUFFICES ASSUME FactorAssumption, Init PROVE FactorInv
  OBVIOUS
<1>1. \A c \in Callers : call[c] = Idle
  BY DEF Init
<1>2. Shape
  <2>1. NoRow \in [secret : Secrets \cup {0}, active : BOOLEAN, last : Never .. 1]
    BY DEF NoRow, Never, FactorAssumption
  <2>2. Never \in Never .. 1
    BY DEF Never, FactorAssumption
  <2>. QED BY <1>1, <2>1, <2>2, IdleShape DEF Init, Shape
<1>3. Activation
  BY <1>1, IdleShape DEF Init, Activation, At, NoRow
<1>4. Counting
  BY <1>1, IdleShape DEF Init, Counting, At
<1>5. Issuing
  BY <1>1, IdleShape DEF Init, Issuing, At
<1>. QED BY <1>2, <1>3, <1>4, <1>5 DEF FactorInv

\* A request that begins with the question whether the factor is active, or with a
\* code that is only verified.
LEMMA BeginKeeps ==
  ASSUME FactorAssumption, FactorInv, NEW c \in Callers, NEW op \in Ops,
         NEW stage \in {"check", "fresh", "reused"},
         Begin(c, op, stage), UNCHANGED confirmed
  PROVE  FactorInv'
<1>. DEFINE x == [Idle EXCEPT !.op = op, !.stage = stage]
<1>1. x \in CallRecord /\ x.stage = stage
  <2>1. stage \in Stages
    BY DEF Stages
  <2>. QED BY <2>1, Begun
<1>2. call' = [call EXCEPT ![c] = x]
  BY DEF Begin
<1>3. codes' \subseteq codes /\ UNCHANGED <<totp, spent, confirmed, mishaps>>
  BY DEF Begin, factorVars
<1>. HIDE DEF x
<1>. QED BY <1>1, <1>2, <1>3, QuietStep

LEMMA CheckActiveKeeps ==
  ASSUME FactorAssumption, FactorInv, NEW c \in Callers, CheckActive(c)
  PROVE  FactorInv'
<1>1. codes' \subseteq codes /\ UNCHANGED <<totp, spent, confirmed, mishaps>>
  BY DEF CheckActive, factorVars
<1>2. call[c] \in CallRecord
  BY DEF FactorInv, Shape
<1>3. CASE End(c)
  <2>1. call' = [call EXCEPT ![c] = Idle]
    BY <1>3 DEF End
  <2>. QED BY <1>1, <2>1, IdleShape, QuietStep
<1>4. CASE Move(c, "select")
  <2>. DEFINE x == [call[c] EXCEPT !.stage = "select"]
  <2>1. x \in CallRecord /\ x.stage = "select"
    BY <1>2, Restaged DEF Stages
  <2>2. call' = [call EXCEPT ![c] = x]
    BY <1>4 DEF Move, FactorInv, Shape
  <2>. HIDE DEF x
  <2>. QED BY <1>1, <2>1, <2>2, QuietStep
<1>5. ASSUME NEW stage \in {"redeem", "enroll"}, Pass(c, stage) PROVE FactorInv'
  <2>. DEFINE x == [Idle EXCEPT !.stage = stage]
  <2>1. x \in CallRecord /\ x.stage = stage
    BY Passed DEF Stages
  <2>2. call' = [call EXCEPT ![c] = x]
    BY <1>5 DEF Pass
  <2>. HIDE DEF x
  <2>. QED BY <1>1, <2>1, <2>2, QuietStep
<1>6. End(c) \/ Move(c, "select") \/ Pass(c, "redeem") \/ Pass(c, "enroll")
  BY DEF CheckActive
<1>. QED BY <1>3, <1>4, <1>5, <1>6

LEMMA SelectTotpKeeps ==
  ASSUME FactorAssumption, FactorInv, NEW c \in Callers, SelectTotp(c)
  PROVE  FactorInv'
<1>1. codes' = codes /\ UNCHANGED <<totp, spent, confirmed, mishaps>>
  BY DEF SelectTotp, factorVars
<1>2. call[c] \in CallRecord
  BY DEF FactorInv, Shape
<1>3. CASE End(c)
  <2>1. call' = [call EXCEPT ![c] = Idle]
    BY <1>3 DEF End
  <2>. QED BY <1>1, <2>1, IdleShape, QuietStep
<1>4. ASSUME NEW step \in Drift, totp.active,
             call' = [call EXCEPT ![c].stage = "update", ![c].secret = totp.secret,
                                  ![c].step = step - call[c].age]
      PROVE  FactorInv'
  <2>1. call[c].age \in 0 .. MaxLag
    BY <1>2 DEF CallRecord
  <2>2. PICK shown \in Int : shown = step - call[c].age
    BY <2>1 DEF Drift, FactorAssumption
  <2>3. shown \in (-1 - call[c].age) .. (1 - call[c].age)
    BY <2>1, <2>2 DEF Drift, FactorAssumption
  <2>4. totp # NoRow /\ totp.secret \in Secrets
    BY <1>4 DEF FactorInv, Shape, NoRow
  <2>. DEFINE x == [call[c] EXCEPT !.stage = "update", !.secret = totp.secret, !.step = shown]
  <2>5. /\ x \in CallRecord /\ x.stage = "update" /\ x.secret = totp.secret
        /\ x.step = shown /\ x.age = call[c].age
    BY <1>2, <2>2, <2>4 DEF CallRecord, Stages
  <2>6. call' = [call EXCEPT ![c] = x]
    BY <1>4, <2>2 DEF FactorInv, Shape
  <2>. HIDE DEF x
  <2>7. Proper(x)
    BY <2>3, <2>4, <2>5 DEF Proper
  <2>8. /\ call'[c] = x /\ \A e \in Callers \ {c} : call'[e] = call[e]
        /\ call' \in [Callers -> CallRecord]
        /\ \A e \in Callers : Proper(call'[e])
    BY <2>5, <2>6, <2>7, OneCall DEF FactorInv
  <2>9. Shape'
    BY <1>1, <2>8 DEF FactorInv, Shape
  <2>10. Activation'
    BY <1>1, <2>5, <2>8, ActivationKept DEF FactorInv
  <2>11. Counting'
    <3>1. "disable" \notin mishaps => spent[totp.secret] <= totp.last
      BY <2>4 DEF FactorInv, Counting
    <3>. QED BY <1>1, <2>5, <2>8, <3>1 DEF FactorInv, Counting, At
  <2>12. Issuing'
    BY <1>1, <2>5, <2>8, IssuingKept DEF FactorInv
  <2>. QED BY <2>9, <2>10, <2>11, <2>12 DEF FactorInv
<1>. QED BY <1>3, <1>4 DEF SelectTotp

\* Where a code that was accepted leads to.
LEMMA ProceedShape ==
  ASSUME FactorAssumption, Shape, NEW c \in Callers, Proceed(c)
  PROVE  /\ call' \in [Callers -> CallRecord] /\ \A e \in Callers : Proper(call'[e])
         /\ call'[c].stage \notin {"update", "activate", "insert"}
         /\ \A e \in Callers \ {c} : call'[e] = call[e]
<1>. DEFINE
       Led == /\ call' \in [Callers -> CallRecord] /\ \A e \in Callers : Proper(call'[e])
              /\ call'[c].stage \notin {"update", "activate", "insert"}
              /\ \A e \in Callers \ {c} : call'[e] = call[e]
<1>1. CASE End(c)
  <2>1. call' = [call EXCEPT ![c] = Idle]
    BY <1>1 DEF End
  <2>. QED BY <2>1, IdleShape, OneCall
<1>2. ASSUME NEW stage \in {"delete", "purge"}, Pass(c, stage) PROVE Led
  <2>. DEFINE x == [Idle EXCEPT !.stage = stage]
  <2>1. x \in CallRecord /\ x.stage = stage
    BY Passed DEF Stages
  <2>2. call' = [call EXCEPT ![c] = x]
    BY <1>2 DEF Pass
  <2>. HIDE DEF x
  <2>3. Proper(x)
    BY <2>1 DEF Proper
  <2>. QED BY <2>1, <2>2, <2>3, OneCall
<1>3. End(c) \/ Pass(c, "delete") \/ Pass(c, "purge")
  BY DEF Proceed
<1>. QED BY <1>1, <1>2, <1>3

LEMMA UpdateTotpKeeps ==
  ASSUME FactorAssumption, FactorInv, NEW c \in Callers, UpdateTotp(c)
  PROVE  FactorInv'
<1>1. codes' = codes /\ confirmed' = confirmed /\ call[c].stage = "update"
  BY DEF UpdateTotp, At
<1>2. CASE ~Guarded(c)
  <2>1. call' = [call EXCEPT ![c] = Idle] /\ UNCHANGED <<totp, spent, mishaps>>
    BY <1>2 DEF UpdateTotp, End
  <2>. QED BY <1>1, <2>1, IdleShape, QuietStep
<1>3. CASE Guarded(c)
  <2>1. PICK s \in Secrets, step \in Int :
          s = call[c].secret /\ step = call[c].step /\ step \in Never .. 1
    <3>1. call[c] \in CallRecord /\ Proper(call[c])
      BY DEF FactorInv, Shape
    <3>2. /\ call[c].secret \in Secrets /\ call[c].step \in Int /\ call[c].age \in 0 .. MaxLag
          /\ call[c].step \in (-1 - call[c].age) .. (1 - call[c].age)
      BY <1>1, <3>1 DEF CallRecord, Proper
    <3>3. call[c].step \in Never .. 1
      BY <3>2 DEF Never, FactorAssumption
    <3>. QED BY <3>2, <3>3
  <2>2. /\ totp # NoRow /\ step > totp.last
        /\ totp' = [totp EXCEPT !.last = step]
        /\ spent' = [spent EXCEPT ![s] = step]
        /\ mishaps' = IF step <= spent[s] THEN mishaps \cup {"twice"} ELSE mishaps
        /\ Proceed(c)
    BY <1>3, <2>1 DEF UpdateTotp, Guarded
  <2>3. /\ call' \in [Callers -> CallRecord] /\ \A e \in Callers : Proper(call'[e])
        /\ call'[c].stage \notin {"update", "activate", "insert"}
        /\ \A e \in Callers \ {c} : call'[e] = call[e]
    BY <2>2, ProceedShape DEF FactorInv
  <2>4. /\ totp'.secret = totp.secret /\ totp'.active = totp.active /\ totp'.last = step
        /\ totp' \in [secret : Secrets \cup {0}, active : BOOLEAN, last : Never .. 1]
        /\ totp.secret \in Secrets /\ totp.last \in Int
    BY <2>1, <2>2 DEF FactorInv, Shape, Never, FactorAssumption
  <2>5. /\ spent' \in [Secrets -> Never .. 1] /\ spent'[s] = step
        /\ \A r \in Secrets \ {s} : spent'[r] = spent[r]
        /\ \A r \in Secrets : spent[r] \in Int
    BY <2>1, <2>2 DEF FactorInv, Shape, Never, FactorAssumption
  <2>6. Shape'
    BY <1>1, <2>3, <2>4, <2>5 DEF FactorInv, Shape
  <2>7. Activation'
    BY <1>1, <2>2, <2>3, <2>4, ActivationKept DEF FactorInv
  <2>8. Counting'
    <3>. SUFFICES ASSUME "disable" \notin mishaps'
                  PROVE  /\ "twice" \notin mishaps'
                         /\ spent'[totp'.secret] <= totp'.last
                         /\ \A e \in Callers :
                              call'[e].stage = "update" => spent'[call'[e].secret] <= totp'.last
      BY DEF Counting, At
    <3>1. /\ "disable" \notin mishaps /\ "twice" \notin mishaps
          /\ spent[s] <= totp.last /\ spent[totp.secret] <= totp.last
          /\ \A e \in Callers : call[e].stage = "update" => spent[call[e].secret] <= totp.last
      BY <1>1, <2>1, <2>2 DEF FactorInv, Counting, At
    <3>2. "twice" \notin mishaps'
      BY <2>2, <2>4, <2>5, <3>1
    <3>3. \A r \in Secrets : spent[r] <= totp.last => spent'[r] <= step
      BY <2>1, <2>2, <2>4, <2>5
    <3>4. ASSUME NEW e \in Callers, call'[e].stage = "update"
          PROVE  spent'[call'[e].secret] <= totp'.last
      <4>1. e # c /\ call'[e] = call[e] /\ call[e].secret \in Secrets
        BY <2>3, <3>4 DEF Proper
      <4>. QED BY <2>4, <3>1, <3>3, <3>4, <4>1
    <3>. QED BY <2>4, <3>1, <3>2, <3>3, <3>4
  <2>9. Issuing'
    BY <1>1, <2>2, <2>3, IssuingKept DEF FactorInv
  <2>. QED BY <2>6, <2>7, <2>8, <2>9 DEF FactorInv
<1>. QED BY <1>2, <1>3

LEMMA RedeemKeeps ==
  ASSUME FactorAssumption, FactorInv, NEW c \in Callers, Redeem(c)
  PROVE  FactorInv'
<1>1. codes' \subseteq codes /\ UNCHANGED <<totp, spent, confirmed, mishaps>>
  BY DEF Redeem
<1>2. call' = [call EXCEPT ![c] = Idle]
  BY DEF Redeem, End
<1>. QED BY <1>1, <1>2, IdleShape, QuietStep

LEMMA WriteSecretKeeps ==
  ASSUME FactorAssumption, FactorInv, NEW c \in Callers, WriteSecret(c)
  PROVE  FactorInv'
<1>1. PICK s \in Secrets \ Known :
        /\ totp' = Enrolled(s)
        /\ confirmed' = {}
        /\ spent' = [spent EXCEPT ![totp'.secret] = Never]
        /\ mishaps' = IF \E e \in Callers : At(e, "activate")
                        THEN mishaps \cup {"enroll"} ELSE mishaps
  BY DEF WriteSecret, AnyOf
<1>2. codes' = codes /\ call' = [call EXCEPT ![c] = Idle] /\ call[c].stage = "enroll"
  BY DEF WriteSecret, End, At
<1>3. /\ call'[c] = Idle /\ \A e \in Callers \ {c} : call'[e] = call[e]
      /\ call' \in [Callers -> CallRecord]
      /\ \A e \in Callers : Proper(call'[e])
  BY <1>2, IdleShape, OneCall DEF FactorInv
<1>4. Never \in Never .. 1
  BY DEF Never, FactorAssumption
<1>5. /\ totp' \in [secret : Secrets \cup {0}, active : BOOLEAN, last : Never .. 1]
      /\ totp'.secret = s /\ totp'.active = FALSE /\ totp'.last = totp.last
  BY <1>1 DEF Enrolled, FactorInv, Shape
<1>6. /\ spent' \in [Secrets -> Never .. 1] /\ spent'[s] = Never
      /\ \A r \in Secrets \ {s} : spent'[r] = spent[r]
  BY <1>1, <1>4, <1>5 DEF FactorInv, Shape
<1>7. Shape'
  BY <1>1, <1>2, <1>3, <1>5, <1>6 DEF FactorInv, Shape
<1>8. Activation'
  <2>1. "enroll" \notin mishaps' => \A e \in Callers : call'[e].stage # "activate"
    BY <1>1, <1>3, IdleShape DEF At
  <2>. QED BY <1>5, <2>1 DEF Activation, At
<1>9. Counting'
  <2>1. totp.last \in Never .. 1
    BY DEF FactorInv, Shape
  <2>2. spent'[totp'.secret] <= totp'.last
    BY <1>5, <1>6, <2>1 DEF Never, FactorAssumption
  <2>3. ("disable" \in mishaps' <=> "disable" \in mishaps)
        /\ ("twice" \in mishaps' <=> "twice" \in mishaps)
    BY <1>1
  <2>4. ASSUME NEW e \in Callers, call'[e].stage = "update", "disable" \notin mishaps
        PROVE  spent'[call'[e].secret] <= totp'.last
    <3>1. e # c /\ call'[e] = call[e]
      BY <1>3, <2>4, IdleShape
    <3>2. call[e].secret \in Secrets \ {s}
      BY <1>1, <1>3, <2>4, <3>1 DEF Known, Proper
    <3>3. spent[call[e].secret] <= totp.last
      BY <2>4, <3>1 DEF FactorInv, Counting, At
    <3>. QED BY <1>5, <1>6, <3>1, <3>2, <3>3
  <2>5. "disable" \notin mishaps => "twice" \notin mishaps
    BY DEF FactorInv, Counting
  <2>. QED BY <2>2, <2>3, <2>4, <2>5 DEF Counting, At
<1>10. Issuing'
  BY <1>1, <1>2, <1>3, IdleShape, IssuingKept DEF FactorInv
<1>. QED BY <1>7, <1>8, <1>9, <1>10 DEF FactorInv

LEMMA ActivateKeeps ==
  ASSUME FactorAssumption, FactorInv, NEW c \in Callers, Activate(c)
  PROVE  FactorInv'
<1>. DEFINE x == [Idle EXCEPT !.op = "none", !.stage = "activate"]
<1>1. x \in CallRecord /\ x.stage = "activate"
  BY Begun DEF Stages, Ops
<1>2. /\ call' = [call EXCEPT ![c] = x]
      /\ totp # NoRow /\ confirmed' = confirmed \cup {totp.secret}
      /\ codes' = codes /\ UNCHANGED <<totp, spent, mishaps>>
  BY DEF Activate, Begin, factorVars
<1>. HIDE DEF x
<1>3. Proper(x)
  BY <1>1 DEF Proper
<1>4. /\ call'[c] = x /\ \A e \in Callers \ {c} : call'[e] = call[e]
      /\ call' \in [Callers -> CallRecord]
      /\ \A e \in Callers : Proper(call'[e])
  BY <1>1, <1>2, <1>3, OneCall DEF FactorInv
<1>5. Shape'
  BY <1>2, <1>4 DEF FactorInv, Shape
<1>6. Activation'
  BY <1>2 DEF Activation, At
<1>7. Counting'
  BY <1>1, <1>2, <1>4, CountingKept DEF FactorInv
<1>8. Issuing'
  BY <1>1, <1>2, <1>4, IssuingKept DEF FactorInv
<1>. QED BY <1>5, <1>6, <1>7, <1>8 DEF FactorInv

LEMMA SetActiveKeeps ==
  ASSUME FactorAssumption, FactorInv, NEW c \in Callers, SetActive(c)
  PROVE  FactorInv'
<1>. DEFINE x == [call[c] EXCEPT !.stage = "purge"]
<1>1. x \in CallRecord /\ x.stage = "purge"
  BY Restaged DEF FactorInv, Shape, Stages
<1>2. /\ call' = [call EXCEPT ![c] = x] /\ call[c].stage = "activate"
      /\ totp' = IF totp # NoRow THEN [totp EXCEPT !.active = TRUE] ELSE totp
      /\ codes' = codes /\ UNCHANGED <<spent, confirmed, mishaps>>
  BY DEF SetActive, Move, At, FactorInv, Shape
<1>. HIDE DEF x
<1>3. Proper(x)
  BY <1>1 DEF Proper
<1>4. /\ call'[c] = x /\ \A e \in Callers \ {c} : call'[e] = call[e]
      /\ call' \in [Callers -> CallRecord]
      /\ \A e \in Callers : Proper(call'[e])
  BY <1>1, <1>2, <1>3, OneCall DEF FactorInv
<1>5. /\ totp' \in [secret : Secrets \cup {0}, active : BOOLEAN, last : Never .. 1]
      /\ totp'.secret = totp.secret /\ totp'.last = totp.last
      /\ totp = NoRow => totp' = NoRow
      /\ totp' # NoRow => totp # NoRow
  BY <1>2 DEF FactorInv, Shape
<1>6. Shape'
  BY <1>2, <1>4, <1>5 DEF FactorInv, Shape
<1>7. Activation'
  <2>1. "enroll" \notin mishaps => totp = NoRow \/ totp.secret \in confirmed
    BY <1>2 DEF FactorInv, Activation, At
  <2>2. totp = NoRow => ~totp'.active
    BY <1>2 DEF NoRow
  <2>. QED BY <1>2, <1>5, <2>1, <2>2 DEF Activation, At
<1>8. Counting'
  BY <1>1, <1>2, <1>4, <1>5, CountingKept DEF FactorInv
<1>9. Issuing'
  BY <1>1, <1>2, <1>4, IssuingKept DEF FactorInv
<1>. QED BY <1>6, <1>7, <1>8, <1>9 DEF FactorInv

LEMMA DeleteTotpKeeps ==
  ASSUME FactorAssumption, FactorInv, NEW c \in Callers, DeleteTotp(c)
  PROVE  FactorInv'
<1>. DEFINE x == [call[c] EXCEPT !.stage = "clear"]
<1>1. x \in CallRecord /\ x.stage = "clear"
  BY Restaged DEF FactorInv, Shape, Stages
<1>2. /\ call' = [call EXCEPT ![c] = x] /\ totp' = NoRow
      /\ mishaps' = IF \E e \in Callers : At(e, "update")
                      THEN mishaps \cup {"disable"} ELSE mishaps
      /\ codes' = codes /\ UNCHANGED <<spent, confirmed>>
  BY DEF DeleteTotp, Move, FactorInv, Shape
<1>. HIDE DEF x
<1>3. Proper(x)
  BY <1>1 DEF Proper
<1>4. /\ call'[c] = x /\ \A e \in Callers \ {c} : call'[e] = call[e]
      /\ call' \in [Callers -> CallRecord]
      /\ \A e \in Callers : Proper(call'[e])
  BY <1>1, <1>2, <1>3, OneCall DEF FactorInv
<1>5. Shape'
  <2>1. NoRow \in [secret : Secrets \cup {0}, active : BOOLEAN, last : Never .. 1]
    BY DEF NoRow, Never, FactorAssumption
  <2>. QED BY <1>2, <1>4, <2>1 DEF FactorInv, Shape
<1>6. Activation'
  BY <1>2 DEF Activation, NoRow
<1>7. Counting'
  <2>1. "disable" \notin mishaps' => \A e \in Callers : call'[e].stage # "update"
    BY <1>1, <1>2, <1>4 DEF At
  <2>2. /\ "disable" \in mishaps => "disable" \in mishaps'
        /\ "twice" \in mishaps' => "twice" \in mishaps
    BY <1>2
  <2>. QED BY <1>2, <2>1, <2>2 DEF FactorInv, Counting, At
<1>8. Issuing'
  BY <1>1, <1>2, <1>4, IssuingKept DEF FactorInv
<1>. QED BY <1>5, <1>6, <1>7, <1>8 DEF FactorInv

LEMMA PurgeCodesKeeps ==
  ASSUME FactorAssumption, FactorInv, NEW c \in Callers, PurgeCodes(c)
  PROVE  FactorInv'
<1>1. PICK set \in Sets :
        call' = [call EXCEPT ![c].stage = "insert", ![c].left = SetSize, ![c].set = set]
  BY DEF PurgeCodes, AnyOf
<1>2. /\ codes' = {} /\ UNCHANGED <<totp, spent, confirmed>>
      /\ mishaps' = IF \E e \in Callers \ {c} : At(e, "insert")
                      THEN mishaps \cup {"codes"} ELSE mishaps
  BY DEF PurgeCodes, Purged, Mixed
<1>. DEFINE x == [call[c] EXCEPT !.stage = "insert", !.left = SetSize, !.set = set]
<1>3. SetSize \in Nat /\ SetSize \in 1 .. SetSize
  BY DEF FactorAssumption
<1>4. x \in CallRecord /\ x.stage = "insert" /\ x.left = SetSize /\ x.set = set
  <2>1. call[c] \in CallRecord
    BY DEF FactorInv, Shape
  <2>2. "insert" \in Stages
    BY DEF Stages
  <2>. QED BY <1>3, <2>1, <2>2 DEF CallRecord
<1>5. call' = [call EXCEPT ![c] = x]
  BY <1>1 DEF FactorInv, Shape
<1>. HIDE DEF x
<1>6. Proper(x)
  BY <1>3, <1>4 DEF Proper
<1>7. /\ call'[c] = x /\ \A e \in Callers \ {c} : call'[e] = call[e]
      /\ call' \in [Callers -> CallRecord]
      /\ \A e \in Callers : Proper(call'[e])
  BY <1>4, <1>5, <1>6, OneCall DEF FactorInv
<1>8. Shape'
  BY <1>2, <1>7 DEF FactorInv, Shape
<1>9. Activation'
  BY <1>2, <1>4, <1>7, ActivationKept DEF FactorInv
<1>10. Counting'
  BY <1>2, <1>4, <1>7, CountingKept DEF FactorInv
<1>11. Issuing'
  <2>1. "codes" \notin mishaps' => \A e \in Callers \ {c} : call'[e].stage # "insert"
    BY <1>2, <1>7 DEF At
  <2>. QED BY <1>2, <2>1 DEF Issuing, At
<1>. QED BY <1>8, <1>9, <1>10, <1>11 DEF FactorInv

LEMMA InsertCodeKeeps ==
  ASSUME FactorAssumption, FactorInv, NEW c \in Callers, InsertCode(c)
  PROVE  FactorInv'
<1>1. PICK set \in Sets, left \in 1 .. SetSize : set = call[c].set /\ left = call[c].left
  BY DEF InsertCode, At, FactorInv, Shape, Proper
<1>2. /\ call[c].stage = "insert" /\ codes' = codes \cup {<<set, left>>}
      /\ UNCHANGED <<totp, spent, confirmed, mishaps>>
  BY <1>1 DEF InsertCode, At
<1>3. /\ call' \in [Callers -> CallRecord]
      /\ \A e \in Callers : Proper(call'[e])
      /\ \A e \in Callers \ {c} : call'[e] = call[e]
      /\ call'[c].stage = "idle" \/ (call'[c].stage = "insert" /\ call'[c].set = set)
  <2>1. CASE Last(c)
    <3>1. call' = [call EXCEPT ![c] = Idle]
      BY <2>1 DEF InsertCode, End
    <3>. QED BY <3>1, IdleShape, OneCall DEF FactorInv
  <2>2. CASE ~Last(c)
    <3>1. PICK rest \in Nat : rest = left - 1 /\ rest \in 1 .. SetSize
      <4>1. left # 1 /\ SetSize \in Nat
        BY <1>1, <2>2 DEF Last, FactorAssumption
      <4>. QED BY <4>1
    <3>. DEFINE x == [call[c] EXCEPT !.left = rest]
    <3>2. x \in CallRecord /\ x.stage = "insert" /\ x.left = rest /\ x.set = set
      BY <1>1, <1>2 DEF FactorInv, Shape, CallRecord
    <3>3. call' = [call EXCEPT ![c] = x]
      BY <1>1, <2>2, <3>1 DEF InsertCode, FactorInv, Shape
    <3>. HIDE DEF x
    <3>4. Proper(x)
      BY <3>1, <3>2 DEF Proper
    <3>. QED BY <3>2, <3>3, <3>4, OneCall DEF FactorInv
  <2>. QED BY <2>1, <2>2
<1>4. Shape'
  BY <1>2, <1>3 DEF FactorInv, Shape
<1>5. Activation'
  BY <1>2, <1>3, ActivationKept DEF FactorInv
<1>6. Counting'
  BY <1>2, <1>3, CountingKept DEF FactorInv
<1>7. Issuing'
  <2>. SUFFICES ASSUME "codes" \notin mishaps
                PROVE  /\ \A d, e \in Callers :
                            call'[d].stage = "insert" /\ call'[e].stage = "insert" => d = e
                       /\ \A e \in Callers :
                            call'[e].stage = "insert" => \A x \in codes' : x[1] = call'[e].set
                       /\ \A x, y \in codes' : x[1] = y[1]
    BY <1>2 DEF Issuing, At
  <2>1. /\ \A e \in Callers \ {c} : call[e].stage # "insert"
        /\ \A x \in codes : x[1] = set
    BY <1>1, <1>2 DEF FactorInv, Issuing, At
  <2>2. \A x \in codes' : x[1] = set
    BY <1>2, <2>1
  <2>. QED BY <1>3, <2>1, <2>2
<1>. QED BY <1>4, <1>5, <1>6, <1>7 DEF FactorInv

LEMMA TickKeeps ==
  ASSUME FactorAssumption, FactorInv, Tick
  PROVE  FactorInv'
<1>1. /\ \A c \in Callers : Presenting(c) => call[c].age < MaxLag
      /\ totp' = [totp EXCEPT !.last = IF @ > Never THEN @ - 1 ELSE Never]
      /\ call' = [c \in Callers |->
                    IF Presenting(c)
                      THEN [call[c] EXCEPT !.age = @ + 1,
                                           !.step = IF At(c, "update") THEN @ - 1 ELSE 0]
                      ELSE call[c]]
      /\ spent' = [s \in Secrets |-> IF spent[s] > Never THEN spent[s] - 1 ELSE Never]
      /\ UNCHANGED <<codes, confirmed, mishaps>>
  BY DEF Tick
<1>2. /\ MaxLag \in Nat /\ Never \in Int /\ Never \in Never .. 1
      /\ \A n \in Never .. 1 : (IF n > Never THEN n - 1 ELSE Never) \in Never .. 1
      /\ \A m, n \in Never .. 1 :
           m <= n => (IF m > Never THEN m - 1 ELSE Never) <= (IF n > Never THEN n - 1 ELSE Never)
  BY DEF Never, FactorAssumption
<1>3. /\ totp' \in [secret : Secrets \cup {0}, active : BOOLEAN, last : Never .. 1]
      /\ totp'.secret = totp.secret /\ totp'.active = totp.active
      /\ totp'.last = IF totp.last > Never THEN totp.last - 1 ELSE Never
      /\ totp.last \in Never .. 1
  <2>1. PICK last \in Never .. 1 : last = IF totp.last > Never THEN totp.last - 1 ELSE Never
    BY <1>2 DEF FactorInv, Shape
  <2>. QED BY <1>1, <2>1 DEF FactorInv, Shape
<1>4. totp = NoRow <=> totp' = NoRow
  <2>1. ASSUME totp = NoRow PROVE totp' = NoRow
    <3>1. totp.last = Never
      BY <2>1 DEF NoRow
    <3>2. (IF totp.last > Never THEN totp.last - 1 ELSE Never) = Never
      BY <1>2, <3>1
    <3>3. totp' = [totp EXCEPT !.last = Never]
      BY <1>1, <3>2
    <3>. QED BY <2>1, <3>3 DEF NoRow
  <2>2. totp # NoRow => totp'.secret \in Secrets
    BY <1>3 DEF FactorInv, Shape
  <2>. QED BY <2>1, <2>2 DEF NoRow, FactorAssumption
<1>5. /\ spent' \in [Secrets -> Never .. 1]
      /\ \A s \in Secrets : spent[s] \in Never .. 1
      /\ \A s \in Secrets : spent'[s] = IF spent[s] > Never THEN spent[s] - 1 ELSE Never
  BY <1>1, <1>2 DEF FactorInv, Shape
<1>6. \A c \in Callers :
        /\ call'[c] \in CallRecord /\ Proper(call'[c])
        /\ call'[c].stage = call[c].stage /\ call'[c].secret = call[c].secret
        /\ call'[c].set = call[c].set
  <2>. SUFFICES ASSUME NEW c \in Callers
                PROVE  /\ call'[c] \in CallRecord /\ Proper(call'[c])
                       /\ call'[c].stage = call[c].stage /\ call'[c].secret = call[c].secret
                       /\ call'[c].set = call[c].set
    OBVIOUS
  <2>1. call[c] \in CallRecord /\ Proper(call[c])
    BY DEF FactorInv, Shape
  <2>2. CASE ~Presenting(c)
    BY <1>1, <2>1, <2>2
  <2>3. CASE Presenting(c)
    <3>1. call[c].age \in 0 .. MaxLag /\ call[c].step \in Int
      BY <2>1 DEF CallRecord
    <3>0. call[c].age < MaxLag
      BY <1>1, <2>3
    <3>2. PICK age \in 0 .. MaxLag : age = call[c].age + 1
      BY <1>2, <3>1, <3>0
    <3>3. PICK step \in Int : step = IF At(c, "update") THEN call[c].step - 1 ELSE 0
      BY <3>1
    <3>. DEFINE x == [call[c] EXCEPT !.age = age, !.step = step]
    <3>4. /\ x \in CallRecord /\ x.stage = call[c].stage /\ x.secret = call[c].secret
          /\ x.set = call[c].set /\ x.age = age /\ x.step = step
      BY <2>1 DEF CallRecord
    <3>5. call'[c] = x
      BY <1>1, <2>3, <3>2, <3>3
    <3>. HIDE DEF x
    <3>6. call[c].stage # "insert"
      BY <2>3 DEF Presenting
    <3>7. call[c].stage = "update" =>
            call[c].secret \in Secrets /\ step \in (-1 - age) .. (1 - age)
      <4>. SUFFICES ASSUME call[c].stage = "update"
                    PROVE  call[c].secret \in Secrets /\ step \in (-1 - age) .. (1 - age)
        OBVIOUS
      <4>1. /\ call[c].secret \in Secrets
            /\ call[c].step \in (-1 - call[c].age) .. (1 - call[c].age)
        BY <2>1 DEF Proper
      <4>2. step = call[c].step - 1
        BY <3>3 DEF At
      <4>. QED BY <1>2, <3>1, <3>2, <4>1, <4>2
    <3>8. Proper(x)
      BY <3>4, <3>6, <3>7 DEF Proper
    <3>. QED BY <3>4, <3>5, <3>8
  <2>. QED BY <2>2, <2>3
<1>7. call' \in [Callers -> CallRecord]
  BY <1>1, <1>6
<1>8. Shape'
  BY <1>1, <1>3, <1>4, <1>5, <1>6, <1>7 DEF FactorInv, Shape
<1>9. Activation'
  BY <1>1, <1>3, <1>4, <1>6, ActivationKept DEF FactorInv
<1>10. Counting'
  <2>1. \A s \in Secrets : spent[s] <= totp.last => spent'[s] <= totp'.last
    BY <1>2, <1>3, <1>5
  <2>2. totp # NoRow => totp.secret \in Secrets
    BY DEF FactorInv, Shape
  <2>3. \A e \in Callers : call[e].stage = "update" => call[e].secret \in Secrets
    BY DEF FactorInv, Shape, Proper
  <2>. QED BY <1>1, <1>3, <1>4, <1>6, <2>1, <2>2, <2>3 DEF FactorInv, Counting, At
<1>11. Issuing'
  BY <1>1, <1>6, IssuingKept DEF FactorInv
<1>. QED BY <1>8, <1>9, <1>10, <1>11 DEF FactorInv

LEMMA FactorStep ==
  FactorAssumption /\ FactorInv /\ [Next]_vars => FactorInv'
<1>. SUFFICES ASSUME FactorAssumption, FactorInv, [Next]_vars PROVE FactorInv'
  OBVIOUS
<1>1. ASSUME NEW c \in Callers, Request(c) PROVE FactorInv'
  <2>1. Login(c) \/ Enroll(c) \/ Disable(c) \/ Regenerate(c) =>
          \E op \in Ops : Begin(c, op, "check") /\ UNCHANGED confirmed
    BY DEF Login, Enroll, Disable, Regenerate, Ops
  <2>2. CASE ConfirmSensitive(c)
    <3>1. PICK step \in Drift :
            Begin(c, "sensitive", IF step > spent[totp.secret] THEN "fresh" ELSE "reused")
      BY <2>2 DEF ConfirmSensitive
    <3>2. PICK stage \in {"check", "fresh", "reused"} : Begin(c, "sensitive", stage)
      BY <3>1
    <3>. QED BY <2>2, <3>2, BeginKeeps DEF ConfirmSensitive, Ops
  <2>. QED BY <1>1, <2>1, <2>2, BeginKeeps, ActivateKeeps DEF Request
<1>2. ASSUME NEW c \in Callers, Serve(c) PROVE FactorInv'
  <2>1. CASE DeleteCodes(c)
    <3>1. codes' \subseteq codes /\ UNCHANGED <<totp, spent, confirmed, mishaps>>
      BY <2>1 DEF DeleteCodes
    <3>2. call' = [call EXCEPT ![c] = Idle]
      BY <2>1 DEF DeleteCodes, End
    <3>. QED BY <3>1, <3>2, IdleShape, QuietStep
  <2>2. CASE Confirmed(c)
    <3>1. codes' \subseteq codes /\ UNCHANGED <<totp, spent, confirmed, mishaps>>
      BY <2>2 DEF Confirmed, factorVars
    <3>2. call' = [call EXCEPT ![c] = Idle]
      BY <2>2 DEF Confirmed, End
    <3>. QED BY <3>1, <3>2, IdleShape, QuietStep
  <2>. QED
    BY <1>2, <2>1, <2>2, CheckActiveKeeps, SelectTotpKeeps, UpdateTotpKeeps, RedeemKeeps,
       WriteSecretKeeps, SetActiveKeeps, DeleteTotpKeeps, PurgeCodesKeeps, InsertCodeKeeps
    DEF Serve
<1>3. ASSUME NEW c \in Callers, Abandon(c) PROVE FactorInv'
  <2>1. codes' \subseteq codes /\ UNCHANGED <<totp, spent, confirmed, mishaps>>
    BY <1>3 DEF Abandon, factorVars
  <2>2. call' = [call EXCEPT ![c] = Idle]
    BY <1>3 DEF Abandon, End
  <2>. QED BY <2>1, <2>2, IdleShape, QuietStep
<1>4. CASE UNCHANGED vars
  BY <1>4 DEF vars, factorVars, FactorInv, Shape, Activation, Counting, Issuing, At
<1>. QED BY <1>1, <1>2, <1>3, <1>4, TickKeeps DEF Next

LEMMA FactorInvariant == Spec => []FactorInv
<1>1. Init => FactorInv
  BY FactorInit, FactorAssumption
<1>2. FactorInv /\ [Next]_vars => FactorInv'
  BY FactorStep, FactorAssumption
<1>. QED BY <1>1, <1>2, PTL DEF Spec

-----------------------------------------------------------------------------
(* The theorems. *)

\* The rows of the second factor and what its handlers hold have their types; the row
\* that is active has a secret (mfa.rs: consume_totp).
THEOREM FactorTyped == Spec => []TypeOK
<1>1. FactorInv => TypeOK
  <2>. SUFFICES ASSUME FactorInv PROVE TypeOK
    OBVIOUS
  <2>1. totp.active => totp.secret # 0
    BY FactorAssumption DEF FactorInv, Shape, NoRow, FactorAssumption
  <2>2. \A c \in Callers : call[c].stage \in Stages /\ call[c].age \in 0 .. MaxLag
    BY DEF FactorInv, Shape, CallRecord
  <2>. QED BY <2>1, <2>2 DEF FactorInv, Shape, TypeOK
<1>. QED BY <1>1, FactorInvariant, PTL

\* No code lets two logins, disables or regenerations through (mfa.rs:122), however they
\* overlap and whatever they race with, unless the factor was taken away while a code
\* was on its way to the row.  A change of the password or of the backup address takes a
\* code that was consumed (NoCodeReused, which a run refutes).
THEOREM CodesCountOnce == Spec => []CodeCountsOnce
<1>1. FactorInv => CodeCountsOnce
  BY DEF FactorInv, Counting, CodeCountsOnce
<1>. QED BY <1>1, FactorInvariant, PTL

\* A secret that is asked for has been shown to work (mfa.rs:44), unless an
\* enrollment came between the two statements of an activation.
THEOREM OnlyConfirmedSecrets == Spec => []ActiveSecretConfirmed
<1>1. FactorInv => ActiveSecretConfirmed
  BY DEF FactorInv, Activation, ActiveSecretConfirmed
<1>. QED BY <1>1, FactorInvariant, PTL

\* The recovery codes that work are of one set (mfa.rs:284), unless two requests
\* issued theirs at the same time.
THEOREM CodesOfOneSet == Spec => []OneSetOfCodes
<1>1. FactorInv => OneSetOfCodes
  BY DEF FactorInv, Issuing, OneSetOfCodes
<1>. QED BY <1>1, FactorInvariant, PTL
=============================================================================

----------------------------- MODULE RollbackSync -----------------------------
(***************************************************************************)
(* The rollback guard of apps/desktop-core (rollback.rs: synchronize)      *)
(* around the sync cycle of SyncEngine: verify the account's checkpoint,   *)
(* sync, check that nothing was withheld, publish a new checkpoint.        *)
(*                                                                         *)
(* Around it, what the guard is there for and what it has to live with:    *)
(* a server restored from an older backup (docs/RUNBOOK.md), requests that *)
(* get lost, and an account recovered with or without its Recovery Kit     *)
(* (routes/recovery.rs: complete; lib.rs: recover_complete).  A checkpoint *)
(* tag is told apart by the vault key that made it.                        *)
(***************************************************************************)
EXTENDS SyncEngine

CONSTANTS
  FirstKey,   \* the vault key the account starts with
  NoAlarm,    \* the device has no alarm pending
  Disasters   \* what may happen to the account

ASSUME RollbackSyncAssumption ==
  /\ FirstKey \in Tags
  /\ Disasters \subseteq {"restored", "recovered", "wiped"}

VARIABLES
  guard,        \* guard[d]: where synchronize stands, around the cycle
  verified,     \* verified[d]: verified_checkpoint_seq of the running cycle
  alarm,        \* alarm[d]: why the last cycle was stopped
  account_key,  \* the vault key the account's wrapped keys hold
  device_key,   \* device_key[d]: the vault key of the session of d
  backup,       \* the server's database as it was backed up
  disasters,    \* what has happened: "restored", "recovered", "wiped"
  unpublished   \* devices that moved their cursor and could not say so

guardVars == <<guard, verified, alarm>>
keyVars == <<account_key, device_key>>
disasterVars == <<backup, disasters>>
guardedVars ==
  <<vars, guardVars, keyVars, disasterVars, unpublished>>

Server == [rows |-> rows, sync_seq |-> sync_seq,
           purged_before_seq |-> purged_before_seq, checkpoint |-> checkpoint]

\* A session ends with the recovery of its account.
SignedIn(d) == device_key[d] = account_key

-----------------------------------------------------------------------------
(* Alarms. *)

\* The cycle stops, its report goes with it.
Alarm(d, kind) ==
  /\ alarm' = [alarm EXCEPT ![d] = kind]
  /\ guard' = [guard EXCEPT ![d] = "out"]
  /\ phase' = [phase EXCEPT ![d] = "idle"]
  /\ report' = [report EXCEPT ![d] = {}]
  /\ UNCHANGED <<serverVars, replica, queue, last_seq, pulled, countVars,
                 committed, verified, unpublished>>

-----------------------------------------------------------------------------
(* Before the cycle: the checkpoint. *)

Starts(d) == guard[d] = "out" /\ phase[d] = "idle" /\ SignedIn(d)

Forged(d) == checkpoint # NoCheckpoint /\ checkpoint.tag # device_key[d]

\* Mutant: an account without a checkpoint is not told apart.
RawCheckpoint == checkpoint.seq

CheckpointSeq == IF checkpoint = NoCheckpoint THEN 0 ELSE checkpoint.seq

Verify(d) ==
  /\ Starts(d)
  /\ ~Forged(d)
  /\ checkpoint = NoCheckpoint \/ checkpoint.seq >= last_seq[d]
  /\ guard' = [guard EXCEPT ![d] = "in"]
  /\ verified' = [verified EXCEPT ![d] = CheckpointSeq]
  /\ UNCHANGED <<vars, alarm, unpublished>>

VerifyForged(d) == Starts(d) /\ Forged(d) /\ Alarm(d, "forged")

VerifyRewound(d) ==
  /\ Starts(d)
  /\ ~Forged(d)
  /\ checkpoint # NoCheckpoint
  /\ checkpoint.seq < last_seq[d]
  /\ Alarm(d, "rollback")

-----------------------------------------------------------------------------
(* The cycle, and the two places where the engine stops it. *)

Cycle(d) ==
  \/ Pull(d)
  \/ PushUpsert(d)
  \/ PushDelete(d)
  \/ PushDeleteAgain(d)
  \/ PushRejected(d)
  \/ MergeConflict(d)
  \/ PushNotFound(d)

\* A push that fails ends the cycle: the guard is left with it.
RunCycle(d) ==
  /\ guard[d] = "in"
  /\ Cycle(d)
  /\ guard' = [guard EXCEPT ![d] = IF phase'[d] = "idle" THEN "out" ELSE "in"]
  /\ UNCHANGED <<verified, alarm, unpublished>>

EndCycle(d) ==
  /\ guard[d] = "in"
  /\ AdvanceCursor(d)
  /\ guard' = [guard EXCEPT ![d] = "synced"]
  /\ UNCHANGED <<verified, alarm, unpublished>>

PullRewound(d) ==
  /\ guard[d] = "in"
  /\ phase[d] = "idle"
  /\ sync_seq < last_seq[d]
  /\ Alarm(d, "rollback")

TailRewound(d) ==
  /\ phase[d] = "push"
  /\ queue[d] = <<>>
  /\ sync_seq < pulled[d]
  /\ Alarm(d, "rollback")

-----------------------------------------------------------------------------
(* After the cycle: withholding, and the new checkpoint. *)

Withheld(d) ==
  /\ guard[d] = "synced"
  /\ verified[d] > last_seq[d]
  /\ Alarm(d, "withholding")

\* Mutant: the checkpoint vouches for the first pull only.
VouchedForPull(d) == pulled[d]

Vouched(d) == last_seq[d]

Served(d) == guard[d] = "synced" /\ verified[d] <= last_seq[d]

Checked(d) ==
  /\ guard' = [guard EXCEPT ![d] = "published"]
  /\ alarm' = [alarm EXCEPT ![d] = NoAlarm]
  /\ UNCHANGED <<deviceVars, minted, edits, committed, verified>>

Publish(d) ==
  /\ Served(d)
  /\ \/ /\ last_seq[d] > verified[d]
        /\ PutCheckpoint(Vouched(d), device_key[d])
        /\ UNCHANGED unpublished
     \/ /\ last_seq[d] > verified[d]
        /\ checkpoint.seq >= Vouched(d)
        /\ UNCHANGED <<serverVars, unpublished>>
     \/ /\ last_seq[d] <= verified[d]
        /\ UNCHANGED <<serverVars, unpublished>>
  /\ UNCHANGED failures
  /\ Checked(d)

\* Best effort: the request is lost and the cycle ends well.
PublishLost(d) ==
  /\ Served(d)
  /\ last_seq[d] > verified[d]
  /\ failures < MaxFailures
  /\ failures' = failures + 1
  /\ unpublished' = unpublished \cup {d}
  /\ UNCHANGED serverVars
  /\ Checked(d)

HandOver(d) ==
  /\ guard[d] = "published"
  /\ \/ \E op \in report[d], i \in Items : StageCopy(d, op, i)
     \/ Finish(d)
  /\ guard' = [guard EXCEPT ![d] =
                 IF phase'[d] = "idle" THEN "out" ELSE "published"]
  /\ UNCHANGED <<verified, alarm, unpublished>>

\* The cursor has moved and the checkpoint that goes with it is not out.
Unsaid(d) == guard[d] = "synced" /\ last_seq[d] > verified[d]

\* The device dies, or a request of the cycle fails.
Interrupt(d) ==
  /\ guard[d] # "out"
  /\ Failures(d)
  /\ guard' = [guard EXCEPT ![d] = "out"]
  /\ unpublished' = unpublished \cup {e \in {d} : Unsaid(e)}
  /\ UNCHANGED <<verified, alarm>>

-----------------------------------------------------------------------------
(* The users' edits; and one disaster at most. *)

Work(d) ==
  /\ guard[d] = "out"
  /\ Edits(d)
  /\ UNCHANGED <<guardVars, unpublished>>

GuardUnaffected == UNCHANGED <<keyVars, disasterVars>>

BackUp ==
  /\ disasters = {} /\ "restored" \in Disasters
  /\ backup' = Server
  /\ UNCHANGED <<vars, guardVars, keyVars, disasters, unpublished>>

\* The administrator swaps the backup in; cycles under way meet the restored
\* server with their next request.
Restore ==
  /\ disasters = {} /\ "restored" \in Disasters
  /\ rows' = backup.rows
  /\ sync_seq' = backup.sync_seq
  /\ purged_before_seq' = backup.purged_before_seq
  /\ checkpoint' = backup.checkpoint
  /\ disasters' = {"restored"}
  /\ UNCHANGED <<deviceVars, editor, countVars, committed, historyVars, guardVars,
                 keyVars, backup, unpublished>>

\* Mutant: the cursor stays with the queue.
CursorStays(d) == last_seq[d]

CursorAfter(d) == 0

\* Every session ends; on the device that recovers, the replica and the cursor
\* start again, and the queue stays.
Recovered(d) ==
  /\ replica' = [replica EXCEPT ![d] = [i \in Items |-> NoStored]]
  /\ last_seq' = [last_seq EXCEPT ![d] = CursorAfter(d)]
  /\ editor' = [editor EXCEPT ![d] = Closed]
  /\ phase' = [e \in Devices |-> "idle"]
  /\ report' = [e \in Devices |-> {}]
  /\ guard' = [e \in Devices |-> "out"]
  /\ unpublished' = unpublished \cup {e \in Devices : Unsaid(e)}
  /\ UNCHANGED <<queue, pulled, countVars, committed, historyVars, verified,
                 alarm, backup>>

\* With the Recovery Kit the vault key stays, and with it the vault.
RecoverWithKit(d) ==
  /\ disasters = {} /\ "recovered" \in Disasters
  /\ disasters' = {"recovered"}
  /\ Recovered(d)
  /\ UNCHANGED <<serverVars, keyVars>>

\* Without it the items go and a new vault key comes; counter, horizon and
\* checkpoint stay.
RecoverByWipe(d) ==
  /\ disasters = {} /\ "wiped" \in Disasters
  /\ disasters' = {"wiped"}
  /\ Recovered(d)
  /\ rows' = [i \in Items |-> NoRow]
  /\ account_key' \in Tags \ {account_key}
  /\ UNCHANGED <<sync_seq, purged_before_seq, checkpoint, device_key>>

\* The user logs in with the new password.
LogInAgain(d) ==
  /\ ~SignedIn(d)
  /\ device_key' = [device_key EXCEPT ![d] = account_key]
  /\ editor' = [editor EXCEPT ![d] = Closed]
  /\ UNCHANGED <<serverVars, deviceVars, countVars, committed, historyVars, guardVars,
                 account_key, disasterVars, unpublished>>

-----------------------------------------------------------------------------
GuardedInit ==
  /\ SyncInit
  /\ guard = [d \in Devices |-> "out"]
  /\ verified = [d \in Devices |-> 0]
  /\ alarm = [d \in Devices |-> NoAlarm]
  /\ account_key = FirstKey
  /\ device_key = [d \in Devices |-> FirstKey]
  /\ backup = Server
  /\ disasters = {}
  /\ unpublished = {}

\* What synchronize and sync_now do when nothing fails.
GuardedStep(d) ==
  \/ Verify(d)
  \/ VerifyForged(d)
  \/ VerifyRewound(d)
  \/ RunCycle(d)
  \/ EndCycle(d)
  \/ PullRewound(d)
  \/ TailRewound(d)
  \/ Withheld(d)
  \/ Publish(d)
  \/ HandOver(d)

Ordinary(d) ==
  /\ \/ (GuardedStep(d) \/ PublishLost(d) \/ Interrupt(d)) /\ UNCHANGED editor
     \/ Work(d)
  /\ GuardUnaffected
  /\ Record

Disaster ==
  \/ BackUp
  \/ Restore
  \/ \E d \in Devices : RecoverWithKit(d) \/ RecoverByWipe(d) \/ LogInAgain(d)

GuardedNext ==
  \/ \E d \in Devices : Ordinary(d)
  \/ Disaster

GuardedSpec == GuardedInit /\ [][GuardedNext]_guardedVars

\* Every device keeps coming back to sync: each save, delete and import ends
\* in sync_now, and so do login, unlock and the user's sync button.
FairGuardedSpec ==
  /\ GuardedSpec
  /\ \A d \in Devices :
       WF_guardedVars(/\ GuardedStep(d) /\ UNCHANGED editor
                      /\ GuardUnaffected
                      /\ Record)

-----------------------------------------------------------------------------
(* Properties. *)

Alarms == {"rollback", "forged", "withholding"}

GuardedTypeOK ==
  /\ SyncTypeOK
  /\ guard \in [Devices -> {"out", "in", "synced", "published"}]
  /\ verified \in [Devices -> Nat]
  /\ alarm \in [Devices -> Alarms \cup {NoAlarm}]
  /\ account_key \in Tags
  /\ device_key \in [Devices -> Tags]
  /\ disasters \in SUBSET {"restored", "recovered", "wiped"}
  /\ unpublished \subseteq Devices

\* An honest server is not accused: as long as nothing was restored or wiped
\* and every moved cursor was published, no interleaving of devices, no crash
\* and no lost request of a cycle raises an alarm.
TrustedWhilePublished ==
  disasters \subseteq {"recovered"} /\ unpublished = {} =>
    \A d \in Devices : alarm[d] = NoAlarm

\* A recovery with a kit forgets no item: the device that recovered starts from an
\* empty replica and a cursor of 0, its old queue kept (lib.rs:697), and is as sound as
\* any other that starts there, as the others are that were signed out in mid-cycle.
GuardedCursorSound == disasters \subseteq {"recovered"} => CursorSound

\* "The cursor must only ever advance" (engine.rs:135): also when the server is
\* restored between any two requests of a cycle.
CursorAdvances ==
  [][\A d \in Devices :
       last_seq'[d] < last_seq[d] =>
         disasters = {} /\ disasters' \in {{"recovered"}, {"wiped"}}]_guardedVars

\* Once the users stop editing and requests stop failing, every device ends up with an
\* empty queue and with what the server has: no cycle of conflicts, copies, retries and
\* alarms goes on for ever.  After a failure an item may stay on a device that the
\* server has purged; a lost publication may raise an alarm that stays, and is excepted.
Convergence ==
  <>[](unpublished = {} =>
         \A d \in Devices :
           /\ queue[d] = <<>>
           /\ \A i \in Items : failures = 0 \/ Exists(i) => Mirrors(d, i))
=============================================================================

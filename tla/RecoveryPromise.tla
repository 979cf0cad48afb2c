---------------------------- MODULE RecoveryPromise ----------------------------
(***************************************************************************)
(* What account recovery promises the owner of an account, whatever the    *)
(* holders of mail links, kits and passwords do, and in whatever order the *)
(* statements of the server run (the threat model of routes/recovery.rs,   *)
(* its heading, and the answers of its handlers).                          *)
(*                                                                         *)
(* A request is filed, the owner is written to, and it can be withdrawn as *)
(* long as nobody is completing it.  Only a request of which the owner was *)
(* told, that has cooled off, that nobody withdrew and that is not too old *)
(* is admitted; and nothing but an admitted request, or someone who proved *)
(* the password in force, changes the keys of the account.                 *)
(*                                                                         *)
(* Two things are less than an owner would ask for.  A mail to the owner   *)
(* can miss, and the request counts all the same; and once a request is    *)
(* admitted nothing stops it, neither a withdrawal nor another completion. *)
(***************************************************************************)
EXTENDS Naturals

CONSTANTS Requests, Provers, Cooloff, Window

VARIABLES
  clock,
  status,    \* status[q]: "none", "pending", "withdrawn" or "completed"
  ready,     \* ready[q]: when the cooling-off of q ends
  told,      \* requests the owner has been told of
  missed,    \* requests whose mail to the owner got lost
  admitted,  \* requests being completed
  proved,    \* those who proved the password and have not yet replaced it
  keys       \* the keys of the account

promiseVars == <<clock, status, ready, told, missed, admitted, proved, keys>>

PromiseInit ==
  /\ clock = 0
  /\ status = [q \in Requests |-> "none"]
  /\ told = {} /\ missed = {} /\ admitted = {} /\ proved = {}

\* The cooling-off counts from the moment the request was made.
File(q) ==
  /\ status[q] = "none"
  /\ status' = [status EXCEPT ![q] = "pending"]
  /\ \E since \in 0..clock : ready' = [ready EXCEPT ![q] = since + Cooloff]
  /\ UNCHANGED <<clock, told, missed, admitted, proved, keys>>

Tell(q) ==
  /\ status[q] # "none"
  /\ told' = told \cup {q} /\ missed' = missed \ {q}
  /\ UNCHANGED <<clock, status, ready, admitted, proved, keys>>

\* One mail to the owner, and it does not arrive.
Miss(q) ==
  /\ status[q] # "none" /\ q \notin told
  /\ missed' = missed \cup {q}
  /\ UNCHANGED <<clock, status, ready, told, admitted, proved, keys>>

\* Cancelled by mail, or superseded.
Withdraw(gone) ==
  /\ status' = [q \in Requests |->
                  IF q \in gone /\ status[q] = "pending" THEN "withdrawn" ELSE status[q]]
  /\ UNCHANGED <<clock, ready, told, missed, admitted, proved, keys>>

Admit(q) ==
  /\ q \in told \cup missed /\ status[q] = "pending"
  /\ ready[q] <= clock /\ clock < ready[q] + Window
  /\ admitted' = admitted \cup {q}
  /\ UNCHANGED <<clock, status, ready, told, missed, proved, keys>>

Complete(q) ==
  /\ q \in admitted
  /\ status' = [status EXCEPT ![q] = "completed"]
  /\ admitted' \in {admitted, admitted \ {q}}
  /\ UNCHANGED <<clock, ready, told, missed, proved>>

Prove(d) ==
  /\ proved' = proved \cup {d}
  /\ UNCHANGED <<clock, status, ready, told, missed, admitted, keys>>

Rekey(d) ==
  /\ d \in proved
  /\ proved' = proved \ {d}
  /\ UNCHANGED <<clock, status, ready, told, missed, admitted>>

\* A completion or a change that comes to nothing.
GiveUp ==
  /\ admitted' \subseteq admitted /\ proved' \subseteq proved
  /\ UNCHANGED <<clock, status, ready, told, missed, keys>>

Pass ==
  /\ clock' = clock + 1
  /\ UNCHANGED <<status, ready, told, missed, admitted, proved, keys>>

PromiseNext ==
  \/ \E q \in Requests : File(q) \/ Tell(q) \/ Miss(q) \/ Admit(q) \/ Complete(q)
  \/ \E gone \in SUBSET Requests : Withdraw(gone)
  \/ \E d \in Provers : Prove(d) \/ Rekey(d)
  \/ GiveUp
  \/ Pass

PromiseSpec == PromiseInit /\ [][PromiseNext]_promiseVars
=============================================================================

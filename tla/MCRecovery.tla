------------------------------ MODULE MCRecovery ------------------------------
(* Account recovery on a small instance; devices are interchangeable. *)
EXTENDS Recovery, FiniteSets, TLC

Symmetry == Permutations(Devices)

\* At most one kind of call overtakes another in a behaviour.
OneRace == Cardinality(overtaken) <= 1

\* A request that is filed at the end of time never cools off.
InTime == \A d \in Devices : At(d, "supersede") => call[d].since < MaxTime

\* What can still matter: of a request that is no longer pending, that it was filed,
\* and of the kits, whether the user has seen the one in force.
StillMatters ==
  <<account, items, session, now, builds, call, overtaken,
    [q \in Requests |-> IF Pending(q) THEN <<TRUE, requests[q].usable_at, told[q]>>
                                      ELSE <<requests[q].filed, 0, {}>>],
    account.recovery.key \in shown>>
=============================================================================

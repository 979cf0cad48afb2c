---------------------------- MODULE MCVaultItemsTx ----------------------------
(* Instances of VaultItemsTx for TLC. *)
EXTENDS VaultItemsTx, TLC

\* What a request asked for and saw does not matter once it is answered, but for
\* the answer to a listing.
Request(r) ==
  IF pc[r] \in Replies \ {"listed"} THEN <<pc[r]>> ELSE <<pc[r], op[r], view[r]>>

Unanswered == <<serverVars, [r \in Requests |-> Request(r)], writer, elsewhere>>
=============================================================================

------------------------------ MODULE MCAddresses ------------------------------
(* The e-mail addresses of an account on a small instance. *)
EXTENDS Addresses
=============================================================================

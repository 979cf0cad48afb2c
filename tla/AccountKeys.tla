------------------------------ MODULE AccountKeys ------------------------------
(***************************************************************************)
(* What a client derives from a password and a Recovery Kit                *)
(* (core/vault-core: account.rs, keys.rs, envelope.rs).                    *)
(*                                                                         *)
(* Keys are symbolic.  A build is one run of build_registration: it takes  *)
(* a new password and a new kit, both named by the number of the build.    *)
(* A salt and a Vault Key are named by the build that generated them.  A   *)
(* derived key is the pair it is derived from; its two branches, the       *)
(* credential and the wrapping key, are told apart by where they are used. *)
(***************************************************************************)
EXTENDS Naturals

Key == [password : Nat, salt : Nat]

\* derive_master_key and derive_subkeys: one key per password and salt.
DeriveKey(password, salt) == [password |-> password, salt |-> salt]

\* A Vault Key under another key, and the only key that opens it.
Wrap(key, vault) == [key |-> key, vault |-> vault]
Unwraps(key, wrapped) == wrapped.key = key

\* The verifier is a branch of the Vault Key: whoever can tell it has the key.
RecoveryVerifier(vault) == vault

BuildRegistration(build, salt, vault) ==
  [auth     |-> DeriveKey(build, salt),
   salt     |-> salt,
   master   |-> Wrap(DeriveKey(build, salt), vault),
   recovery |-> Wrap(build, vault),
   verifier |-> RecoveryVerifier(vault)]

\* A new account, or one that starts over.
Register(build) == BuildRegistration(build, build, build)

\* A kit opens the second copy; the salt and the Vault Key stay.
RecoverAndRekey(build, salt, wrapped) == BuildRegistration(build, salt, wrapped.vault)

ChangePassword(build, secrets) == BuildRegistration(build, secrets.salt, secrets.vault)

Bundle ==
  [auth : Key, salt : Nat,
   master : [key : Key, vault : Nat],
   recovery : [key : Nat, vault : Nat],
   verifier : Nat]
=============================================================================

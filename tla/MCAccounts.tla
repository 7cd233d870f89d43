----------------------------- MODULE MCAccounts -----------------------------
(* Instances of Accounts for TLC. *)
EXTENDS Accounts, TLC

Symmetry == Permutations(Devices) \union Permutations(Names) \union Permutations(Passwords)

=============================================================================

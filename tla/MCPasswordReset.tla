-------------------------- MODULE MCPasswordReset --------------------------
(* Instances of PasswordReset for TLC.                                     *)
EXTENDS PasswordReset, TLC

Interchangeable == Permutations(Request) \cup Permutations(User)
=============================================================================

------------------------------ MODULE MCAccounts ------------------------------
(* The instance of Accounts for TLC. *)
EXTENDS Accounts, TLC

\* The addresses differ in case only.
SameAddress == [e \in Emails |-> CHOOSE f \in Emails : TRUE]

AccountSymmetry ==
  Permutations(Accounts) \cup Permutations(Calls) \cup Permutations(Passwords)
=============================================================================

----------------------------- MODULE MCAccounts -----------------------------
(***************************************************************************)
(* Instances of Accounts for TLC.                                          *)
(***************************************************************************)
EXTENDS Accounts, TLC

\* Accounts other than the administrator's, ids and threads are interchangeable.
Symmetry ==
  Permutations(Account \ {Admin}) \cup Permutations(ProfileId) \cup Permutations(Page)

=============================================================================

-------------------------- MODULE MCAdminAccounts ---------------------------
(***************************************************************************)
(* Instances of AdminAccounts for TLC.                                     *)
(***************************************************************************)
EXTENDS AdminAccounts, TLC

\* Accounts and request slots are interchangeable.
Alike == Permutations(Admins) \cup Permutations(Requests)

=============================================================================

----------------------------- MODULE MCAccounts -----------------------------
(* Requests, purges and accounts at Clerk are interchangeable.             *)
EXTENDS Accounts, TLC

Symmetry ==
  Permutations(Request) \cup Permutations(Purger) \cup Permutations(Clerk)
=============================================================================

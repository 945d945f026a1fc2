---------------------------- MODULE MCAdminAccounts ----------------------------
(* Model-checking instances of AdminAccounts. *)
EXTENDS AdminAccounts, TLC

\* Requests are interchangeable.
Interchangeable == Permutations(Reqs)
=============================================================================

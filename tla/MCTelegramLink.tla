---------------------------- MODULE MCTelegramLink ----------------------------
(* Model-checking instance of TelegramLink. *)
EXTENDS TelegramLink, TLC

\* Rows and requests are interchangeable.
Interchangeable == Permutations(Reqs) \cup Permutations(Accounts)
                   \cup Permutations(Parents) \cup Permutations(Codes)
                   \cup Permutations(Names)
=============================================================================

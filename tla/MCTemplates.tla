------------------------------ MODULE MCTemplates ------------------------------
(* Model-checking instance of Templates. *)
EXTENDS Templates, TLC

\* Requests are interchangeable.
Interchangeable == Permutations(Reqs)
=============================================================================

------------------------------ MODULE MCFamilies ------------------------------
(* Model-checking instance of Families. *)
EXTENDS Families, TLC

\* Requests are interchangeable, and so are phones.
Interchangeable == Permutations(Reqs) \cup Permutations(Phones)
=============================================================================

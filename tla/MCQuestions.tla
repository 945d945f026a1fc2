------------------------------ MODULE MCQuestions ------------------------------
(* Model-checking instance of Questions. *)
EXTENDS Questions, TLC

\* Requests are interchangeable.
Interchangeable == Permutations(Reqs)

\* One radio question, with one option.
OneOption == {{"yes"}}
=============================================================================

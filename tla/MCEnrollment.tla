----------------------------- MODULE MCEnrollment -----------------------------
(* Model-checking instances of Enrollment. *)
EXTENDS EnrollmentWaitlist, WaitlistRank, TLC

\* Requests and children are interchangeable, and so are classes.
Interchangeable == Permutations(Reqs) \cup Permutations(Children)
RowsInterchangeable == Permutations(Children) \cup Permutations(Classes)
=============================================================================

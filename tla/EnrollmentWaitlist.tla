-------------------------- MODULE EnrollmentWaitlist --------------------------
(***************************************************************************)
(* Enrollment implements Waitlist, as long as one request runs at a time   *)
(* and the process does not die: delete-then-recompute, insert-then-       *)
(* recompute and save-then-recompute look like one step each.              *)
(***************************************************************************)
EXTENDS Enrollment

\* No number of seats: the class is not offered.
NotOffered == -1

\* The promotions that a request under way still has to make in class c.
Promised(c) == IF Owing(c) = {} \/ ~Live(c) THEN {}
               ELSE CHOOSE P \in Promotions(reg, c) : TRUE

\* The refinement mapping: a promotion that is owed counts as made.
SeatsOf == [c \in Classes |-> IF Live(c) THEN class[c].cap ELSE NotOffered]
SeatedOf == [c \in Classes |-> Taken(reg, c) \cup Promised(c)]
LineOf == [c \in Classes |-> OldestFirst(Waiting(reg, c) \ Promised(c))]

W == INSTANCE Waitlist WITH
         Tickets <- Regs, Closed <- NotOffered,
         seats <- SeatsOf, seated <- SeatedOf, line <- LineOf

\* What a parent may rely on: seats are given out first come, first served, and
\* no statement order inside SelectClassSubmit, CancelByCode, AdminRegDelete,
\* AdminUpdateClass or AdminDeleteClass shows.
FirstComeFirstServed == W!Spec
=============================================================================

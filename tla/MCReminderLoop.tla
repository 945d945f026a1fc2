---------------------------- MODULE MCReminderLoop ----------------------------
(* Model-checking instances of ReminderLoop. *)
EXTENDS ReminderLoop, TLC

CONSTANTS r1, r2, c1, p1, p2

\* Two families, whose children are registered for one class.
OneClass == [r \in {r1, r2} |-> c1]
TwoParents == (r1 :> p1) @@ (r2 :> p2)

\* REMIND_OFFSETS
Ahead == <<2, 1>>
=============================================================================

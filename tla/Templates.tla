------------------------------- MODULE Templates -------------------------------
(***************************************************************************)
(* class_templates and their questions, which prefill the form of a new    *)
(* class (admin_templates.go).  One template is enough: no statement looks *)
(* at two.  A slot of Reqs is a goroutine; an action is one statement, or  *)
(* one transaction.  A foreign key ties a question to its template: both   *)
(* the question of a template that is gone and the deletion of a template  *)
(* that has questions are refused.  The handlers ignore these errors,      *)
(* except inside the transaction of AdminTemplatesUpdate.                  *)
(***************************************************************************)
EXTENDS Integers, FiniteSets

CONSTANTS
    Reqs,
    MaxItems,   \* bound: template questions ever created
    MaxNew      \* bound: new rows in one form

ASSUME BoundsAssumption == MaxItems \in Nat /\ MaxNew \in Nat

VARIABLES
    template,   \* the row of the template
    item,       \* its rows in class_template_questions, by id
    nextItem,   \* their AUTOINCREMENT
    req         \* what each goroutine is doing

vars == <<template, item, nextItem, req>>
tables == <<template, item, nextItem>>

ItemIds == 1..MaxItems

\* left: how many questions of a new template are still to be inserted;
\* rows: the questions whose rows an edit form has, ticked: how many boxes
\* "Delete" of them are ticked, added: how many new rows there are.
Idle == [pc |-> "idle", left |-> 0, rows |-> {}, ticked |-> 0, added |-> 0]

Init ==
    /\ template = "none" /\ item = {} /\ nextItem = 1
    /\ req = [q \in Reqs |-> Idle]

Become(q, s) == req' = [req EXCEPT ![q] = s]
At(q, pc) == req[q].pc = pc
Go(q, pc) == Become(q, [req[q] EXCEPT !.pc = pc])
Done(q) == Become(q, Idle)

\* The foreign key, for an INSERT of questions and for a DELETE of the template.
ItemUnchecked == TRUE
ItemAllowed == template = "live"
Unreferenced == item = {}

(***************************************************************************)
(* AdminTemplatesCreate: the template, then a statement for every label.   *)
(***************************************************************************)
Create(q, n) ==
    /\ At(q, "idle") /\ template = "none"
    /\ template' = "live"
    /\ IF n = 0 THEN Done(q) ELSE Become(q, [Idle EXCEPT !.pc = "insert", !.left = n])
    /\ UNCHANGED <<item, nextItem>>

Insert(q) ==
    /\ At(q, "insert")
    /\ IF ItemAllowed
       THEN /\ nextItem <= MaxItems
            /\ item' = item \cup {nextItem} /\ nextItem' = nextItem + 1
       ELSE UNCHANGED <<item, nextItem>>
    /\ IF req[q].left = 1 THEN Done(q) ELSE Become(q, [req[q] EXCEPT !.left = @ - 1])
    /\ UNCHANGED template

(***************************************************************************)
(* AdminTemplatesUpdate: find the template, save its header (an INSERT if  *)
(* it was deleted since), and take the rows in one transaction.  Questions *)
(* that are gone are skipped, the others deleted or written again, new     *)
(* ones inserted; an error undoes them all, and not the header.            *)
(***************************************************************************)
Update(q, shown, n, ticked) ==
    /\ At(q, "idle") /\ template = "live"
    /\ ticked <= Cardinality(shown) + n
    /\ Become(q, [Idle EXCEPT !.pc = "header", !.rows = shown, !.ticked = ticked, !.added = n])
    /\ UNCHANGED tables

SaveHeader(q) ==
    /\ At(q, "header")
    /\ template' = "live"
    /\ Go(q, "rows")
    /\ UNCHANGED <<item, nextItem>>

\* q_delete[] has a value for every box that is ticked and none for the others,
\* so that the first rows are taken for the ticked ones.
Dropped(q) == {k \in req[q].rows : Cardinality({l \in req[q].rows : l <= k}) <= req[q].ticked}
Inserted(q) == LET shown == Cardinality(req[q].rows)
                   skipped == IF req[q].ticked > shown THEN req[q].ticked - shown ELSE 0
               IN  nextItem .. nextItem + req[q].added - skipped - 1

SaveRows(q) ==
    /\ At(q, "rows")
    /\ IF Inserted(q) # {} /\ ~ItemAllowed
       THEN UNCHANGED <<item, nextItem>>
       ELSE /\ Inserted(q) \subseteq ItemIds
            /\ item' = (item \ Dropped(q)) \cup Inserted(q)
            /\ nextItem' = nextItem + Cardinality(Inserted(q))
    /\ Done(q)
    /\ UNCHANGED template

(***************************************************************************)
(* AdminTemplatesDelete: the questions, then the template.                 *)
(***************************************************************************)
Delete(q) ==
    /\ At(q, "idle")
    /\ item' = {}
    /\ Go(q, "drop")
    /\ UNCHANGED <<template, nextItem>>

Drop(q) ==
    /\ At(q, "drop")
    /\ template' = IF template = "live" /\ Unreferenced THEN "deleted" ELSE template
    /\ Done(q)
    /\ UNCHANGED <<item, nextItem>>

Next ==
    \E q \in Reqs :
        \/ Insert(q) \/ SaveHeader(q) \/ SaveRows(q) \/ Delete(q) \/ Drop(q)
        \/ \E n \in 0..MaxNew :
              \/ Create(q, n)
              \/ \E shown \in SUBSET (1 .. nextItem - 1), ticked \in 0 .. MaxItems + MaxNew :
                    Update(q, shown, n, ticked)

Spec == Init /\ [][Next]_vars

-----------------------------------------------------------------------------
(***************************************************************************)
(* Properties.                                                             *)
(***************************************************************************)

\* The questions of a template have a template, whoever deletes it while
\* another admin adds to it or saves it.
ItemsHaveTemplate == item # {} => template = "live"
=============================================================================

---------------------------- MODULE TemplatesProofs ----------------------------
(***************************************************************************)
(* A theorem about Templates for every set of goroutines and every bound.  *)
(***************************************************************************)
EXTENDS Templates, TLAPS

\* Questions are only inserted while the foreign key finds their template, and
\* the template is only deleted while the key finds no question: the property is
\* inductive as it stands, whatever the goroutines are between two statements.
LEMMA ItemsStep == ItemsHaveTemplate /\ [Next]_vars => ItemsHaveTemplate'
<1> SUFFICES ASSUME ItemsHaveTemplate, [Next]_vars
             PROVE  ItemsHaveTemplate'
  OBVIOUS
<1>1. CASE UNCHANGED vars
  BY <1>1 DEF vars, ItemsHaveTemplate
<1> SUFFICES ASSUME NEW q \in Reqs,
                    \/ Insert(q) \/ SaveHeader(q) \/ SaveRows(q) \/ Delete(q) \/ Drop(q)
                    \/ \E n \in 0..MaxNew :
                          \/ Create(q, n)
                          \/ \E shown, ticked : Update(q, shown, n, ticked)
             PROVE  ItemsHaveTemplate'
  BY <1>1 DEF Next
<1>2. CASE Insert(q)
  BY <1>2 DEF Insert, ItemAllowed, ItemsHaveTemplate
<1>3. CASE SaveHeader(q)
  BY <1>3 DEF SaveHeader, ItemsHaveTemplate
<1>4. CASE SaveRows(q)
  <2>1. CASE Inserted(q) # {} /\ ~ItemAllowed
    BY <1>4, <2>1 DEF SaveRows, ItemsHaveTemplate
  <2>2. CASE Inserted(q) = {} \/ ItemAllowed
    <3>1. item' = (item \ Dropped(q)) \cup Inserted(q) /\ template' = template
      BY <1>4, <2>2 DEF SaveRows
    <3> QED BY <3>1, <2>2 DEF ItemAllowed, ItemsHaveTemplate
  <2> QED BY <2>1, <2>2
<1>5. CASE Delete(q)
  BY <1>5 DEF Delete, ItemsHaveTemplate
<1>6. CASE Drop(q)
  BY <1>6 DEF Drop, Unreferenced, ItemsHaveTemplate
<1>7. CASE \E n \in 0..MaxNew : Create(q, n)
  BY <1>7 DEF Create, ItemsHaveTemplate
<1>8. CASE \E n \in 0..MaxNew : \E shown, ticked : Update(q, shown, n, ticked)
  BY <1>8 DEF Update, tables, ItemsHaveTemplate
<1> QED BY <1>2, <1>3, <1>4, <1>5, <1>6, <1>7, <1>8

\* However many admins create, save and delete the template at once, no question
\* of it is left without it (AdminTemplatesUpdate, AdminTemplatesDelete).
THEOREM NoOrphanedItems == Spec => []ItemsHaveTemplate
<1>1. Init => ItemsHaveTemplate
  BY DEF Init, ItemsHaveTemplate
<1> QED BY <1>1, ItemsStep, PTL DEF Spec
=============================================================================

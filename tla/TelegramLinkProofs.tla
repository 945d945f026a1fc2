-------------------------- MODULE TelegramLinkProofs --------------------------
(***************************************************************************)
(* Theorems about TelegramLink for every set of accounts, parents, codes,  *)
(* goroutines and names.                                                   *)
(***************************************************************************)
EXTENDS TelegramLink, FiniteSetTheorems, TLAPS

-----------------------------------------------------------------------------
(* Type correctness.                                                       *)

\* Which locals a goroutine has set: a message has an account, whose row was
\* found or inserted, or could not be, once it is dispatched; and it has a
\* parent or a code where the next statement uses one.
Serving(s) == s.pc \in {"upsert", "dispatch", "update", "spend", "load", "save", "say"}
LocalsSet(s) ==
    /\ Serving(s) => s.account \in Accounts
    /\ s.pc \in {"update", "unlink", "clean", "create"} => s.parent \in Parents
    /\ s.pc \in {"load", "save", "say", "spend"} => s.parent \in Parents
    /\ s.pc = "dispatch" /\ s.cmd = "link" => s.code \in Codes
    /\ s.pc = "upsert" /\ s.cmd = "link" => s.code \in Codes
    /\ s.pc = "spend" => s.code \in Codes

\* The codes that may be redeemed were generated for a parent, and the code that
\* a goroutine is about to spend was.
CodesOwned == \A k \in Codes : code[k].row # "none" => code[k].parent \in Parents
CodesRead == \A q \in Reqs : req[q].pc = "spend" => code[req[q].code].row # "none"

HistoryOK ==
    /\ told \in [Accounts -> Parents \cup {None}]
    /\ writer \in [Accounts -> Reqs \cup {None}] /\ spent \subseteq Codes

TypeInv ==
    /\ TypeOK
    /\ \A q \in Reqs : LocalsSet(req[q])
    /\ CodesOwned /\ CodesRead

LEMMA IdleState == Idle \in ReqState /\ LocalsSet(Idle)
  BY DEF Idle, ReqState, Commands, LocalsSet, Serving

\* A goroutine that is about to tell an account what it wrote of it.
LEMMA SayingState ==
    ASSUME NEW q \in Reqs, req[q].account \in Accounts, req[q].parent \in Parents
    PROVE  /\ Saying(q) \in ReqState /\ LocalsSet(Saying(q))
           /\ Saying(q).pc = "say"
           /\ Saying(q).account = req[q].account /\ Saying(q).parent = req[q].parent
  BY DEF Saying, Idle, ReqState, Commands, LocalsSet, Serving

LEMMA TypeInvInit == Init => TypeInv
<1> SUFFICES ASSUME Init PROVE TypeInv
  OBVIOUS
<1>1. user \in [Accounts -> UserRow]
  BY DEF Init, UserRow
<1>2. code \in [Codes -> CodeRow] /\ CodesOwned /\ CodesRead
  BY DEF Init, Idle, CodeRow, CodesOwned, CodesRead
<1>3. lastUser \in Nat /\ HistoryOK
  BY DEF Init, HistoryOK
<1> QED BY <1>1, <1>2, <1>3, IdleState DEF Init, TypeInv, TypeOK, HistoryOK

\* A goroutine moves on, the tables keep their types, and no code vanishes.
LEMMA ServedStep ==
    ASSUME TypeInv, NEW q \in Reqs, NEW s \in ReqState, Become(q, s), LocalsSet(s),
           s.pc # "spend",
           UNCHANGED parent,
           user' \in [Accounts -> UserRow], lastUser' \in Nat,
           code' \in [Codes -> CodeRow], CodesOwned',
           \A k \in Codes : code[k].row # "none" => code'[k].row # "none",
           HistoryOK'
    PROVE  TypeInv'
<1>1. req' \in [Reqs -> ReqState] /\ \A p \in Reqs : LocalsSet(req'[p])
  BY DEF TypeInv, TypeOK, Become
<1>2. CodesRead'
  BY DEF TypeInv, TypeOK, Become, CodesRead, LocalsSet
<1> QED BY <1>1, <1>2 DEF TypeInv, TypeOK, HistoryOK

\* A goroutine moves on and only reads.
LEMMA ReadingStep ==
    ASSUME TypeInv, NEW q \in Reqs, NEW s \in ReqState, Become(q, s), LocalsSet(s),
           s.pc = "spend" => code[s.code].row # "none",
           UNCHANGED <<parent, user, lastUser, code, history>>
    PROVE  TypeInv'
<1>1. req' \in [Reqs -> ReqState] /\ \A p \in Reqs : LocalsSet(req'[p])
  BY DEF TypeInv, TypeOK, Become
<1>2. CodesRead' /\ CodesOwned'
  BY DEF TypeInv, TypeOK, Become, CodesRead, CodesOwned
<1> QED BY <1>1, <1>2 DEF TypeInv, TypeOK, history

LEMMA TypeInvStep == TypeInv /\ [Next]_vars => TypeInv'
<1> SUFFICES ASSUME TypeInv, [Next]_vars
             PROVE  TypeInv'
  OBVIOUS
<1>1. CASE UNCHANGED vars
  BY <1>1 DEF vars, history, TypeInv, TypeOK, CodesOwned, CodesRead
<1>2. ASSUME NEW p \in Parents, DeleteParent(p)
      PROVE  TypeInv'
  BY <1>2 DEF DeleteParent, history, TypeInv, TypeOK, CodesOwned, CodesRead
<1>3. ASSUME NEW k \in Codes, Age(k)
      PROVE  TypeInv'
  <2>1. code' \in [Codes -> CodeRow] /\ CodesOwned' /\ UNCHANGED req
    BY <1>3 DEF Age, TypeInv, TypeOK, CodesOwned, CodeRow
  <2>2. CodesRead'
    BY <1>3, <2>1 DEF Age, TypeInv, TypeOK, CodesRead, LocalsSet, CodeRow
  <2> QED BY <1>3, <2>1, <2>2 DEF Age, history, TypeInv, TypeOK
<1> SUFFICES ASSUME NEW q \in Reqs, Start(q) \/ Step(q)
             PROVE  TypeInv'
  BY <1>1, <1>2, <1>3 DEF Next
<1>0. /\ user \in [Accounts -> UserRow] /\ code \in [Codes -> CodeRow]
      /\ lastUser \in Nat
      /\ CodesOwned /\ CodesRead
      /\ HistoryOK
      /\ req[q] \in ReqState /\ LocalsSet(req[q])
  BY DEF TypeInv, TypeOK, HistoryOK
<1>19. UNCHANGED history => HistoryOK'
  BY <1>0 DEF history, HistoryOK
<1>5. ASSUME NEW a \in Accounts, NEW cmd \in Commands \ {"none"}, NEW k \in Codes \cup {None},
             Receive(q, a, cmd, k)
      PROVE  TypeInv'
  <2>1. PICK n \in Names, b \in BOOLEAN, pc \in {"dispatch", "upsert"} :
           Become(q, [Idle EXCEPT !.cmd = cmd, !.account = a, !.code = k, !.name = n,
                        !.pc = pc, !.row = b])
    BY <1>5 DEF Receive
  <2> DEFINE s == [Idle EXCEPT !.cmd = cmd, !.account = a, !.code = k, !.name = n,
                     !.pc = pc, !.row = b]
  <2>3. s \in ReqState
    BY IdleState DEF ReqState
  <2>4. LocalsSet(s) /\ s.pc # "spend"
    BY <1>5 DEF Receive, LocalsSet, Serving, Idle
  <2>5. UNCHANGED <<parent, user, lastUser, code, history>>
    BY <1>5 DEF Receive
  <2> HIDE DEF s
  <2> QED BY <2>1, <2>3, <2>4, <2>5, ReadingStep DEF s
<1>6. ASSUME NEW p \in Parents, ReadForUnlink(q, p) \/ ReadForGenerate(q, p)
      PROVE  TypeInv'
  <2>1. PICK pc \in {"unlink", "clean"} : Become(q, [Idle EXCEPT !.pc = pc, !.parent = p])
    BY <1>6 DEF ReadForUnlink, ReadForGenerate
  <2> DEFINE s == [Idle EXCEPT !.pc = pc, !.parent = p]
  <2>2. s \in ReqState /\ LocalsSet(s) /\ s.pc # "spend"
    BY IdleState DEF ReqState, Idle, LocalsSet, Serving
  <2>3. UNCHANGED <<parent, user, lastUser, code, history>>
    BY <1>6 DEF ReadForUnlink, ReadForGenerate
  <2> HIDE DEF s
  <2> QED BY <2>1, <2>2, <2>3, ReadingStep DEF s
<1>7. CASE Upsert(q)
  <2> DEFINE s == [req[q] EXCEPT !.pc = "dispatch"]
             t == [req[q] EXCEPT !.pc = "dispatch", !.row = TRUE]
  <2>1. s \in ReqState /\ t \in ReqState
    BY <1>0 DEF ReqState
  <2>2. LocalsSet(s) /\ LocalsSet(t) /\ s.pc # "spend" /\ t.pc # "spend"
    BY <1>0, <1>7 DEF Upsert, At, ReqState, LocalsSet, Serving
  <2>3. req[q].account \in Accounts
    BY <1>0, <1>7 DEF Upsert, At, LocalsSet, Serving
  <2>4. [id |-> lastUser + 1, parent |-> None, deliverable |-> TRUE, name |-> req[q].name]
           \in UserRow
    BY <1>0 DEF UserRow, ReqState
  <2>5. user' \in [Accounts -> UserRow] /\ lastUser' \in Nat
    BY <1>0, <1>7, <2>3, <2>4 DEF Upsert
  <2>6. UNCHANGED <<parent, code, history>>
    BY <1>7 DEF Upsert
  <2>7. CodesOwned'
    BY <1>0, <2>6 DEF CodesOwned
  <2>8. Become(q, s) \/ Become(q, t)
    BY <1>7 DEF Upsert
  <2> HIDE DEF s, t
  <2> QED BY <1>0, <1>19, <2>1, <2>2, <2>5, <2>6, <2>7, <2>8, ServedStep
<1>8. ASSUME Become(q, Idle), UNCHANGED <<parent, user, lastUser, code, history>>
      PROVE  TypeInv'
  <2>1. Idle.pc # "spend"
    BY DEF Idle
  <2> QED BY <1>8, <2>1, IdleState, ReadingStep
<1>9. CASE Answer(q)
  BY <1>8, <1>9 DEF Answer
<1>10. CASE FindParent(q)
  <2>1. UNCHANGED <<parent, user, lastUser, code, history>>
    BY <1>10 DEF FindParent
  <2>2. ASSUME NEW p \in Parents, Become(q, [req[q] EXCEPT !.cmd = "none", !.pc = "update", !.row = FALSE, !.parent = p])
        PROVE  TypeInv'
    <3> DEFINE s == [req[q] EXCEPT !.cmd = "none", !.pc = "update", !.row = FALSE, !.parent = p]
    <3>1. s \in ReqState
      BY <1>0 DEF ReqState, Commands
    <3>2. LocalsSet(s) /\ s.pc # "spend"
      BY <1>0, <1>10 DEF FindParent, At, ReqState, LocalsSet, Serving
    <3> HIDE DEF s
    <3> QED BY <2>1, <2>2, <3>1, <3>2, ReadingStep DEF s
  <2> QED BY <1>8, <1>10, <2>1, <2>2 DEF FindParent
<1>11. ASSUME Wrote(q), At(q, "update"), user' \in [Accounts -> UserRow]
       PROVE  TypeInv'
  <2> DEFINE s == Saying(q)
  <2>2. req[q].account \in Accounts /\ req[q].parent \in Parents
    BY <1>0, <1>11 DEF At, LocalsSet, Serving
  <2>1. s \in ReqState /\ LocalsSet(s) /\ s.pc # "spend"
    BY <2>2, SayingState
  <2>3. HistoryOK'
    BY <1>0, <1>11, <2>2 DEF Wrote, HistoryOK
  <2>4. UNCHANGED <<parent, lastUser, code>> /\ Become(q, s)
    BY <1>11 DEF Wrote
  <2>5. CodesOwned'
    BY <1>0, <2>4 DEF CodesOwned
  <2> HIDE DEF s
  <2> QED BY <1>0, <1>11, <2>1, <2>3, <2>4, <2>5, ServedStep
<1>20. CASE UpdateUser(q)
  <2>1. req[q].account \in Accounts /\ req[q].parent \in Parents
    BY <1>0, <1>20 DEF UpdateUser, At, LocalsSet, Serving
  <2>2. user' \in [Accounts -> UserRow]
    BY <1>0, <1>20, <2>1 DEF UpdateUser, UserRow, ReqState
  <2> QED BY <1>11, <1>20, <2>2 DEF UpdateUser
<1>21. CASE Say(q)
  <2>1. req[q].account \in Accounts /\ req[q].parent \in Parents
    BY <1>0, <1>21 DEF Say, At, LocalsSet, Serving
  <2>2. told' \in [Accounts -> Parents \cup {None}]
    BY <1>0, <1>21, <2>1 DEF Say, HistoryOK
  <2>3. writer' \in [Accounts -> Reqs \cup {None}]
    BY <1>0, <1>21, <2>1 DEF Say, HistoryOK
  <2>4. UNCHANGED <<parent, user, lastUser, code, spent>> /\ Become(q, Idle)
        /\ Idle.pc # "spend"
    BY <1>21 DEF Say, Idle
  <2>5. CodesOwned' /\ HistoryOK'
    BY <1>0, <2>2, <2>3, <2>4 DEF CodesOwned, HistoryOK
  <2> QED BY <1>0, <2>4, <2>5, IdleState, ServedStep
<1>12. CASE FindCode(q)
  <2>1. UNCHANGED <<parent, user, lastUser, code, history>>
    BY <1>12 DEF FindCode
  <2>2. CASE Redeemable(req[q].code)
    <3> DEFINE s == [req[q] EXCEPT !.cmd = "none", !.pc = "spend", !.parent = code[req[q].code].parent]
    <3>1. req[q].code \in Codes /\ req[q].account \in Accounts
      BY <1>0, <1>12 DEF FindCode, At, LocalsSet, Serving
    <3>2. code[req[q].code].parent \in Parents /\ code[req[q].code].row # "none"
      BY <1>0, <2>2, <3>1 DEF Redeemable, CodesOwned
    <3>3. s \in ReqState
      BY <1>0, <3>2 DEF ReqState, Commands
    <3>4. LocalsSet(s) /\ code[s.code].row # "none"
      BY <1>0, <3>1, <3>2 DEF ReqState, LocalsSet, Serving
    <3>5. Become(q, s)
      BY <1>12, <2>2 DEF FindCode
    <3> HIDE DEF s
    <3> QED BY <2>1, <3>3, <3>4, <3>5, ReadingStep
  <2>3. CASE ~Redeemable(req[q].code)
    BY <1>8, <1>12, <2>1, <2>3 DEF FindCode
  <2> QED BY <2>2, <2>3
<1>13. CASE SpendCode(q)
  <2> DEFINE s == [req[q] EXCEPT !.pc = "load", !.code = None]
             k == req[q].code
             row == [code[k] EXCEPT !.row = "live", !.used = TRUE]
  <2>1. k \in Codes /\ code[k].row # "none"
    BY <1>0, <1>13 DEF SpendCode, At, LocalsSet, CodesRead
  <2>2. s \in ReqState
    BY <1>0 DEF ReqState
  <2>3. LocalsSet(s) /\ s.pc # "spend"
    BY <1>0, <1>13 DEF SpendCode, At, ReqState, LocalsSet, Serving
  <2>4. row \in CodeRow /\ row.parent = code[k].parent /\ row.row = "live"
    <3> DEFINE old == code[k]
    <3>1. old \in CodeRow
      BY <1>0, <2>1
    <3> HIDE DEF old, k
    <3>2. /\ [old EXCEPT !.row = "live", !.used = TRUE] \in CodeRow
          /\ [old EXCEPT !.row = "live", !.used = TRUE].parent = old.parent
          /\ [old EXCEPT !.row = "live", !.used = TRUE].row = "live"
      BY <3>1 DEF CodeRow
    <3> QED BY <3>2 DEF old
  <2>5. code' = [code EXCEPT ![k] = row]
    BY <1>13 DEF SpendCode
  <2> HIDE DEF row
  <2>6. code' \in [Codes -> CodeRow] /\ CodesOwned'
        /\ \A l \in Codes : code[l].row # "none" => code'[l].row # "none"
    BY <1>0, <2>1, <2>4, <2>5 DEF CodesOwned
  <2>7. HistoryOK'
    BY <1>0, <1>13, <2>1 DEF SpendCode, HistoryOK
  <2>8. UNCHANGED <<parent, user, lastUser>> /\ Become(q, s)
    BY <1>13 DEF SpendCode
  <2> HIDE DEF s
  <2> QED BY <1>0, <2>2, <2>3, <2>6, <2>7, <2>8, ServedStep
<1>14. CASE LoadParent(q)
  <2> DEFINE s == [req[q] EXCEPT !.pc = "save"]
  <2>1. s \in ReqState
    BY <1>0 DEF ReqState
  <2>2. LocalsSet(s) /\ s.pc # "spend"
    BY <1>0, <1>14 DEF LoadParent, At, ReqState, LocalsSet, Serving
  <2>3. UNCHANGED <<parent, user, lastUser, code, history>>
        /\ (Become(q, s) \/ Become(q, Idle))
    BY <1>14 DEF LoadParent
  <2> HIDE DEF s
  <2> QED BY <1>8, <2>1, <2>2, <2>3, ReadingStep
<1>15. CASE SaveUser(q)
  <2> DEFINE a == req[q].account
             row == [id |-> user[a].id, parent |-> req[q].parent, deliverable |-> TRUE,
                     name |-> req[q].name]
             s == Saying(q)
  <2>1. a \in Accounts /\ req[q].parent \in Parents
    BY <1>0, <1>15 DEF SaveUser, At, LocalsSet, Serving
  <2>2. row \in UserRow
    BY <1>0, <2>1 DEF UserRow, ReqState
  <2>3. \/ user' = [user EXCEPT ![a] = row] /\ writer' = [writer EXCEPT ![a] = q]
        \/ UNCHANGED <<user, writer>>
    BY <1>15 DEF SaveUser
  <2>4. s \in ReqState /\ LocalsSet(s) /\ s.pc # "spend"
    BY <2>1, SayingState
  <2>6. UNCHANGED <<parent, lastUser, code, told, spent>> /\ Become(q, s)
    BY <1>15 DEF SaveUser
  <2> HIDE DEF row, s, a
  <2>7. user' \in [Accounts -> UserRow]
    BY <1>0, <2>1, <2>2, <2>3
  <2>8. HistoryOK'
    BY <1>0, <2>1, <2>3, <2>6 DEF HistoryOK
  <2>9. CodesOwned'
    BY <1>0, <2>6 DEF CodesOwned
  <2> QED BY <1>0, <2>4, <2>6, <2>7, <2>8, <2>9, ServedStep
<1>16. CASE Unlink(q)
  <2>1. user' \in [Accounts -> UserRow]
    BY <1>0, <1>16 DEF Unlink, UserRow
  <2>2. HistoryOK'
    BY <1>0, <1>16 DEF Unlink, HistoryOK
  <2>3. UNCHANGED <<parent, lastUser, code>> /\ Become(q, Idle)
        /\ Idle.pc # "spend"
    BY <1>16 DEF Unlink, Idle
  <2>4. CodesOwned'
    BY <1>0, <2>3 DEF CodesOwned
  <2> QED BY <1>0, <2>1, <2>2, <2>3, <2>4, IdleState, ServedStep
<1>17. CASE RemoveOldCodes(q)
  <2> DEFINE s == [req[q] EXCEPT !.pc = "create"]
  <2>1. s \in ReqState
    BY <1>0 DEF ReqState
  <2>2. LocalsSet(s) /\ s.pc # "spend"
    BY <1>0, <1>17 DEF RemoveOldCodes, At, ReqState, LocalsSet, Serving
  <2>3. code' \in [Codes -> CodeRow] /\ CodesOwned'
        /\ \A l \in Codes : code[l].row # "none" => code'[l].row # "none"
    BY <1>0, <1>17 DEF RemoveOldCodes, CodeRow, CodesOwned
  <2>4. UNCHANGED <<parent, user, lastUser, history>> /\ Become(q, s)
    BY <1>17 DEF RemoveOldCodes
  <2> HIDE DEF s
  <2> QED BY <1>0, <1>19, <2>1, <2>2, <2>3, <2>4, ServedStep
<1>18. CASE CreateCode(q)
  <2> DEFINE row == [row |-> "live", parent |-> req[q].parent, used |-> FALSE, age |-> "fresh"]
  <2>1. row \in CodeRow /\ row.parent \in Parents /\ row.row = "live"
    BY <1>0, <1>18 DEF CreateCode, At, LocalsSet, CodeRow
  <2>2. UNCHANGED code \/ \E k \in Codes : code' = [code EXCEPT ![k] = row]
    BY <1>18 DEF CreateCode
  <2> HIDE DEF row
  <2>3. code' \in [Codes -> CodeRow] /\ CodesOwned'
        /\ \A l \in Codes : code[l].row # "none" => code'[l].row # "none"
    BY <1>0, <2>1, <2>2 DEF CodesOwned
  <2>4. UNCHANGED <<parent, user, lastUser, history>> /\ Become(q, Idle)
        /\ Idle.pc # "spend"
    BY <1>18 DEF CreateCode, Idle
  <2> QED BY <1>0, <1>19, <2>3, <2>4, IdleState, ServedStep
<1> QED BY <1>5, <1>6, <1>7, <1>9, <1>10, <1>12, <1>13, <1>14, <1>15, <1>16, <1>17, <1>18,
        <1>20, <1>21
        DEF Start, Step

\* Every reachable state of the dispatcher and the website is well formed: in
\* particular every statement has the account, parent or code it needs.
THEOREM TypeCorrect == Spec => []TypeOK
<1>1. TypeInv => TypeOK
  BY DEF TypeInv
<1> QED BY <1>1, TypeInvInit, TypeInvStep, PTL DEF Spec

-----------------------------------------------------------------------------
(* Who is linked, who was told so, and who can be reached.                 *)

\* A goroutine that has got past FirstOrCreate serves an account that has a row,
\* even when it does not hold that row itself.
PastUpsert(s) == s.pc \in {"dispatch", "update", "spend", "load", "save", "say"}
RowsHeld == \A q \in Reqs : PastUpsert(req[q]) => HasRow(req[q].account)

\* Rows are numbered as they come.
RowsNumbered ==
    /\ \A a \in Accounts : user[a].id <= lastUser
    /\ \A a, b \in Accounts : HasRow(a) /\ user[a].id = user[b].id => a = b

\* Whoever is the last to have written a link is about to say what it wrote.
SaysSoon(a) ==
    writer[a] # None =>
        /\ At(writer[a], "say")
        /\ req[writer[a]].account = a /\ user[a].parent = req[writer[a]].parent

LinkConsistent(a) ==
    /\ user[a].parent # None => HasRow(a) /\ user[a].deliverable
    /\ told[a] # None /\ writer[a] = None => user[a].parent = told[a]

LinkInv == RowsHeld /\ RowsNumbered /\ \A a \in Accounts : SaysSoon(a) /\ LinkConsistent(a)

\* A goroutine that ends, or goes on past the upsert, after a step that removes
\* no account's row.
LEMMA RowsHeldStep ==
    ASSUME TypeInv, LinkInv, NEW q \in Reqs, NEW s,
           Become(q, s), PastUpsert(s) => user'[s.account].id # 0,
           \A a \in Accounts : user[a].id # 0 => user'[a].id # 0
    PROVE  RowsHeld'
<1> SUFFICES ASSUME NEW p \in Reqs, PastUpsert(req'[p])
             PROVE  user'[req'[p].account].id # 0
  BY DEF RowsHeld, HasRow
<1>1. CASE p = q
  BY <1>1 DEF Become, TypeInv, TypeOK
<1>2. CASE p # q
  <2>1. req'[p] = req[p] /\ req[p].account \in Accounts
    BY <1>2 DEF Become, TypeInv, TypeOK, LocalsSet, Serving, PastUpsert
  <2> QED BY <2>1 DEF LinkInv, RowsHeld, HasRow
<1> QED BY <1>1, <1>2

\* The ids stay when the rows do.
LEMMA NumberedStep ==
    ASSUME RowsNumbered, UNCHANGED lastUser, \A a \in Accounts : user'[a].id = user[a].id
    PROVE  RowsNumbered'
  BY DEF RowsNumbered, HasRow

\* A goroutine that had nothing to say leaves alone those that have.
LEMMA SaysSoonStep ==
    ASSUME TypeInv, NEW q \in Reqs, NEW s, Become(q, s), ~At(q, "say"),
           NEW a \in Accounts, SaysSoon(a), user'[a].parent = user[a].parent,
           writer'[a] = writer[a]
    PROVE  SaysSoon(a)'
<1> SUFFICES ASSUME writer[a] # None
             PROVE  SaysSoon(a)'
  BY DEF SaysSoon
<1>1. writer[a] \in Reqs /\ writer[a] # q
  BY DEF SaysSoon, TypeInv, TypeOK
<1>2. req'[writer[a]] = req[writer[a]]
  BY <1>1 DEF Become, TypeInv, TypeOK
<1> QED BY <1>2 DEF SaysSoon, At

\* A step that writes no account and tells nobody anything.
LEMMA LinksUntouched ==
    ASSUME TypeInv, LinkInv, UNCHANGED <<user, lastUser, told, writer>>,
           UNCHANGED req
           \/ \E q \in Reqs : /\ ~At(q, "say")
                             /\ \E s : Become(q, s) /\ (PastUpsert(s) => HasRow(s.account))
    PROVE  LinkInv'
<1>1. RowsNumbered' /\ \A a \in Accounts : LinkConsistent(a)'
  BY DEF LinkInv, RowsNumbered, LinkConsistent, HasRow
<1>2. CASE UNCHANGED req
  BY <1>1, <1>2 DEF LinkInv, RowsHeld, SaysSoon, HasRow, At
<1>3. ASSUME NEW q \in Reqs, ~At(q, "say"), NEW s, Become(q, s), PastUpsert(s) => HasRow(s.account)
      PROVE  LinkInv'
  <2>1. RowsHeld'
    BY <1>3, RowsHeldStep DEF HasRow
  <2>2. \A a \in Accounts : SaysSoon(a)'
    BY <1>3, SaysSoonStep DEF LinkInv
  <2> QED BY <1>1, <2>1, <2>2 DEF LinkInv
<1> QED BY <1>2, <1>3

LEMMA LinkInvStep == TypeInv /\ LinkInv /\ [Next]_vars => LinkInv'
<1> SUFFICES ASSUME TypeInv, LinkInv, [Next]_vars
             PROVE  LinkInv'
  OBVIOUS
<1>1. CASE UNCHANGED vars \/ (\E p \in Parents : DeleteParent(p))
           \/ (\E k \in Codes : Age(k))
  BY <1>1, LinksUntouched DEF vars, history, DeleteParent, Age
<1> SUFFICES ASSUME NEW q \in Reqs, Start(q) \/ Step(q)
             PROVE  LinkInv'
  BY <1>1 DEF Next
<1>0. /\ user \in [Accounts -> UserRow]
      /\ told \in [Accounts -> Parents \cup {None}]
      /\ writer \in [Accounts -> Reqs \cup {None}] /\ lastUser \in Nat
      /\ req \in [Reqs -> ReqState] /\ req[q] \in ReqState /\ LocalsSet(req[q])
      /\ RowsNumbered /\ \A a \in Accounts : SaysSoon(a) /\ LinkConsistent(a)
      /\ PastUpsert(req[q]) => HasRow(req[q].account)
      /\ ~PastUpsert(Idle)
  BY DEF TypeInv, TypeOK, LinkInv, RowsHeld, PastUpsert, Idle
<1>2. CASE Start(q)
  <2>1. UNCHANGED <<user, lastUser, told, writer>> /\ ~At(q, "say")
    BY <1>2 DEF Start, Receive, ReadForUnlink, ReadForGenerate, history, Free, At
  <2>2. \E s : Become(q, s) /\ (PastUpsert(s) => HasRow(s.account))
    <3>1. ASSUME NEW a \in Accounts, NEW cmd \in Commands \ {"none"}, NEW k \in Codes \cup {None},
                 Receive(q, a, cmd, k)
          PROVE  \E s : Become(q, s) /\ (PastUpsert(s) => HasRow(s.account))
      <4>1. PICK n \in Names, b \in BOOLEAN, pc \in {"dispatch", "upsert"} :
              /\ Become(q, [Idle EXCEPT !.cmd = cmd, !.account = a, !.code = k, !.name = n,
                              !.pc = pc, !.row = b])
              /\ pc = "dispatch" => HasRow(a)
        BY <3>1, <1>0 DEF Receive
      <4> DEFINE s == [Idle EXCEPT !.cmd = cmd, !.account = a, !.code = k, !.name = n,
                         !.pc = pc, !.row = b]
      <4>2. PastUpsert(s) => HasRow(s.account)
        BY <4>1 DEF PastUpsert, Idle
      <4> HIDE DEF s
      <4> QED BY <4>1, <4>2 DEF s
    <3>2. ASSUME NEW p \in Parents, ReadForUnlink(q, p) \/ ReadForGenerate(q, p)
          PROVE  \E s : Become(q, s) /\ (PastUpsert(s) => HasRow(s.account))
      <4>1. PICK pc \in {"unlink", "clean"} : Become(q, [Idle EXCEPT !.pc = pc, !.parent = p])
        BY <3>2 DEF ReadForUnlink, ReadForGenerate
      <4>2. ~PastUpsert([Idle EXCEPT !.pc = pc, !.parent = p])
        BY DEF Idle, PastUpsert
      <4> QED BY <4>1, <4>2
    <3> QED BY <1>2, <3>1, <3>2 DEF Start
  <2> QED BY <2>1, <2>2, LinksUntouched
<1>3. CASE Upsert(q)
  <2>0. PICK a \in Accounts : a = req[q].account
    BY <1>0, <1>3 DEF Upsert, At, LocalsSet, Serving
  <2>1. UNCHANGED <<told, writer>> /\ ~At(q, "say")
    BY <1>3 DEF Upsert, At, history
  <2>2. \E s : Become(q, s) /\ s.account = a
    <3>1. /\ [req[q] EXCEPT !.pc = "dispatch"].account = a
          /\ [req[q] EXCEPT !.pc = "dispatch", !.row = TRUE].account = a
      BY <1>0, <2>0 DEF ReqState
    <3> QED BY <1>3, <3>1 DEF Upsert
  <2>3. CASE HasRow(a)
    <3>1. UNCHANGED <<user, lastUser>>
      BY <1>3, <2>0, <2>3 DEF Upsert
    <3> QED BY <2>0, <2>1, <2>2, <2>3, <3>1, LinksUntouched
  <2>4. CASE ~HasRow(a)
    <3>1. /\ lastUser' = lastUser + 1 /\ user'[a].id = lastUser + 1
          /\ user'[a].parent = None /\ user[a].parent = None
          /\ \A b \in Accounts \ {a} : user'[b] = user[b]
      BY <1>0, <1>3, <2>0, <2>4 DEF Upsert, LinkConsistent
    <3>2. \A b \in Accounts : LinkConsistent(b)'
      BY <1>0, <2>1, <3>1 DEF LinkConsistent, HasRow
    <3>3. \A b \in Accounts : SaysSoon(b)'
      <4>1. \A b \in Accounts : user'[b].parent = user[b].parent
        BY <3>1
      <4> QED BY <1>0, <2>1, <2>2, <4>1, SaysSoonStep
    <3>4. RowsHeld'
      <4>1. \A b \in Accounts : user[b].id # 0 => user'[b].id # 0
        BY <1>0, <3>1
      <4>2. user'[a].id # 0
        BY <1>0, <3>1
      <4> QED BY <2>2, <4>1, <4>2, RowsHeldStep
    <3>5. RowsNumbered'
      <4>1. \A b \in Accounts \ {a} : user'[b].id = user[b].id /\ user'[b].id \in Nat
        BY <1>0, <3>1 DEF UserRow
      <4> QED BY <1>0, <3>1, <4>1 DEF RowsNumbered, HasRow
    <3> QED BY <3>2, <3>3, <3>4, <3>5 DEF LinkInv
  <2> QED BY <2>3, <2>4
<1>4. CASE UpdateUser(q) \/ SaveUser(q)
  <2>0. PICK a \in Accounts, p \in Parents :
           a = req[q].account /\ p = req[q].parent /\ HasRow(a)
    BY <1>0, <1>4 DEF UpdateUser, SaveUser, At, LocalsSet, Serving, PastUpsert
  <2>1. PICK s : s = Saying(q)
    OBVIOUS
  <2>2. /\ s.pc = "say" /\ s.account = a /\ s.parent = p
        /\ Become(q, s) /\ ~At(q, "say")
        /\ UNCHANGED <<lastUser, told>>
    BY <1>0, <1>4, <2>0, <2>1, SayingState DEF UpdateUser, SaveUser, Wrote, At
  <2>3. /\ \A o \in Accounts : o # a => UNCHANGED <<user[o], writer[o]>>
        /\ user'[a].id = user[a].id
        /\ \/ user'[a].parent = p /\ user'[a].deliverable /\ writer'[a] = q
           \/ UNCHANGED <<user[a], writer[a]>>
    <3>1. CASE UpdateUser(q)
      BY <1>0, <2>0, <3>1 DEF UpdateUser, Wrote, UserRow
    <3>2. CASE SaveUser(q)
      BY <1>0, <2>0, <3>2 DEF SaveUser
    <3> QED BY <1>4, <3>1, <3>2
  <2>4. \A o \in Accounts : LinkConsistent(o)'
    BY <1>0, <2>0, <2>2, <2>3, NoneAssumption DEF LinkConsistent, HasRow
  <2>5. \A o \in Accounts : SaysSoon(o)'
    <3>1. ASSUME NEW o \in Accounts, UNCHANGED <<user[o], writer[o]>>
          PROVE  SaysSoon(o)'
      BY <1>0, <2>2, <3>1, SaysSoonStep
    <3>2. ASSUME user'[a].parent = p, writer'[a] = q
          PROVE  SaysSoon(a)'
      <4>1. req'[q] = s
        BY <1>0, <2>2 DEF Become
      <4> QED BY <2>2, <3>2, <4>1 DEF SaysSoon, At
    <3> QED BY <2>3, <3>1, <3>2
  <2>6. RowsHeld' /\ RowsNumbered'
    <3>1. \A o \in Accounts : user'[o].id = user[o].id
      BY <2>3
    <3> QED BY <1>0, <2>0, <2>2, <3>1, RowsHeldStep, NumberedStep DEF HasRow
  <2> QED BY <2>4, <2>5, <2>6 DEF LinkInv
<1>5. CASE Unlink(q)
  <2>1. /\ UNCHANGED lastUser /\ Become(q, Idle) /\ ~At(q, "say")
        /\ \A a \in Accounts : user'[a].id = user[a].id
    BY <1>0, <1>5 DEF Unlink, UserRow, At
  <2>2. \A a \in Accounts :
           \/ UNCHANGED <<user[a], told[a], writer[a]>>
           \/ user'[a].parent = None /\ told'[a] = None /\ writer'[a] = None
    BY <1>0, <1>5 DEF Unlink, UserRow
  <2>3. \A a \in Accounts : LinkConsistent(a)'
    BY <1>0, <2>1, <2>2 DEF LinkConsistent, HasRow
  <2>4. \A a \in Accounts : SaysSoon(a)'
    <3>1. ASSUME NEW a \in Accounts, UNCHANGED <<user[a], writer[a]>>
          PROVE  SaysSoon(a)'
      BY <1>0, <2>1, <3>1, SaysSoonStep
    <3> QED BY <2>2, <3>1 DEF SaysSoon
  <2>5. RowsHeld' /\ RowsNumbered'
    BY <1>0, <2>1, RowsHeldStep, NumberedStep
  <2> QED BY <2>3, <2>4, <2>5 DEF LinkInv
<1>7. CASE Say(q)
  <2>0. PICK a \in Accounts : a = req[q].account
    BY <1>0, <1>7 DEF Say, At, LocalsSet, Serving
  <2>1. UNCHANGED <<user, lastUser>> /\ Become(q, Idle)
    BY <1>7 DEF Say
  <2>2. RowsHeld' /\ RowsNumbered'
    BY <1>0, <2>1, RowsHeldStep, NumberedStep
  <2>3. ASSUME NEW o \in Accounts, o # a
        PROVE  SaysSoon(o)' /\ LinkConsistent(o)'
    <3>1. UNCHANGED <<user[o], told[o], writer[o]>>
      BY <1>0, <1>7, <2>0, <2>1, <2>3 DEF Say
    <3>2. LinkConsistent(o)'
      BY <1>0, <3>1 DEF LinkConsistent, HasRow
    <3>3. ASSUME writer[o] # None
          PROVE  writer[o] \in Reqs /\ req'[writer[o]] = req[writer[o]]
      <4>1. writer[o] \in Reqs /\ writer[o] # q
        BY <1>0, <2>0, <2>3, <3>3 DEF SaysSoon
      <4> QED BY <1>0, <2>1, <4>1 DEF Become
    <3> QED BY <1>0, <3>1, <3>2, <3>3 DEF SaysSoon, At
  <2>4. CASE writer[a] = q
    <3>1. writer'[a] = None /\ user'[a] = user[a] /\ user[a].parent = req[q].parent
          /\ (told'[a] = req[q].parent \/ told'[a] = None)
      BY <1>0, <1>7, <2>0, <2>1, <2>4, NoneAssumption DEF Say, SaysSoon
    <3>2. SaysSoon(a)' /\ LinkConsistent(a)'
      BY <1>0, <3>1 DEF SaysSoon, LinkConsistent, HasRow
    <3> QED BY <2>2, <2>3, <3>2 DEF LinkInv
  <2>5. CASE writer[a] # q
    <3>1. writer'[a] = writer[a] /\ user'[a] = user[a]
          /\ (told'[a] = told[a] \/ told'[a] = None)
      BY <1>0, <1>7, <2>0, <2>1, <2>5 DEF Say
    <3>2. LinkConsistent(a)'
      BY <1>0, <3>1 DEF LinkConsistent, HasRow
    <3>3. ASSUME writer[a] # None
          PROVE  req'[writer[a]] = req[writer[a]]
      BY <1>0, <2>1, <2>5, <3>3 DEF Become
    <3>4. SaysSoon(a)'
      BY <1>0, <3>1, <3>3 DEF SaysSoon, At
    <3> QED BY <2>2, <2>3, <3>2, <3>4 DEF LinkInv
  <2> QED BY <2>4, <2>5
<1>6. CASE \/ Answer(q) \/ FindParent(q) \/ FindCode(q) \/ SpendCode(q) \/ LoadParent(q)
           \/ RemoveOldCodes(q) \/ CreateCode(q)
  <2>1. UNCHANGED <<user, lastUser, told, writer>> /\ ~At(q, "say")
    BY <1>6 DEF Answer, FindParent, FindCode, SpendCode, LoadParent, RemoveOldCodes, CreateCode,
                history, At
  <2>2. \E s : Become(q, s) /\ (PastUpsert(s) => PastUpsert(req[q]) /\ s.account = req[q].account)
    <3>1. CASE Answer(q) \/ CreateCode(q)
      BY <1>0, <3>1 DEF Answer, CreateCode
    <3>2. CASE FindParent(q)
      <4>1. ASSUME NEW p \in Parents, Become(q, [req[q] EXCEPT !.cmd = "none", !.pc = "update", !.row = FALSE, !.parent = p])
            PROVE  \E s : /\ Become(q, s)
                          /\ PastUpsert(s) => PastUpsert(req[q]) /\ s.account = req[q].account
        <5> DEFINE s == [req[q] EXCEPT !.cmd = "none", !.pc = "update", !.row = FALSE, !.parent = p]
        <5>1. s.account = req[q].account /\ PastUpsert(req[q])
          BY <1>0, <3>2 DEF FindParent, At, PastUpsert, ReqState
        <5> HIDE DEF s
        <5> QED BY <4>1, <5>1 DEF s
      <4> QED BY <1>0, <3>2, <4>1 DEF FindParent
    <3>3. CASE FindCode(q)
      <4> DEFINE s == [req[q] EXCEPT !.cmd = "none", !.pc = "spend", !.parent = code[req[q].code].parent]
      <4>1. s.account = req[q].account /\ PastUpsert(req[q])
        BY <1>0, <3>3 DEF FindCode, At, PastUpsert, ReqState
      <4>2. Become(q, s) \/ Become(q, Idle)
        BY <3>3 DEF FindCode
      <4> HIDE DEF s
      <4> QED BY <1>0, <4>1, <4>2
    <3>4. CASE SpendCode(q)
      <4> DEFINE s == [req[q] EXCEPT !.pc = "load", !.code = None]
      <4>1. s.account = req[q].account /\ PastUpsert(req[q])
        BY <1>0, <3>4 DEF SpendCode, At, PastUpsert, ReqState
      <4>2. Become(q, s)
        BY <3>4 DEF SpendCode
      <4> HIDE DEF s
      <4> QED BY <1>0, <4>1, <4>2
    <3>5. CASE LoadParent(q)
      <4> DEFINE s == [req[q] EXCEPT !.pc = "save"]
      <4>1. s.account = req[q].account /\ PastUpsert(req[q])
        BY <1>0, <3>5 DEF LoadParent, At, PastUpsert, ReqState
      <4>2. Become(q, s) \/ Become(q, Idle)
        BY <3>5 DEF LoadParent
      <4> HIDE DEF s
      <4> QED BY <1>0, <4>1, <4>2
    <3>6. CASE RemoveOldCodes(q)
      <4>1. ~PastUpsert([req[q] EXCEPT !.pc = "create"])
        BY <1>0 DEF PastUpsert, ReqState
      <4> QED BY <3>6, <4>1 DEF RemoveOldCodes
    <3> QED BY <1>6, <3>1, <3>2, <3>3, <3>4, <3>5, <3>6
  <2>3. \E s : Become(q, s) /\ (PastUpsert(s) => HasRow(s.account))
    BY <1>0, <2>2
  <2> QED BY <2>1, <2>3, LinksUntouched
<1> QED BY <1>2, <1>3, <1>4, <1>5, <1>6, <1>7 DEF Step

LEMMA LinkInvInit == Init => LinkInv
  BY DEF Init, LinkInv, RowsHeld, RowsNumbered, SaysSoon, LinkConsistent, PastUpsert, Idle, HasRow

LEMMA LinkInvHolds == Spec => [](TypeInv /\ LinkInv)
  BY TypeInvInit, TypeInvStep, LinkInvInit, LinkInvStep, PTL DEF Spec

\* A finite set of numbers that is not empty has a least one.
LEMMA Least ==
    ASSUME NEW S, IsFiniteSet(S), S # {}, S \subseteq Int
    PROVE  \E m \in S : \A x \in S : m <= x
<1> DEFINE below == [x \in S |-> {y \in S : y < x}]
           T == {below[x] : x \in S}
<1>0. /\ \A x \in S : below[x] \in SUBSET S
      /\ \A x, y \in S : y \in below[x] <=> y < x
  OBVIOUS
<1> HIDE DEF below
<1>1. IsWellFoundedOn(StrictSubsetOrdering(S), FiniteSubsetsOf(S))
  BY FS_StrictSubsetOrderingWellFounded
<1>2. T \subseteq FiniteSubsetsOf(S) /\ T # {}
  <2>1. FiniteSubsetsOf(S) = SUBSET S
    BY FS_FiniteSubsetsOfFinite
  <2>2. PICK x : x \in S
    OBVIOUS
  <2>3. below[x] \in T
    BY <2>2
  <2>4. T \subseteq SUBSET S
    BY <1>0
  <2> QED BY <2>1, <2>3, <2>4
<1>3. PICK B \in T : \A C \in T : <<C, B>> \notin StrictSubsetOrdering(S)
  BY <1>1, <1>2, WFMin
<1>4. PICK m \in S : B = below[m]
  OBVIOUS
<1>5. ASSUME NEW x \in S, x < m
      PROVE  FALSE
  <2>0. x \in Int /\ m \in Int /\ \A y \in S : y \in Int
    OBVIOUS
  <2>1. x \in below[m] /\ x \notin below[x]
    BY <1>0, <1>5, <2>0
  <2>2. ASSUME NEW y \in below[x]
        PROVE  y \in below[m]
    <3>1. y \in S /\ y < x
      BY <1>0
    <3>2. y < m
      BY <1>5, <2>0, <3>1
    <3> QED BY <1>0, <3>1, <3>2
  <2>3. <<below[x], B>> \in StrictSubsetOrdering(S)
    BY <1>0, <1>4, <2>1, <2>2 DEF StrictSubsetOrdering
  <2> QED BY <1>3, <2>3
<1> QED BY <1>5


\* Whatever order of upserts, links, unlinks and repeated updates: a parent that
\* is linked has its promotions sent to exactly one of its linked accounts, and
\* its reminders to exactly one, however many are linked.
THEOREM LinkedStayReachable == Spec => []LinkedIsReachable
<1>1. ASSUME TypeInv, LinkInv, NEW p \in Parents, Linked(p) # {}
      PROVE  \E a, b \in Linked(p) : PromotionGoesTo(p) = {a} /\ ReminderGoesTo(p) = {b}
  <2> DEFINE L == Linked(p)
             ids == {user[a].id : a \in L}
             minus == {0 - user[a].id : a \in L}
  <2>1. Deliverable(p) = L /\ L \subseteq Accounts
    BY <1>1, NoneAssumption DEF LinkInv, LinkConsistent, Linked, Deliverable
  <2>2. \A a \in L : user[a].id \in Nat /\ user[a].id <= lastUser /\ HasRow(a)
    BY <1>1, NoneAssumption
       DEF TypeInv, TypeOK, UserRow, LinkInv, LinkConsistent, RowsNumbered, Linked
  <2>3. lastUser \in Nat
    BY <1>1 DEF TypeInv, TypeOK
  <2>4. ids \subseteq 0..lastUser /\ minus \subseteq (0 - lastUser)..0 /\ ids # {} /\ minus # {}
    BY <1>1, <2>2, <2>3
  <2>5. IsFiniteSet(ids) /\ IsFiniteSet(minus)
    <3>1. IsFiniteSet(0..lastUser) /\ IsFiniteSet((0 - lastUser)..0)
      BY <2>3, FS_Interval
    <3> QED BY <2>4, <3>1, FS_Subset
  <2>6. PICK a \in L : \A b \in L : user[a].id <= user[b].id
    <3>1. ids \subseteq Int
      BY <2>4
    <3>2. \E m \in ids : \A x \in ids : m <= x
      BY <2>4, <2>5, <3>1, Least
    <3> QED BY <3>2
  <2>7. PICK b \in L : \A o \in L : user[o].id <= user[b].id
    <3>1. minus \subseteq Int
      BY <2>4
    <3>2. \E m \in minus : \A x \in minus : m <= x
      BY <2>4, <2>5, <3>1, Least
    <3>3. PICK o \in L : \A x \in minus : 0 - user[o].id <= x
      BY <3>2
    <3>4. \A x \in L : 0 - user[o].id <= 0 - user[x].id
      BY <3>3
    <3> QED BY <2>2, <3>4
  <2>8. \A x, y \in L : user[x].id <= user[y].id /\ user[y].id <= user[x].id => x = y
    BY <1>1, <2>1, <2>2 DEF LinkInv, RowsNumbered
  <2>9. PromotionGoesTo(p) = {a}
    BY <2>1, <2>6, <2>8 DEF PromotionGoesTo
  <2>10. ReminderGoesTo(p) = {b}
    BY <2>1, <2>7, <2>8 DEF ReminderGoesTo
  <2> QED BY <2>9, <2>10
<1>2. TypeInv /\ LinkInv => LinkedIsReachable
  BY <1>1 DEF LinkedIsReachable
<1> QED BY <1>2, LinkInvHolds, PTL

\* "Linked to ..." is true until the link is written or removed again, but for a
\* message that never arrived, and those of a request that held no row or was
\* overtaken by another between its write and its message.
THEOREM ToldTheTruth == Spec => []LinkedAsTold
<1>1. LinkInv => LinkedAsTold
  BY DEF LinkInv, LinkConsistent, LinkedAsTold
<1> QED BY <1>1, LinkInvHolds, PTL

-----------------------------------------------------------------------------
(* How often a code is redeemed.                                           *)

\* A code that was redeemed is never fit to be redeemed again: it is used, or
\* deleted, which a late save undoes, and the use with it it does not.
SpentCodes == \A k \in spent : code[k].row # "none" /\ code[k].used

LEMMA SpentCodesStep == TypeInv /\ SpentCodes /\ [Next]_vars => SpentCodes'
<1> SUFFICES ASSUME TypeInv, SpentCodes, [Next]_vars
             PROVE  SpentCodes'
  OBVIOUS
<1>0. code \in [Codes -> CodeRow] /\ spent \subseteq Codes
  BY DEF TypeInv, TypeOK
<1>1. ASSUME UNCHANGED spent, \A k \in spent : code'[k].row # "none" /\ code'[k].used
      PROVE  SpentCodes'
  BY <1>1 DEF SpentCodes
<1>2. ASSUME UNCHANGED <<code, spent>>
      PROVE  SpentCodes'
  BY <1>2 DEF SpentCodes
<1>3. CASE UNCHANGED vars \/ (\E p \in Parents : DeleteParent(p))
  BY <1>2, <1>3 DEF vars, history, DeleteParent
<1>4. ASSUME NEW l \in Codes, Age(l)
      PROVE  SpentCodes'
  <2>1. \A k \in spent : code'[k].row # "none" /\ code'[k].used
    BY <1>0, <1>4 DEF Age, CodeRow, SpentCodes
  <2> QED BY <1>1, <1>4, <2>1 DEF Age, history
<1> SUFFICES ASSUME NEW q \in Reqs, Start(q) \/ Step(q)
             PROVE  SpentCodes'
  BY <1>3, <1>4 DEF Next
<1>5. CASE Start(q)
  BY <1>2, <1>5 DEF Start, Receive, ReadForUnlink, ReadForGenerate, history
<1>6. CASE \/ Upsert(q) \/ Answer(q) \/ FindParent(q) \/ UpdateUser(q) \/ FindCode(q)
           \/ LoadParent(q) \/ SaveUser(q) \/ Say(q) \/ Unlink(q)
  BY <1>2, <1>6 DEF Upsert, Answer, FindParent, UpdateUser, Wrote, FindCode, LoadParent,
                    SaveUser, Say, Unlink, history
<1>7. CASE SpendCode(q)
  <2>1. spent' = spent \cup {req[q].code} /\ req[q].code \in Codes
    BY <1>7 DEF SpendCode, At, TypeInv, LocalsSet
  <2>2. code'[req[q].code].row = "live" /\ code'[req[q].code].used
    BY <1>0, <1>7, <2>1 DEF SpendCode, CodeRow
  <2>3. \A k \in Codes \ {req[q].code} : code'[k] = code[k]
    BY <1>0, <1>7 DEF SpendCode
  <2> QED BY <1>0, <2>1, <2>2, <2>3 DEF SpentCodes
<1>8. CASE RemoveOldCodes(q)
  <2>1. \A k \in spent : code'[k].row # "none" /\ code'[k].used
    BY <1>0, <1>8 DEF RemoveOldCodes, CodeRow, SpentCodes
  <2> QED BY <1>1, <1>8, <2>1 DEF RemoveOldCodes, history
<1>9. CASE CreateCode(q)
  <2>1. \A k \in spent : code'[k].row # "none" /\ code'[k].used
    BY <1>0, <1>9 DEF CreateCode, SpentCodes
  <2> QED BY <1>1, <1>9, <2>1 DEF CreateCode, history
<1> QED BY <1>5, <1>6, <1>7, <1>8, <1>9 DEF Step

LEMMA SpentCodesInit == Init => SpentCodes
  BY DEF Init, SpentCodes

\* Whatever updates Telegram repeats, and however many at a time: a code that
\* somebody has redeemed is redeemed once more only by requests that had found
\* it unused before.
THEOREM CodeRunsOut == Spec => RedeemedWhileUnused
<1>1. ASSUME TypeInv, SpentCodes, Next, NEW q \in Reqs, At(q, "dispatch"), At(q, "spend")'
      PROVE  req[q].code \notin spent
  <2>0. req \in [Reqs -> ReqState]
    BY <1>1 DEF TypeInv, TypeOK
  <2>1. PICK o \in Reqs : Start(o) \/ Step(o)
    BY <1>1 DEF Next, DeleteParent, Age, At
  <2>2. \A s : Become(o, s) => o = q /\ s.pc = "spend"
    <3>1. req'[q] # req[q]
      BY <1>1 DEF At
    <3> QED BY <1>1, <2>0, <3>1 DEF Become, At
  <2>3. CASE Start(o)
    BY <1>1, <2>2, <2>3 DEF Start, Receive, ReadForUnlink, ReadForGenerate, Free, At, Idle
  <2>4. CASE FindCode(o)
    <3>1. Redeemable(req[q].code)
      BY <2>2, <2>4 DEF FindCode, Idle
    <3> QED BY <1>1, <3>1 DEF SpentCodes, Redeemable
  <2>5. CASE Upsert(o) \/ UpdateUser(o) \/ SpendCode(o) \/ LoadParent(o) \/ SaveUser(o) \/ Say(o)
             \/ Unlink(o) \/ RemoveOldCodes(o) \/ CreateCode(o)
    <3>1. o = q
      BY <2>2, <2>5 DEF Upsert, UpdateUser, Wrote, SpendCode, LoadParent, SaveUser, Say, Unlink,
                        RemoveOldCodes, CreateCode
    <3> QED BY <1>1, <2>5, <3>1 DEF Upsert, UpdateUser, SpendCode, LoadParent, SaveUser, Say, Unlink,
                        RemoveOldCodes, CreateCode, At
  <2>6. CASE Answer(o) \/ FindParent(o)
    <3>1. ASSUME NEW p \in Parents, Become(o, [req[o] EXCEPT !.cmd = "none", !.pc = "update", !.row = FALSE, !.parent = p])
          PROVE  FALSE
      <4>1. PICK s : s = [req[o] EXCEPT !.cmd = "none", !.pc = "update", !.row = FALSE, !.parent = p]
        OBVIOUS
      <4>2. s.pc = "update"
        BY <2>0, <4>1 DEF ReqState
      <4>3. s.pc = "spend"
        BY <2>2, <3>1, <4>1
      <4> QED BY <4>2, <4>3
    <3>2. ~Become(o, Idle)
      BY <2>2 DEF Idle
    <3> QED BY <2>6, <3>1, <3>2 DEF Answer, FindParent
  <2> QED BY <2>1, <2>3, <2>4, <2>5, <2>6 DEF Step
<1>2. TypeInv /\ SpentCodes /\ [Next]_vars =>
      [\A q \in Reqs : At(q, "dispatch") /\ At(q, "spend")' => req[q].code \notin spent]_vars
  BY <1>1
<1>3. Spec => [](TypeInv /\ SpentCodes)
  BY TypeInvInit, TypeInvStep, SpentCodesInit, SpentCodesStep, PTL DEF Spec
<1> QED BY <1>2, <1>3, PTL DEF Spec, RedeemedWhileUnused
=============================================================================

----------------------------- MODULE PagesProofs -----------------------------
(***************************************************************************)
(* Theorems about FamilySeats, and about what Pages shows of its tables,   *)
(* for every set of families, children, classes and request goroutines.    *)
(***************************************************************************)
EXTENDS Pages, WaitlistRank, EnrollmentProofs

-----------------------------------------------------------------------------
(* The tables of FamilySeats.                                              *)

\* What AdminParentDelete holds.
Visit == [pc : {"none", "gather", "erase", "rebalance"}, parent : Parents \cup {None},
          classes : SUBSET Classes, since : 0..MaxRegs + 1]

\* The process does not die here, so nothing is lost in a crash.
FamilyTypeOK ==
    /\ kid \in [Children -> BOOLEAN]
    /\ visit \in [Reqs -> Visit]
    /\ gone \in [Children -> 0..MaxRegs + 1]
    /\ lost = {}

\* The classes whose waitlist may be stranded without a recompute being owed.
Unnoticed == {c \in Classes : Pending(c) # {} \/ c \in missed}

\* A row that was inserted, and a request that registers, is of a child.
ChildrenKnown ==
    /\ \A r \in Regs : reg[r].status # "none" => reg[r].child \in Children
    /\ \A q \in Reqs : req[q].op # "none" => req[q].child \in Children

FamilyInv == FamilyTypeOK /\ WaitlistInv(Unnoticed) /\ ChildrenKnown

\* The steps that FamilySeats takes from Enrollment.
EnrollmentStep == [Next]_vars /\ lost' \subseteq lost

LEMMA EnrollmentSteps ==
    ASSUME FamilyNext
    PROVE  \/ EnrollmentStep /\ UNCHANGED familyVars
           \/ \E q \in Reqs : ChildNotFound(q) \/ EraseFamily(q) \/ NextClass(q)
           \/ UNCHANGED vars /\ \E q \in Reqs :
                 \/ \E p \in Parents : CountFuture(q, p)
                 \/ GatherClasses(q)
                 \/ \E k \in Children : DropChild(q, k)
<1>1. ASSUME NEW q \in Reqs, Arrival(q)
      PROVE  lost' \subseteq lost
  BY <1>1 DEF Arrival, Submit, Confirm, Cancel, ReadForDelete, ReadForCheckin,
     ReadForUpdate, ReadForDrop, Rebalance
<1>2. ASSUME NEW q \in Reqs, Step(q)
      PROVE  lost' \subseteq lost
  BY <1>2 DEF Step, CheckDuplicate, LoadDate, CheckSameDay, LoadClass, TurnedAway,
     CountConfirmed, Insert, Delete, Save, CountRoster, Drop, Guard, Mark, Notify,
     Recompute, Rebalance
<1>3. ASSUME NEW q \in Reqs, Enroll(q) \/ Continue(q)
      PROVE  EnrollmentStep /\ UNCHANGED familyVars
  BY <1>1, <1>2, <1>3 DEF Enroll, Continue, EnrollmentStep, Next
<1>4. ASSUME NEW c \in Classes, CreateClass(c) /\ UNCHANGED familyVars
      PROVE  EnrollmentStep /\ UNCHANGED familyVars
  BY <1>4 DEF CreateClass, EnrollmentStep, Next
<1>5. ASSUME NEW q \in Reqs,
             \/ \E p \in Parents : CountFuture(q, p)
             \/ GatherClasses(q)
             \/ \E k \in Children : DropChild(q, k)
      PROVE  UNCHANGED vars
  BY <1>5 DEF CountFuture, GatherClasses, DropChild
<1> QED BY <1>3, <1>4, <1>5 DEF FamilyNext

\* The classes of the rows of a parent are classes.
LEMMA ClassesOfRows ==
    ASSUME RowsInv, NEW p
    PROVE  ClassesOf(RegsOf(p)) \in SUBSET Classes
BY DEF RowsInv, RowsInserted, ClassesOf, RegsOf, Exists

LEMMA FamilyTypeStep ==
    ASSUME FamilyTypeOK, RowsInv, FamilyNext
    PROVE  FamilyTypeOK'
<1>0. nextReg \in 0..MaxRegs + 1 /\ 0 \in 0..MaxRegs + 1
  BY BoundsAssumption DEF RowsInv, TypeInv, TypeOK
<1>1. CASE EnrollmentStep /\ UNCHANGED familyVars
  BY <1>1 DEF FamilyTypeOK, EnrollmentStep, familyVars, history
<1>2. ASSUME NEW q \in Reqs, ChildNotFound(q)
      PROVE  FamilyTypeOK'
  BY <1>2 DEF FamilyTypeOK, ChildNotFound, familyVars, history
<1>3. NoVisit \in Visit
  BY <1>0 DEF NoVisit, Visit
<1>4. ASSUME NEW q \in Reqs, EraseFamily(q)
      PROVE  FamilyTypeOK'
  <2>1. [visit[q] EXCEPT !.pc = "rebalance"] \in Visit
    BY DEF FamilyTypeOK, Visit
  <2>2. visit' \in [Reqs -> Visit]
    BY <1>3, <1>4, <2>1 DEF EraseFamily, Proceed, FamilyTypeOK
  <2>3. kid' \in [Children -> BOOLEAN] /\ gone' \in [Children -> 0..MaxRegs + 1]
    BY <1>0, <1>4 DEF EraseFamily, FamilyTypeOK
  <2> QED BY <1>4, <2>2, <2>3 DEF EraseFamily, FamilyTypeOK
<1>5. ASSUME NEW q \in Reqs, NextClass(q)
      PROVE  FamilyTypeOK'
  <2>1. ASSUME NEW c
        PROVE  [visit[q] EXCEPT !.classes = @ \ {c}] \in Visit
    BY DEF FamilyTypeOK, Visit
  <2> QED BY <1>3, <1>5, <2>1 DEF NextClass, Proceed, FamilyTypeOK, history
<1>6. ASSUME NEW q \in Reqs, NEW p \in Parents, CountFuture(q, p)
      PROVE  FamilyTypeOK'
  <2>1. [NoVisit EXCEPT !.pc = "gather", !.parent = p, !.since = nextReg] \in Visit
    BY <1>0 DEF NoVisit, Visit
  <2> QED BY <1>6, <2>1 DEF CountFuture, Proceed, FamilyTypeOK, history, vars
<1>7. ASSUME NEW q \in Reqs, GatherClasses(q)
      PROVE  FamilyTypeOK'
  <2>1. [visit[q] EXCEPT !.pc = "erase", !.classes = ClassesOf(RegsOf(visit[q].parent))] \in Visit
    BY ClassesOfRows DEF FamilyTypeOK, Visit
  <2> QED BY <1>7, <2>1 DEF GatherClasses, Proceed, FamilyTypeOK, history, vars
<1>8. ASSUME NEW q \in Reqs, NEW k \in Children, DropChild(q, k)
      PROVE  FamilyTypeOK'
  BY <1>0, <1>8 DEF DropChild, FamilyTypeOK, vars
<1> QED BY <1>1, <1>2, <1>4, <1>5, <1>6, <1>7, <1>8, EnrollmentSteps

\* Deleting a family leaves the requests alone, and the rows of other families; what
\* a request remembers of the rows is true of deleted ones as well.
LEMMA EraseRows ==
    ASSUME RowsInv, NEW q \in Reqs, EraseFamily(q)
    PROVE  /\ RowsInv'
           /\ UNCHANGED <<class, req, lost>>
           /\ \A c : Waiting(reg', c) \subseteq Waiting(reg, c)
           /\ \A c : c \notin ClassesOf(RegsOf(visit[q].parent)) => Taken(reg', c) = Taken(reg, c)
<1> DEFINE R == RegsOf(visit[q].parent)
<1>0. TypeInv /\ TypeOK /\ RowsInserted /\ Memory
  BY DEF RowsInv, TypeInv
<1>1. /\ UNCHANGED <<class, nextReg, req, told, lost, crashes>>
      /\ reg' = [r \in Regs |-> IF r \in R THEN [reg[r] EXCEPT !.status = "deleted"] ELSE reg[r]]
  BY DEF EraseFamily
<1>2. \A r \in R : r \in Regs /\ Exists(r)
  BY DEF RegsOf
<1> HIDE DEF R
<1>3. \A r \in Regs : /\ reg'[r] \in RegRow
                      /\ reg'[r].class = reg[r].class
                      /\ reg'[r].status = IF r \in R THEN "deleted" ELSE reg[r].status
  BY <1>0, <1>1 DEF TypeOK, RegRow
<1>4. TypeInv'
  <2>1. TypeOK'
    BY <1>0, <1>1, <1>3 DEF TypeOK
  <2>2. IdsReserved' /\ OpsConsistent'
    BY <1>0, <1>1 DEF TypeInv, IdsReserved, OpsConsistent, Registering
  <2> QED BY <2>1, <2>2 DEF TypeInv
<1>5. RowsInserted'
  BY <1>0, <1>1, <1>2, <1>3 DEF RowsInserted, Exists
<1>6. Memory'
  BY <1>0, <1>1, <1>2, <1>3 DEF Memory, Knows, Exists, Settled
<1>7. \A c : Waiting(reg', c) \subseteq Waiting(reg, c)
  BY <1>3 DEF Waiting
<1>8. ASSUME NEW c, c \notin ClassesOf(R)
      PROVE  Taken(reg', c) = Taken(reg, c)
  BY <1>3, <1>8 DEF Taken, ClassesOf
<1> QED BY <1>1, <1>4, <1>5, <1>6, <1>7, <1>8 DEF RowsInv, R

LEMMA FamilyWaitlistStep ==
    ASSUME FamilyTypeOK, WaitlistInv(Unnoticed), FamilyNext
    PROVE  WaitlistInv(Unnoticed)'
<1> PICK E : E = Unnoticed
  OBVIOUS
<1>0. /\ WaitlistInv(E) /\ RowsInv /\ TypeInv /\ TypeOK /\ Memory /\ Noticed(E)
      /\ lost = {}
      /\ \A q \in Reqs : req[q] \in ReqState /\ visit[q] \in Visit
  BY DEF WaitlistInv, RowsInv, TypeInv, TypeOK, FamilyTypeOK
<1>1. ASSUME WaitlistInv(E)', E \subseteq Unnoticed'
      PROVE  WaitlistInv(Unnoticed)'
  BY <1>1 DEF WaitlistInv, Noticed
<1>2. CASE EnrollmentStep /\ UNCHANGED familyVars
  <2>1. Unnoticed' = Unnoticed
    BY <1>2 DEF Unnoticed, Pending, Visiting, familyVars, history
  <2> QED BY <1>0, <1>1, <1>2, <2>1, WaitlistInvStep DEF EnrollmentStep
<1>3. ASSUME NEW q \in Reqs, ChildNotFound(q)
      PROVE  WaitlistInv(Unnoticed)'
  <2>1. Unnoticed' = Unnoticed
    BY <1>3 DEF ChildNotFound, Unnoticed, Pending, Visiting, familyVars, history
  <2>2. TypeInv'
    BY <1>0, <1>3, RequestStates, OrdinaryStep DEF ChildNotFound, TypeOK, Idle
  <2>3. Knows(Idle, class, reg)
    BY NothingToKnow
  <2> QED BY <1>0, <1>1, <1>3, <2>1, <2>2, <2>3, LocalStep DEF ChildNotFound, At
<1>4. ASSUME NEW q \in Reqs, UNCHANGED vars, \A p \in Reqs \ {q} : visit'[p] = visit[p],
             visit[q].pc # "rebalance", missed' = missed
      PROVE  WaitlistInv(Unnoticed)'
  <2>1. Unnoticed \subseteq Unnoticed'
    BY <1>4 DEF Unnoticed, Pending, Visiting
  <2> QED BY <1>0, <1>1, <1>4, <2>1, WaitlistInvStep
<1>5. ASSUME NEW q \in Reqs, NEW p \in Parents, CountFuture(q, p)
      PROVE  WaitlistInv(Unnoticed)'
  BY <1>0, <1>4, <1>5 DEF CountFuture, Proceed, Unoccupied, Visiting, FamilyTypeOK, history
<1>6. ASSUME NEW q \in Reqs, GatherClasses(q)
      PROVE  WaitlistInv(Unnoticed)'
  BY <1>0, <1>4, <1>6 DEF GatherClasses, Proceed, Visiting, FamilyTypeOK, history
<1>7. ASSUME NEW q \in Reqs, NEW k \in Children, DropChild(q, k)
      PROVE  WaitlistInv(Unnoticed)'
  BY <1>0, <1>4, <1>7 DEF DropChild, Unoccupied, Visiting
<1>8. ASSUME NEW q \in Reqs, EraseFamily(q)
      PROVE  WaitlistInv(Unnoticed)'
  <2> DEFINE R == RegsOf(visit[q].parent)
  <2>1. /\ RowsInv' /\ UNCHANGED <<class, req, lost>>
        /\ \A c : Waiting(reg', c) \subseteq Waiting(reg, c)
        /\ \A c : c \notin ClassesOf(R) => Taken(reg', c) = Taken(reg, c)
    BY <1>0, <1>8, EraseRows
  <2>2. ClassesOf(R) \subseteq visit[q].classes \cup missed' /\ missed \subseteq missed'
    BY <1>8 DEF EraseFamily
  <2>3. visit[q].classes # {} => visit'[q].pc = "rebalance" /\ visit'[q].classes = visit[q].classes
    BY <1>0, <1>8 DEF EraseFamily, Proceed, FamilyTypeOK, Visit
  <2>4. \A p \in Reqs \ {q} : visit'[p] = visit[p]
    BY <1>0, <1>8 DEF EraseFamily, Proceed, FamilyTypeOK
  <2>5. visit[q].pc = "erase"
    BY <1>8 DEF EraseFamily, Visiting
  <2>6. Unnoticed \cup (ClassesOf(R) \cap Classes) \subseteq Unnoticed'
    BY <2>2, <2>3, <2>4, <2>5 DEF Unnoticed, Pending, Visiting
  <2> HIDE DEF R
  <2>7. ASSUME NEW c \in Classes, Stranded(c)', c \notin Unnoticed'
        PROVE  Stranded(c)
    BY <2>1, <2>6, <2>7 DEF Stranded, Live
  <2>8. \A c \in Classes : Owing(c)' = Owing(c)
    BY <2>1 DEF Owing, At
  <2> QED BY <1>0, <2>1, <2>6, <2>7, <2>8 DEF WaitlistInv, Noticed
<1>9. ASSUME NEW q \in Reqs, NextClass(q)
      PROVE  WaitlistInv(Unnoticed)'
  <2>1. PICK c \in visit[q].classes :
           /\ Become(q, RecomputeOwed(c))
           /\ Proceed(q, IF visit[q].classes = {c} THEN NoVisit
                         ELSE [visit[q] EXCEPT !.classes = @ \ {c}])
    BY <1>9 DEF NextClass
  <2>2. c \in Classes
    BY <1>0 DEF Visit
  <2>3. UNCHANGED <<class, reg, nextReg, told, lost, crashes, missed>> /\ req[q].pc = "idle"
        /\ visit[q].pc = "rebalance"
    BY <1>9 DEF NextClass, Visiting, At, history
  <2>4. RecomputeOwed(c).op = "none"
    BY DEF RecomputeOwed, Idle
  <2>5. TypeInv'
    BY <1>0, <2>1, <2>2, <2>3, <2>4, RequestStates, OrdinaryStep DEF TypeOK
  <2>6. WaitlistInv(E)'
    BY <1>0, <2>1, <2>2, <2>3, <2>5, OwingStep DEF At, Lasting, WaitlistInv, RowsInv, RowsInserted
  <2>7. \A p \in Reqs \ {q} : visit'[p] = visit[p]
    BY <2>1 DEF Proceed, FamilyTypeOK
  <2>8. visit[q].classes # {c} => visit'[q].pc = "rebalance"
                                  /\ visit'[q].classes = visit[q].classes \ {c}
    BY <1>0, <2>1, <2>3 DEF Proceed, FamilyTypeOK, Visit
  <2>9. E \ {c} \subseteq Unnoticed'
    BY <2>3, <2>7, <2>8 DEF Unnoticed, Pending, Visiting
  <2>10. q \in Owing(c)'
    BY <1>0, <2>1 DEF Owing, At, Become, TypeOK, RecomputeOwed, Idle
  <2> QED BY <2>6, <2>9, <2>10 DEF WaitlistInv, Noticed
<1> QED
  BY <1>2, <1>3, <1>5, <1>6, <1>7, <1>8, <1>9, EnrollmentSteps

LEMMA FamilyWaitlistAlways == FamilySpec => [](FamilyTypeOK /\ WaitlistInv(Unnoticed))
<1>1. FamilyInit => FamilyTypeOK
  BY BoundsAssumption DEF FamilyInit, Init, FamilyTypeOK, NoVisit, Visit
<1>2. FamilyInit => WaitlistInv(Unnoticed)
  <2>1. FamilyInit => WaitlistInv({})
    BY WaitlistInvInit DEF FamilyInit
  <2> QED BY <2>1 DEF WaitlistInv, Noticed
<1>3. /\ FamilyTypeOK /\ WaitlistInv(Unnoticed)
      /\ [FamilyNext]_allVars
      => (FamilyTypeOK /\ WaitlistInv(Unnoticed))'
  <2>1. CASE FamilyNext
    BY <2>1, FamilyTypeStep, FamilyWaitlistStep DEF WaitlistInv
  <2>2. CASE UNCHANGED allVars
    <3>1. PICK E : E = Unnoticed
      OBVIOUS
    <3>2. Unnoticed' = Unnoticed /\ (FamilyTypeOK => FamilyTypeOK')
      BY <2>2 DEF allVars, vars, familyVars, history, Unnoticed, Pending, Visiting, FamilyTypeOK
    <3>3. WaitlistInv(E) => WaitlistInv(E)'
      BY <2>2, WaitlistInvStep DEF allVars
    <3> QED BY <3>1, <3>2, <3>3 DEF WaitlistInv, Noticed
  <2> QED BY <2>1, <2>2
<1> QED BY <1>1, <1>2, <1>3, PTL DEF FamilySpec

\* However parents are deleted while others register, cancel and check in: a free
\* seat beside a waiting child is noticed by a recompute that is owed or is still to
\* come in the loop of AdminParentDelete, unless the deletion did not know the class.
THEOREM FamiliesLeaveNoStranded == FamilySpec => []FamilyLeavesNoStranded
<1>1. FamilyTypeOK /\ WaitlistInv(Unnoticed) => FamilyLeavesNoStranded
  BY DEF FamilyTypeOK, WaitlistInv, Noticed, Unnoticed, FamilyLeavesNoStranded
<1> QED BY <1>1, FamilyWaitlistAlways, PTL

-----------------------------------------------------------------------------
(* Rows and the children they are for.                                     *)

\* What a step of Enrollment does to one row: a new one is made by an insert, with
\* the next id; one that is deleted or canceled comes back by a check-in only, and
\* goes by AdminRegDelete only.
LEMMA RowsMove ==
    ASSUME RowsInv, Next, NEW r \in Regs
    PROVE  /\ reg[r].status # "none" =>
                 reg'[r].child = reg[r].child /\ reg'[r].class = reg[r].class
           /\ reg[r].status = "none" /\ reg'[r].status # "none" =>
                 r = nextReg /\ \E q \in Reqs : Insert(q) /\ reg'[r].child = req[q].child
           /\ \/ reg[r].status = "none"
              \/ \E q \in Reqs : At(q, "mark") /\ req[q].reg = r
              \/ /\ reg'[r].status \in Holding => reg[r].status \in Holding
                 /\ Exists(r)' => Exists(r)
           /\ Exists(r) => Exists(r)' \/ \E q \in Reqs : At(q, "delete") /\ req[q].reg = r
<1> DEFINE Kept(row) == /\ row.child = reg[r].child /\ row.class = reg[r].class
                        /\ reg[r].status = "none" => row.status = "none"
                        /\ row.status \in Holding => reg[r].status \in Holding
                        /\ row.status \notin {"none", "deleted"} <=> Exists(r)
           Marked(q) == /\ At(q, "mark") /\ req[q].reg = r
                        /\ reg[r].status # "none"
                        /\ reg'[r].child = reg[r].child /\ reg'[r].class = reg[r].class
                        /\ reg'[r].status = "confirmed"
           Erased(q) == /\ At(q, "delete") /\ req[q].reg = r
                        /\ reg[r].status # "none"
                        /\ reg'[r].child = reg[r].child /\ reg'[r].class = reg[r].class
                        /\ reg'[r].status = "deleted"
           Made(q) == /\ reg[r].status = "none" /\ r = nextReg
                      /\ Insert(q) /\ reg'[r].child = req[q].child
<1>0. /\ TypeInv /\ TypeOK /\ RowsInserted /\ Memory
      /\ \A q \in Reqs : req[q] \in ReqState /\ Knows(req[q], class, reg)
  BY DEF RowsInv, TypeInv, TypeOK, Memory
<1>1. ASSUME NEW q \in Reqs, Insert(q)
      PROVE  Kept(reg'[r]) \/ Made(q)
  BY <1>0, <1>1 DEF Insert, RowsInserted, TypeOK, Regs, Exists
<1>2. ASSUME NEW q \in Reqs, Delete(q)
      PROVE  Kept(reg'[r]) \/ Erased(q)
  BY <1>0, <1>2 DEF Delete, At, Knows, TypeOK, RegRow, Exists, Holding
<1>3. ASSUME NEW q \in Reqs, Mark(q)
      PROVE  Kept(reg'[r]) \/ Marked(q)
  BY <1>0, <1>3 DEF Mark, At, Knows, Settled, TypeOK, RegRow, Exists
<1>4. ASSUME NEW q \in Reqs, NEW c \in Classes, NEW u \in [Regs -> RegRow],
             Rebalance(q, u, c), Kept(u[r])
      PROVE  Kept(reg'[r])
  <2>1. PICK P \in Promotions(u, c) :
           /\ P \subseteq Waiting(u, c)
           /\ reg'[r].child = u[r].child /\ reg'[r].class = u[r].class
           /\ reg'[r].status = IF r \in P THEN "confirmed" ELSE u[r].status
    BY <1>0, <1>4, RebalanceEffect
  <2>2. r \in P => u[r].status = "waitlisted"
    BY <2>1 DEF Waiting
  <2> QED BY <1>4, <2>1, <2>2 DEF Holding
<1>5. ASSUME NEW q \in Reqs, Live(req[q].class), Rebalance(q, reg, req[q].class)
      PROVE  Kept(reg'[r])
  BY <1>0, <1>4, <1>5 DEF Live, TypeOK, Exists
<1>6. ASSUME NEW q \in Reqs, NEW x \in Regs, Cancel(q, x)
      PROVE  Kept(reg'[r])
  <2>1. Canceled(x) \in [Regs -> RegRow] /\ Kept(Canceled(x)[r])
    BY <1>0, <1>6 DEF Canceled, TypeOK, RegRow, Cancel, Exists, Holding
  <2> QED BY <1>4, <1>6, <2>1 DEF Cancel, Live
<1>7. Kept(reg'[r]) \/ \E q \in Reqs : Marked(q) \/ Erased(q) \/ Made(q)
  <2>1. CASE reg' = reg
    BY <2>1 DEF Exists
  <2> QED BY <2>1, <1>1, <1>2, <1>3, <1>5, <1>6, RegistrationSteps
<1> QED BY <1>7 DEF Exists, Holding

\* What a request is about to check in: what it had in hand, or a confirmed row; and
\* the child it registers is the one it was to register, or a child.
LEMMA RequestsMove ==
    ASSUME RowsInv, Next, NEW q \in Reqs
    PROVE  /\ q \in Rechecking(req') =>
                 \/ q \in Rechecking(req) /\ req'[q].reg = req[q].reg
                 \/ reg[req'[q].reg].status = "confirmed" /\ req'[q].reg \in Regs
           /\ req'[q].op # "none" =>
                 \/ req'[q].child \in Children
                 \/ req[q].op # "none" /\ req'[q].child = req[q].child
<1>0. TypeInv /\ TypeOK
  BY DEF RowsInv, TypeInv
<1>1. CASE req' = req
  BY <1>1 DEF Rechecking
<1>2. CASE Crash
  BY <1>2 DEF Crash, Rechecking, Idle
<1>3. ASSUME NEW p \in Reqs, NEW s, Follows(p, s)
      PROVE  /\ q \in Rechecking(req') =>
                   \/ q \in Rechecking(req) /\ req'[q].reg = req[q].reg
                   \/ reg[req'[q].reg].status = "confirmed" /\ req'[q].reg \in Regs
             /\ req'[q].op # "none" =>
                   \/ req'[q].child \in Children
                   \/ req[q].op # "none" /\ req'[q].child = req[q].child
  <2>1. CASE q # p
    BY <1>0, <1>3, <2>1 DEF Follows, Become, TypeOK, Rechecking
  <2>2. CASE q = p
    <3>1. req'[q] = s
      BY <1>0, <1>3, <2>2 DEF Follows, Become, TypeOK
    <3>2. s.pc = "guard" => reg[s.reg].status = "confirmed" /\ s.reg \in Regs
      BY <1>3, <2>2 DEF Follows, ReadForCheckin, Eligible
    <3>3. s.pc = "mark" => q \in Rechecking(req) /\ s.reg = req[q].reg
      BY <1>3, <2>2 DEF Follows, Guard, At, Rechecking
    <3> QED BY <1>3, <2>2, <3>1, <3>2, <3>3 DEF Follows, Rechecking
  <2> QED BY <2>1, <2>2
<1> QED BY <1>0, <1>1, <1>2, <1>3, StepFollows, ArrivalFollows DEF Next, CreateClass

\* Why a place may be held for the child of row r: the child is there, or was
\* deleted when the row was not yet made, or was being checked in.
Covered(r) == kid[reg[r].child] \/ r >= gone[reg[r].child] \/ r \in stale

SeatsCovered ==
    /\ \A r \in Regs : reg[r].status \in Holding => Covered(r)
    /\ \A q \in Rechecking(req) : Covered(req[q].reg)
    /\ \A k \in Children : ~kid[k] => gone[k] <= nextReg

\* Ids are used in order.
LEMMA IdsGrow ==
    ASSUME RowsInv, [Next]_vars
    PROVE  nextReg' >= nextReg
<1>1. ASSUME NEW q \in Reqs, Insert(q)
      PROVE  nextReg' = nextReg + 1
  BY <1>1 DEF Insert
<1>2. ASSUME NEW q \in Reqs, Step(q)
      PROVE  Insert(q) \/ nextReg' = nextReg
  BY <1>2 DEF Step, CheckDuplicate, LoadDate, CheckSameDay, LoadClass, TurnedAway,
     CountConfirmed, Delete, Save, CountRoster, Drop, Guard, Mark, Recompute, Notify
<1>3. ASSUME NEW q \in Reqs, Arrival(q)
      PROVE  nextReg' = nextReg
  BY <1>3 DEF Arrival, Submit, Confirm, Cancel, ReadForDelete, ReadForCheckin,
     ReadForUpdate, ReadForDrop
<1>4. nextReg' = nextReg + 1 \/ nextReg' = nextReg
  BY <1>1, <1>2, <1>3 DEF Next, CreateClass, Crash, vars
<1>5. nextReg \in Int
  BY BoundsAssumption DEF RowsInv, TypeInv, TypeOK
<1> QED BY <1>4, <1>5

LEMMA ChildrenKnownStep ==
    ASSUME RowsInv, ChildrenKnown, FamilyTypeOK, FamilyNext
    PROVE  ChildrenKnown'
<1>0. TypeInv /\ TypeOK
  BY DEF RowsInv, TypeInv
<1>1. CASE Next
  <2>1. ASSUME NEW q \in Reqs, Insert(q)
        PROVE  req[q].child \in Children
    BY <1>0, <2>1 DEF TypeInv, OpsConsistent, Consistent, RegisteringSteps, Insert, At, ChildrenKnown
  <2> QED BY <1>1, <2>1, RowsMove, RequestsMove DEF ChildrenKnown
<1>2. CASE UNCHANGED vars
  BY <1>2 DEF vars, ChildrenKnown
<1>3. ASSUME NEW q \in Reqs, NEW s, Become(q, s), s.op = "none", reg' = reg
      PROVE  ChildrenKnown'
  BY <1>0, <1>3 DEF Become, TypeOK, ChildrenKnown
<1>4. ASSUME NEW q \in Reqs, ChildNotFound(q) \/ NextClass(q)
      PROVE  ChildrenKnown'
  BY <1>3, <1>4 DEF ChildNotFound, NextClass, Idle, RecomputeOwed
<1>5. ASSUME NEW q \in Reqs, EraseFamily(q)
      PROVE  ChildrenKnown'
  <2>1. \A r \in Regs : /\ reg'[r].child = reg[r].child
                        /\ reg'[r].status # "none" => reg[r].status # "none"
    BY <1>0, <1>5 DEF EraseFamily, TypeOK, RegRow, RegsOf, Exists
  <2> QED BY <1>5, <2>1 DEF EraseFamily, ChildrenKnown
<1> QED BY <1>1, <1>2, <1>4, <1>5, EnrollmentSteps DEF EnrollmentStep

\* A place that is held, or about to be checked in, stays accounted for.
LEMMA SeatsCoveredStep ==
    ASSUME RowsInv, ChildrenKnown, FamilyTypeOK, SeatsCovered, FamilyNext
    PROVE  SeatsCovered'
<1>0. /\ TypeInv /\ TypeOK /\ Memory
      /\ nextReg \in Int /\ 0 <= nextReg /\ Regs \subseteq Int
      /\ \A q \in Rechecking(req) : req[q].reg \in Regs /\ reg[req[q].reg].status # "none"
  BY BoundsAssumption DEF RowsInv, TypeInv, TypeOK, Memory, Knows, Rechecking, Settled, Regs
<1>1. ASSUME UNCHANGED familyVars, Next
      PROVE  SeatsCovered'
  <2>1. ASSUME NEW r \in Regs, reg[r].status # "none", Covered(r)
        PROVE  Covered(r)'
    BY <1>1, <2>1, RowsMove DEF Covered, familyVars, history
  <2>2. ASSUME NEW r \in Regs, reg[r].status = "none", reg'[r].status # "none"
        PROVE  Covered(r)'
    <3>1. PICK q \in Reqs : Insert(q) /\ r = nextReg /\ reg'[r].child = req[q].child
      BY <1>1, <2>2, RowsMove
    <3>2. req[q].child \in Children
      BY <1>0, <3>1 DEF TypeInv, OpsConsistent, Consistent, RegisteringSteps, Insert, At, ChildrenKnown
    <3> QED BY <1>0, <1>1, <3>1, <3>2 DEF SeatsCovered, Covered, familyVars, history, FamilyTypeOK
  <2>3. ASSUME NEW r \in Regs, reg'[r].status \in Holding
        PROVE  Covered(r)'
    <3>1. CASE reg[r].status = "none"
      BY <2>2, <2>3, <3>1 DEF Holding
    <3>2. ASSUME NEW q \in Reqs, At(q, "mark"), req[q].reg = r
          PROVE  Covered(r)'
      BY <1>0, <2>1, <3>2 DEF At, Rechecking, SeatsCovered
    <3>3. CASE reg[r].status \in Holding
      BY <2>1, <3>3 DEF SeatsCovered, Holding
    <3> QED BY <1>1, <2>3, <3>1, <3>2, <3>3, RowsMove
  <2>4. ASSUME NEW q \in Rechecking(req')
        PROVE  Covered(req[q].reg)'
    <3>1. q \in Reqs
      BY DEF Rechecking
    <3>2. PICK r : r = req'[q].reg
      OBVIOUS
    <3>3. \/ q \in Rechecking(req) /\ r = req[q].reg
          \/ reg[r].status = "confirmed" /\ r \in Regs
      BY <1>1, <2>4, <3>1, <3>2, RequestsMove
    <3>4. r \in Regs /\ reg[r].status # "none" /\ Covered(r)
      BY <1>0, <3>3 DEF SeatsCovered, Holding
    <3>5. Covered(r)'
      BY <2>1, <3>4
    <3> QED BY <3>2, <3>5 DEF Covered
  <2>5. ASSUME NEW k \in Children, ~kid'[k]
        PROVE  gone'[k] <= nextReg'
    <3>1. nextReg' \in Int /\ nextReg' >= nextReg
      BY <1>1, IdsGrow, TypeInvStep, <1>0, BoundsAssumption DEF TypeInv, TypeOK
    <3>2. kid' = kid /\ gone' = gone
      BY <1>1 DEF familyVars, history
    <3>3. gone[k] \in Int /\ gone[k] <= nextReg
      BY <2>5, <3>2, BoundsAssumption DEF SeatsCovered, FamilyTypeOK
    <3> QED BY <1>0, <3>1, <3>2, <3>3
  <2> QED BY <2>3, <2>4, <2>5 DEF SeatsCovered
<1>2. ASSUME UNCHANGED <<reg, nextReg, kid, gone, stale>>, Rechecking(req') \subseteq Rechecking(req),
             \A q \in Rechecking(req') : req'[q].reg = req[q].reg
      PROVE  SeatsCovered'
  BY <1>2 DEF SeatsCovered, Covered
<1>3. ASSUME NEW q \in Reqs, NEW s, Become(q, s), s.pc \notin {"guard", "mark"},
             UNCHANGED <<reg, nextReg, kid, gone, stale>>
      PROVE  SeatsCovered'
  BY <1>0, <1>2, <1>3 DEF Become, TypeOK, Rechecking
<1>4. ASSUME NEW q \in Reqs, ChildNotFound(q) \/ NextClass(q)
      PROVE  SeatsCovered'
  BY <1>3, <1>4 DEF ChildNotFound, NextClass, Idle, RecomputeOwed, familyVars, history
<1>5. ASSUME NEW q \in Reqs, EraseFamily(q)
      PROVE  SeatsCovered'
  <2> DEFINE p == visit[q].parent
             R == RegsOf(p)
  <2>1. /\ nextReg' = nextReg /\ req' = req
        /\ reg' = [r \in Regs |-> IF r \in R THEN [reg[r] EXCEPT !.status = "deleted"] ELSE reg[r]]
        /\ kid' = [k \in Children |-> kid[k] /\ Owner[k] # p]
        /\ gone' = [k \in Children |-> IF Owner[k] = p THEN nextReg ELSE gone[k]]
        /\ stale' = stale \cup {req[o].reg : o \in Rechecking(req)}
    BY <1>5 DEF EraseFamily, Rechecking, At
  <2>2. \A r \in R : r \in Regs
    BY DEF RegsOf
  <2>3. ASSUME NEW r \in Regs, reg'[r].status \in Holding
        PROVE  Covered(r)'
    <3>1. r \notin R /\ reg'[r] = reg[r]
      BY <1>0, <2>1, <2>3 DEF Holding, TypeOK, RegRow
    <3>2. reg[r].child \in Children /\ Owner[reg[r].child] # p
      BY <2>3, <3>1 DEF ChildrenKnown, Holding, RegsOf, Exists
    <3>3. Covered(r)
      BY <2>3, <3>1 DEF SeatsCovered
    <3> QED BY <2>1, <3>1, <3>2, <3>3 DEF Covered, FamilyTypeOK
  <2>4. \A o \in Rechecking(req)' : Covered(req[o].reg)'
    BY <2>1 DEF Covered
  <2>5. \A k \in Children : ~kid'[k] => gone'[k] <= nextReg'
    BY <1>0, <2>1 DEF SeatsCovered, FamilyTypeOK
  <2> QED BY <2>1, <2>3, <2>4, <2>5 DEF SeatsCovered, Rechecking
<1>6. ASSUME NEW q \in Reqs, NEW k \in Children, DropChild(q, k)
      PROVE  SeatsCovered'
  <2>1. /\ UNCHANGED <<reg, nextReg, req, stale>>
        /\ \A j \in Children : \/ kid'[j] = kid[j] /\ gone'[j] = gone[j]
                               \/ gone'[j] = 0
    BY <1>6 DEF DropChild, vars, FamilyTypeOK
  <2>2. ASSUME NEW r \in Regs, reg[r].status # "none", Covered(r)
        PROVE  Covered(r)'
    <3>1. reg[r].child \in Children /\ r >= 0
      BY <2>2 DEF ChildrenKnown, Regs
    <3> QED BY <2>1, <2>2, <3>1 DEF Covered
  <2>3. \A j \in Children : ~kid'[j] => gone'[j] <= nextReg'
    BY <1>0, <2>1 DEF SeatsCovered
  <2> QED BY <1>0, <2>1, <2>2, <2>3 DEF SeatsCovered, Holding, Rechecking
<1>7. ASSUME UNCHANGED vars, UNCHANGED <<kid, gone, stale>>
      PROVE  SeatsCovered'
  BY <1>7 DEF vars, SeatsCovered, Covered
<1>8. ASSUME NEW q \in Reqs, (\E p \in Parents : CountFuture(q, p)) \/ GatherClasses(q)
      PROVE  SeatsCovered'
  BY <1>7, <1>8 DEF CountFuture, GatherClasses, history
<1> QED BY <1>1, <1>4, <1>5, <1>6, <1>7, <1>8, EnrollmentSteps
        DEF EnrollmentStep, familyVars, history

LEMMA FamilyChildrenAlways == FamilySpec => [](ChildrenKnown /\ SeatsCovered)
<1>1. FamilyInit => ChildrenKnown /\ SeatsCovered
  BY DEF FamilyInit, Init, ChildrenKnown, SeatsCovered, Holding, Rechecking, Idle
<1>2. ASSUME ChildrenKnown, SeatsCovered, UNCHANGED allVars
      PROVE  (ChildrenKnown /\ SeatsCovered)'
  BY <1>2 DEF allVars, vars, familyVars, history, ChildrenKnown, SeatsCovered, Covered, Rechecking
<1>3. /\ FamilyTypeOK /\ WaitlistInv(Unnoticed)
      /\ ChildrenKnown /\ SeatsCovered
      /\ [FamilyNext]_allVars
      => (ChildrenKnown /\ SeatsCovered)'
  BY <1>2, ChildrenKnownStep, SeatsCoveredStep DEF WaitlistInv
<1> QED BY <1>1, <1>3, FamilyWaitlistAlways, PTL DEF FamilySpec

\* However families are deleted, and whatever requests are under way: a place held
\* for a child that is gone was made after, or was being checked in during, the
\* deletion of the parent, or the child was deleted alone.
THEOREM PlacesHaveChildren == FamilySpec => []SeatsHaveChildren
<1>1. SeatsCovered => SeatsHaveChildren
  BY DEF SeatsCovered, Covered, SeatsHaveChildren
<1> QED BY <1>1, FamilyChildrenAlways, PTL

-----------------------------------------------------------------------------
(* Upcoming registrations.                                                 *)

\* Whatever AdminParentDelete would erase of a class to come, it has not counted for
\* one of two reasons; a row being checked in is there, or its parent is not.
UpcomingCounted ==
    /\ \A q \in Reqs : visit[q].pc \in {"gather", "erase"} =>
          /\ visit[q].since <= nextReg
          /\ \A r \in RegsOf(visit[q].parent) :
                Upcoming(reg[r].class) => r >= visit[q].since \/ r \in stale
    /\ \A q \in Rechecking(req) : Exists(req[q].reg) \/ req[q].reg \in stale
    /\ \A q \in Reqs : ~At(q, "save") /\ ~At(q, "delete")

\* Without AdminUpdateClass, no class that has rows comes to be upcoming.
LEMMA UpcomingLasts ==
    ASSUME TypeOK, Next, \A q \in Reqs : ~At(q, "save"),
           NEW c \in Classes, class[c].row # "unused", Upcoming(c)'
    PROVE  Upcoming(c)
<1>1. ASSUME NEW q \in Reqs, Step(q)
      PROVE  Drop(q) \/ Save(q) \/ class' = class
  BY <1>1 DEF Step, CheckDuplicate, LoadDate, CheckSameDay, LoadClass, TurnedAway,
     CountConfirmed, Insert, Delete, CountRoster, Guard, Mark, Recompute, Notify
<1>2. ASSUME NEW q \in Reqs, Arrival(q)
      PROVE  class' = class
  BY <1>2 DEF Arrival, Submit, Confirm, Cancel, ReadForDelete, ReadForCheckin,
     ReadForUpdate, ReadForDrop
<1>3. CASE class' = class
  BY <1>3 DEF Upcoming, Live
<1>4. ASSUME NEW q \in Reqs, Drop(q)
      PROVE  Upcoming(c)
  BY <1>4 DEF Drop, TypeOK, ClassRow, Upcoming, Live
<1>5. ASSUME NEW e \in Classes, CreateClass(e)
      PROVE  Upcoming(c)
  BY <1>5 DEF CreateClass, SaveClass, TypeOK, Upcoming, Live
<1> QED BY <1>1, <1>2, <1>3, <1>4, <1>5 DEF Next, Crash, Save

LEMMA UpcomingCountedStep ==
    ASSUME "update" \notin Handlers, "delete" \notin Handlers,
           RowsInv, FamilyTypeOK, UpcomingCounted, FamilyNext
    PROVE  UpcomingCounted'
<1> DEFINE Counted(v) == v.pc \in {"gather", "erase"} =>
             /\ v.since <= nextReg
             /\ \A r \in RegsOf(v.parent) :
                   Upcoming(reg[r].class) => r >= v.since \/ r \in stale
<1>0. /\ TypeInv /\ TypeOK /\ RowsInserted /\ Memory
      /\ nextReg \in Int /\ Regs \subseteq Int
      /\ \A q \in Rechecking(req) : req[q].reg \in Regs /\ reg[req[q].reg].status # "none"
  BY BoundsAssumption DEF RowsInv, TypeInv, TypeOK, Memory, Knows, Rechecking, Settled, Regs
<1>0a. \A q \in Reqs : visit[q] \in Visit /\ visit[q].since \in Int
  BY BoundsAssumption DEF FamilyTypeOK, Visit
<1>1. ASSUME Next, UNCHANGED familyVars
      PROVE  UpcomingCounted'
  <2>0. visit' = visit /\ stale' = stale
    BY <1>1 DEF familyVars, history
  <2>1. nextReg' \in Int /\ nextReg' >= nextReg
    BY <1>1, IdsGrow, TypeInvStep, <1>0, BoundsAssumption DEF TypeInv, TypeOK
  <2>2. ASSUME NEW q \in Reqs, visit[q].pc \in {"gather", "erase"},
               NEW r \in RegsOf(visit[q].parent)', Upcoming(reg[r].class)'
        PROVE  r >= visit[q].since \/ r \in stale
    <3>0. r \in Regs /\ Exists(r)' /\ Owner[reg'[r].child] = visit[q].parent
      BY <2>0 DEF RegsOf
    <3>1. CASE reg[r].status = "none"
      BY <1>0, <1>0a, <1>1, <2>2, <3>0, <3>1, RowsMove DEF Exists, UpcomingCounted
    <3>2. ASSUME NEW o \in Reqs, At(o, "mark"), req[o].reg = r, ~Exists(r)
          PROVE  r \in stale
      BY <3>2 DEF UpcomingCounted, At, Rechecking
    <3>3. CASE Exists(r)
      <4>1. reg'[r].child = reg[r].child /\ reg'[r].class = reg[r].class
        BY <1>1, <3>0, <3>3, RowsMove, SettledLasts DEF Exists
      <4>2. reg[r].class \in Classes /\ class[reg[r].class].row # "unused"
        BY <1>0, <3>0, <3>3 DEF RowsInserted, Exists
      <4>3. Upcoming(reg[r].class)
        <5>1. PICK c : c = reg[r].class
          OBVIOUS
        <5>2. Upcoming(c)'
          BY <2>2, <4>1, <5>1 DEF Upcoming, Live
        <5> QED BY <1>0, <1>1, <4>2, <5>1, <5>2, UpcomingLasts DEF UpcomingCounted
      <4>4. r \in RegsOf(visit[q].parent)
        BY <3>0, <3>3, <4>1 DEF RegsOf
      <4> QED BY <2>2, <4>3, <4>4 DEF UpcomingCounted
    <3> QED BY <1>1, <3>0, <3>1, <3>2, <3>3, RowsMove
  <2>3. ASSUME NEW q \in Reqs, visit[q].pc \in {"gather", "erase"}
        PROVE  visit[q].since <= nextReg'
    BY <1>0, <1>0a, <2>1, <2>3 DEF UpcomingCounted
  <2>4. ASSUME NEW q \in Rechecking(req')
        PROVE  (Exists(req[q].reg) \/ req[q].reg \in stale)'
    <3>1. q \in Reqs
      BY DEF Rechecking
    <3>2. PICK r : r = req'[q].reg
      OBVIOUS
    <3>3. \/ q \in Rechecking(req) /\ r = req[q].reg
          \/ reg[r].status = "confirmed" /\ r \in Regs
      BY <1>1, <2>4, <3>1, <3>2, RequestsMove
    <3>4. r \in Regs /\ (Exists(r) \/ r \in stale)
      BY <1>0, <3>3 DEF UpcomingCounted, Exists
    <3>5. Exists(r) => Exists(r)'
      BY <1>1, <3>4, RowsMove DEF UpcomingCounted
    <3> QED BY <2>0, <3>2, <3>4, <3>5 DEF Exists
  <2>5. ASSUME NEW q \in Reqs
        PROVE  (~At(q, "save") /\ ~At(q, "delete"))'
    <3>1. ASSUME NEW p \in Reqs, NEW s, Follows(p, s)
          PROVE  (~At(q, "save") /\ ~At(q, "delete"))'
      <4>1. s.pc \notin {"save", "delete"}
        BY <3>1 DEF Follows, ReadForUpdate, ReadForDelete, Free
      <4>2. req'[q] = s \/ req'[q] = req[q]
        BY <1>0, <3>1 DEF Follows, Become, TypeOK
      <4> QED BY <4>1, <4>2 DEF At, UpcomingCounted
    <3>2. CASE req' = req
      BY <3>2 DEF At, UpcomingCounted
    <3>3. CASE Crash
      BY <3>3 DEF Crash, Idle, At
    <3> QED BY <1>0, <1>1, <3>1, <3>2, <3>3, StepFollows, ArrivalFollows DEF Next, CreateClass
  <2> QED BY <2>0, <2>2, <2>3, <2>4, <2>5 DEF UpcomingCounted
<1>2. ASSUME NEW q \in Reqs, NEW s, Become(q, s), s.pc \in {"idle", "recompute"},
             UNCHANGED <<class, reg, nextReg, stale>>,
             \A p \in Reqs : visit'[p] = visit[p] \/ visit'[p].pc \in {"none", "rebalance"}
      PROVE  UpcomingCounted'
  <2>1. ASSUME NEW p \in Reqs
        PROVE  Counted(visit[p])'
    BY <1>2 DEF UpcomingCounted, RegsOf, Exists, Upcoming, Live
  <2>2. \A p \in Reqs : req'[p] = req[p] \/ req'[p].pc \in {"idle", "recompute"}
    BY <1>0, <1>2 DEF Become, TypeOK
  <2> QED BY <1>2, <2>1, <2>2 DEF UpcomingCounted, Rechecking, Exists, At
<1>3. ASSUME NEW q \in Reqs, ChildNotFound(q)
      PROVE  UpcomingCounted'
  BY <1>2, <1>3 DEF ChildNotFound, Idle, familyVars, history
<1>4. ASSUME NEW q \in Reqs, NextClass(q)
      PROVE  UpcomingCounted'
  <2>1. \A p \in Reqs : visit'[p] = visit[p] \/ visit'[p].pc \in {"none", "rebalance"}
    BY <1>0a, <1>4 DEF NextClass, Proceed, Visiting, FamilyTypeOK, Visit, NoVisit
  <2> QED BY <1>2, <1>4, <2>1 DEF NextClass, Idle, RecomputeOwed, history
<1>5. ASSUME NEW q \in Reqs, EraseFamily(q)
      PROVE  UpcomingCounted'
  <2> DEFINE R == RegsOf(visit[q].parent)
  <2>1. /\ UNCHANGED <<class, nextReg, req>>
        /\ reg' = [r \in Regs |-> IF r \in R THEN [reg[r] EXCEPT !.status = "deleted"] ELSE reg[r]]
        /\ stale' = stale \cup {req[o].reg : o \in Rechecking(req)}
    BY <1>5 DEF EraseFamily, Rechecking, At
  <2>2. \A r \in R : r \in Regs
    BY DEF RegsOf
  <2>3. \A r \in Regs : Exists(r)' => reg'[r] = reg[r] /\ Exists(r)
    BY <1>0, <2>1 DEF TypeOK, RegRow, Exists
  <2> HIDE DEF R
  <2>4. \A p : RegsOf(p)' \subseteq RegsOf(p)
    BY <2>3 DEF RegsOf
  <2>5. \A p \in Reqs : visit'[p] = visit[p] \/ visit'[p].pc \in {"none", "rebalance"}
    BY <1>0a, <1>5 DEF EraseFamily, Proceed, FamilyTypeOK, Visit, NoVisit
  <2>6. ASSUME NEW p \in Reqs
        PROVE  Counted(visit[p])'
    BY <2>1, <2>3, <2>4, <2>5 DEF UpcomingCounted, RegsOf, Upcoming, Live
  <2>7. \A o \in Rechecking(req) : req[o].reg \in stale'
    BY <2>1
  <2> QED BY <2>1, <2>6, <2>7 DEF UpcomingCounted, Rechecking, At
<1>6. ASSUME NEW q \in Reqs, UNCHANGED vars, stale' = stale,
             \A p \in Reqs \ {q} : visit'[p] = visit[p], Counted(visit'[q])
      PROVE  UpcomingCounted'
  BY <1>6 DEF vars, UpcomingCounted, RegsOf, Exists, Upcoming, Live, Rechecking, At
<1>7. ASSUME NEW q \in Reqs, NEW p \in Parents, CountFuture(q, p)
      PROVE  UpcomingCounted'
  <2>1. /\ visit'[q] = [NoVisit EXCEPT !.pc = "gather", !.parent = p, !.since = nextReg]
        /\ \A o \in Reqs \ {q} : visit'[o] = visit[o]
    BY <1>7 DEF CountFuture, Proceed, FamilyTypeOK
  <2>2. visit'[q].since = nextReg /\ visit'[q].parent = p
    BY <2>1 DEF NoVisit
  <2>3. Counted(visit'[q])
    BY <1>0, <1>7, <2>2 DEF CountFuture, ClassesOf
  <2> QED BY <1>6, <1>7, <2>1, <2>3 DEF CountFuture, history
<1>8. ASSUME NEW q \in Reqs, GatherClasses(q)
      PROVE  UpcomingCounted'
  <2>1. /\ visit'[q].since = visit[q].since /\ visit'[q].parent = visit[q].parent
        /\ visit[q].pc = "gather"
        /\ \A o \in Reqs \ {q} : visit'[o] = visit[o]
    BY <1>0a, <1>8 DEF GatherClasses, Proceed, Visiting, FamilyTypeOK, Visit
  <2>2. Counted(visit'[q])
    BY <2>1 DEF UpcomingCounted
  <2> QED BY <1>6, <1>8, <2>1, <2>2 DEF GatherClasses, history
<1>9. ASSUME NEW q \in Reqs, NEW k \in Children, DropChild(q, k)
      PROVE  UpcomingCounted'
  BY <1>6, <1>9 DEF DropChild, UpcomingCounted
<1>10. CASE UNCHANGED vars /\ UNCHANGED familyVars
  BY <1>10 DEF vars, familyVars, history, UpcomingCounted, RegsOf, Exists, Upcoming, Live,
     Rechecking, At
<1> QED BY <1>1, <1>3, <1>4, <1>5, <1>7, <1>8, <1>9, <1>10, EnrollmentSteps
        DEF EnrollmentStep

\* While no class is moved and no registration is deleted on its own,
\* AdminParentDelete erases no registration of a class to come but those made since
\* it counted, and those that were being checked in while the parent was deleted
\* before.
THEOREM UpcomingStayKept ==
    ASSUME "update" \notin Handlers, "delete" \notin Handlers
    PROVE  FamilySpec => UpcomingAreKept
<1> DEFINE A == \A q \in Reqs : Visiting(q, "erase") /\ ~(Visiting(q, "erase"))' =>
                   \A r \in RegsOf(visit[q].parent) :
                       Upcoming(reg[r].class) => r >= visit[q].since \/ r \in stale
<1>1. FamilyInit => UpcomingCounted
  BY DEF FamilyInit, Init, UpcomingCounted, NoVisit, Rechecking, Idle, At
<1>2. ASSUME UpcomingCounted, UNCHANGED allVars
      PROVE  UpcomingCounted'
  BY <1>2 DEF allVars, vars, familyVars, history, UpcomingCounted, RegsOf, Exists, Upcoming,
     Live, Rechecking, At
<1>3. FamilyTypeOK /\ WaitlistInv(Unnoticed) /\ UpcomingCounted /\ [FamilyNext]_allVars
      => UpcomingCounted' /\ [A]_allVars
  <2>1. UpcomingCounted => A
    BY DEF UpcomingCounted, Visiting
  <2> QED BY <1>2, <2>1, UpcomingCountedStep DEF WaitlistInv
<1>4. UpcomingAreKept <=> [][A]_allVars
  BY DEF UpcomingAreKept
<1> HIDE DEF A
<1> QED BY <1>1, <1>3, <1>4, FamilyWaitlistAlways, PTL DEF FamilySpec

-----------------------------------------------------------------------------
(* What the pages show.                                                    *)

\* A class that is offered has a day; who is checked in is confirmed, and whoever
\* loses the place is no longer checked in.
RowsRead ==
    /\ \A c \in Classes : Live(c) => class[c].day \in Days
    /\ \A r \in Regs : reg[r].in => reg[r].status \in {"confirmed", "deleted"}

LEMMA RowsReadStep ==
    ASSUME RowsInv, RowsRead, FamilyNext
    PROVE  RowsRead'
<1>0. TypeInv /\ TypeOK /\ RowsInserted /\ Memory
  BY DEF RowsInv, TypeInv
<1>1. ASSUME Next, NEW c \in Classes, Live(c)'
      PROVE  class'[c].day \in Days
  <2>1. CASE class' = class
    BY <1>1, <2>1 DEF RowsRead, Live
  <2>2. ASSUME NEW e, NEW n, NEW d \in Days, NEW late, SaveClass(e, n, d, late)
        PROVE  class'[c].day \in Days
    BY <1>0, <1>1, <2>2 DEF SaveClass, RowsRead, TypeOK, Live
  <2>3. ASSUME NEW q \in Reqs, Drop(q)
        PROVE  class'[c].day \in Days
    BY <1>0, <1>1, <2>3 DEF Drop, RowsRead, TypeOK, ClassRow, Live
  <2> QED BY <1>1, <2>1, <2>2, <2>3, ClassSteps
<1>2. ASSUME Next, NEW r \in Regs, reg'[r].in
      PROVE  reg'[r].status \in {"confirmed", "deleted"}
  <2> DEFINE Fit(row) == row.in => row.status \in {"confirmed", "deleted"}
  <2>0. Fit(reg[r]) /\ reg[r] \in RegRow
    BY <1>0 DEF RowsRead, TypeOK
  <2>1. CASE reg' = reg
    BY <2>0, <2>1, <1>2
  <2>2. ASSUME NEW q \in Reqs, Insert(q) \/ Delete(q)
        PROVE  Fit(reg'[r])
    BY <1>0, <2>0, <2>2 DEF Insert, Delete, TypeOK, RegRow
  <2>3. ASSUME NEW q \in Reqs, Mark(q)
        PROVE  Fit(reg'[r])
    <3>1. req[q].seat = "confirmed"
      BY <1>0, <2>3 DEF Memory, Knows, Mark, At
    <3> QED BY <1>0, <2>0, <2>3, <3>1 DEF Mark, TypeOK, RegRow
  <2>4. ASSUME NEW q \in Reqs, NEW u \in [Regs -> RegRow], NEW c, Rebalance(q, u, c), Fit(u[r])
        PROVE  Fit(reg'[r])
    BY <2>4 DEF Rebalance, Promoted, RegRow
  <2>5. ASSUME NEW q \in Reqs, Rebalance(q, reg, req[q].class)
        PROVE  Fit(reg'[r])
    BY <1>0, <2>0, <2>4, <2>5 DEF TypeOK
  <2>6. ASSUME NEW q \in Reqs, NEW x \in Regs, Cancel(q, x)
        PROVE  Fit(reg'[r])
    <3>1. Canceled(x) \in [Regs -> RegRow] /\ Fit(Canceled(x)[r])
      BY <1>0, <2>0 DEF Canceled, TypeOK, RegRow
    <3> QED BY <2>4, <2>6, <3>1 DEF Cancel
  <2> QED BY <1>2, <2>1, <2>2, <2>3, <2>5, <2>6, RegistrationSteps
<1>3. CASE Next
  BY <1>1, <1>2, <1>3 DEF RowsRead
<1>4. CASE UNCHANGED <<class, reg>>
  BY <1>4 DEF RowsRead, Live
<1>5. ASSUME NEW q \in Reqs, EraseFamily(q)
      PROVE  RowsRead'
  <2>1. class' = class /\ \A r \in Regs : /\ reg'[r].in = reg[r].in
                                         /\ reg'[r].status \in {reg[r].status, "deleted"}
    BY <1>0, <1>5 DEF EraseFamily, TypeOK, RegRow
  <2> QED BY <2>1 DEF RowsRead, Live
<1> QED BY <1>3, <1>4, <1>5, EnrollmentSteps DEF EnrollmentStep, ChildNotFound, NextClass, vars

LEMMA RowsReadAlways == FamilySpec => []RowsRead
<1>1. FamilyInit => RowsRead
  BY DEF FamilyInit, Init, RowsRead, Live
<1>2. ASSUME RowsRead, UNCHANGED allVars
      PROVE  RowsRead'
  BY <1>2 DEF allVars, vars, RowsRead, Live
<1>3. WaitlistInv(Unnoticed) /\ RowsRead /\ [FamilyNext]_allVars => RowsRead'
  BY <1>2, RowsReadStep DEF WaitlistInv
<1> QED BY <1>1, <1>3, FamilyWaitlistAlways, PTL DEF FamilySpec

\* The attendance page counts the classes in which the roster shows the child as
\* checked in, whatever is canceled, promoted, checked in and deleted meanwhile.
THEOREM AttendanceShowsRoster == FamilySpec => []AttendanceIsRoster
<1>1. RowsRead => AttendanceIsRoster
  <2> SUFFICES ASSUME RowsRead, NEW k \in Children, NEW d \in Days, NEW e \in Days
               PROVE  AttendedClasses(k, d, e) =
                        {c \in Classes : \E r \in RosterRows(c, d, e, "checked-in") : reg[r].child = k}
    BY DEF AttendanceIsRoster
  <2>1. \A r \in Joined : r \in Regs /\ reg[r].class \in Classes
    BY DEF Joined, Live
  <2>2. \A r \in Joined : reg[r].in => reg[r].status = "confirmed"
    BY DEF Joined, Exists, RowsRead
  <2>3. \A r : PassesFilter(r, "checked-in") <=> reg[r].status = "confirmed" /\ reg[r].in
    BY DEF PassesFilter
  <2> QED BY <2>1, <2>2, <2>3 DEF AttendedClasses, RosterRows
<1> QED BY <1>1, RowsReadAlways, PTL

\* The sizes of parts that do not overlap add up.
LEMMA Parts ==
    ASSUME NEW A \in SUBSET Regs, NEW B \in SUBSET Regs, A \cap B = {}
    PROVE  /\ Cardinality(A) \in Nat /\ Cardinality(B) \in Nat
           /\ Cardinality(A \cup B) = Cardinality(A) + Cardinality(B)
<1>1. IsFiniteSet(A) /\ IsFiniteSet(B)
  BY RegsFinite, FS_Subset
<1>2. Cardinality(A) \in Nat /\ Cardinality(B) \in Nat
  BY <1>1, FS_CardinalityType
<1>3. Cardinality(A \cup B) = Cardinality(A) + Cardinality(B) - Cardinality(A \cap B)
  BY <1>1, FS_Union
<1> QED BY <1>2, <1>3, FS_EmptySet

\* The capacity page, the choice of classes, the roster, the list of classes, the
\* parents' list and the station agree in every state.
THEOREM PagesAlwaysAgree == FamilySpec => []PagesAgree
<1>1. ASSUME TypeOK, RowsRead, NEW c \in Classes, Live(c)
      PROVE  LET d == WindowOf(c)
                 rows(f) == Cardinality(RosterRows(c, d, d, f))
                 shown == rows("confirmed") + rows("checked-in") + rows("waitlisted")
                 row == CapacityRow(c)
             IN  /\ row.available = ClassOption(c).left
                 /\ row.confirmed + row.checkedIn + row.waitlisted = RegCount(c)
                 /\ RegCount(c) = shown + Cardinality(Unlisted(c))
                 /\ \A r \in Joined : reg[r].class = c /\ d >= Today =>
                        r \in MyList(Owner[reg[r].child])
                 /\ {r \in Station : reg[r].class = c} =
                        UNION {RosterRows(c, Today, Today, f) : f \in {"confirmed", "checked-in"}}
  <2> DEFINE d == WindowOf(c)
             Of(f) == {r \in Regs : reg[r].class = c /\ PassesFilter(r, f)}
             Row(f) == RosterRows(c, d, d, f)
             Counted == {r \in Regs : Exists(r) /\ reg[r].class = c /\ reg[r].status # "canceled"}
  <2>1. /\ \A r : PassesFilter(r, "checked-in") <=> reg[r].status = "confirmed" /\ reg[r].in
        /\ \A r : PassesFilter(r, "confirmed") <=> reg[r].status = "confirmed" /\ ~reg[r].in
        /\ \A r : PassesFilter(r, "waitlisted") <=> reg[r].status = "waitlisted"
    BY DEF PassesFilter
  <2>2. d \in Int /\ InWindow(c, d, d)
    <3>1. class[c].day \in Int /\ class[c].late \in BOOLEAN
      BY <1>1, DaysAssumption DEF RowsRead, TypeOK, ClassRow
    <3>2. d \in Int
      BY <3>1 DEF WindowOf
    <3> QED BY <3>2 DEF InWindow
  <2>3. /\ Of("confirmed") \in SUBSET Regs /\ Of("checked-in") \in SUBSET Regs
        /\ Of("confirmed") \cap Of("checked-in") = {}
        /\ Of("confirmed") \cup Of("checked-in") = Taken(reg, c)
    BY <2>1 DEF Taken
  <2>4. /\ Taken(reg, c) \in SUBSET Regs /\ Waiting(reg, c) \in SUBSET Regs
        /\ Taken(reg, c) \cap Waiting(reg, c) = {}
        /\ Taken(reg, c) \cup Waiting(reg, c) = Counted
    BY <1>1 DEF Taken, Waiting, Exists, TypeOK, RegRow
  <2>5. /\ Row("confirmed") \in SUBSET Regs /\ Row("checked-in") \in SUBSET Regs
        /\ Row("waitlisted") \in SUBSET Regs /\ Unlisted(c) \in SUBSET Regs
        /\ Row("confirmed") \cap Row("checked-in") = {}
        /\ (Row("confirmed") \cup Row("checked-in")) \cap Row("waitlisted") = {}
        /\ (Row("confirmed") \cup Row("checked-in") \cup Row("waitlisted")) \cap Unlisted(c) = {}
    BY <2>1 DEF RosterRows, Unlisted, Joined
  <2>6. Row("confirmed") \cup Row("checked-in") \cup Row("waitlisted") \cup Unlisted(c) = Counted
    BY <1>1, <2>1, <2>2 DEF RosterRows, Unlisted, Joined, Exists, Holding, TypeOK, RegRow
  <2>7. /\ CapacityRow(c).confirmed = Cardinality(Of("confirmed"))
        /\ CapacityRow(c).checkedIn = Cardinality(Of("checked-in"))
        /\ CapacityRow(c).waitlisted = Cardinality(Waiting(reg, c))
        /\ CapacityRow(c).available = AtLeastZero(class[c].cap -
               (Cardinality(Of("confirmed")) + Cardinality(Of("checked-in"))))
    BY DEF CapacityRow
  <2>8. ClassOption(c).left = AtLeastZero(class[c].cap - Cardinality(Taken(reg, c)))
    BY DEF ClassOption
  <2>9. RegCount(c) = Cardinality(Counted)
    BY DEF RegCount
  <2>10. \A r \in Joined : reg[r].class = c /\ d >= Today => r \in MyList(Owner[reg[r].child])
    BY DEF MyList
  <2>11. {r \in Station : reg[r].class = c} =
            RosterRows(c, Today, Today, "confirmed") \cup RosterRows(c, Today, Today, "checked-in")
    BY <2>1 DEF Station, RosterRows
  <2> DEFINE a == Of("confirmed")
             b == Of("checked-in")
             w == Waiting(reg, c)
             x == Row("confirmed")
             y == Row("checked-in")
             z == Row("waitlisted")
             v == Unlisted(c)
  <2> HIDE DEF a, b, w, x, y, z, v, Counted, d
  <2>12. /\ Cardinality(a) \in Nat /\ Cardinality(b) \in Nat /\ Cardinality(w) \in Nat
         /\ Cardinality(Taken(reg, c)) = Cardinality(a) + Cardinality(b)
         /\ Cardinality(Counted) = Cardinality(a) + Cardinality(b) + Cardinality(w)
    <3>1. /\ Cardinality(a) \in Nat /\ Cardinality(b) \in Nat
          /\ Cardinality(a \cup b) = Cardinality(a) + Cardinality(b)
      BY <2>3, Parts DEF a, b
    <3>2. /\ Cardinality(w) \in Nat
          /\ Cardinality(Taken(reg, c) \cup w) = Cardinality(Taken(reg, c)) + Cardinality(w)
      BY <2>4, Parts DEF w
    <3> QED BY <2>3, <2>4, <3>1, <3>2 DEF a, b, w
  <2>13. Cardinality(Counted) = Cardinality(x) + Cardinality(y) + Cardinality(z) + Cardinality(v)
    <3>1. /\ Cardinality(x) \in Nat /\ Cardinality(y) \in Nat
          /\ Cardinality(x \cup y) = Cardinality(x) + Cardinality(y)
      BY <2>5, Parts DEF x, y
    <3>2. Cardinality((x \cup y) \cup z) = Cardinality(x \cup y) + Cardinality(z)
      BY <2>5, Parts DEF x, y, z
    <3>3. Cardinality((x \cup y \cup z) \cup v) = Cardinality(x \cup y \cup z) + Cardinality(v)
      BY <2>5, Parts DEF x, y, z, v
    <3>4. x \cup y \cup z \cup v = Counted
      BY <2>6 DEF x, y, z, v
    <3> QED BY <3>1, <3>2, <3>3, <3>4
  <2>14. CapacityRow(c).available = ClassOption(c).left
    BY <2>7, <2>8, <2>12 DEF a, b
  <2>15. CapacityRow(c).confirmed + CapacityRow(c).checkedIn + CapacityRow(c).waitlisted = RegCount(c)
    BY <2>7, <2>9, <2>12 DEF a, b, w
  <2>16. RegCount(c) = Cardinality(x) + Cardinality(y) + Cardinality(z) + Cardinality(v)
    BY <2>9, <2>13
  <2> QED BY <2>10, <2>11, <2>14, <2>15, <2>16 DEF x, y, z, v, d
<1>2. TypeOK /\ RowsRead => PagesAgree
  BY <1>1 DEF PagesAgree
<1>3. WaitlistInv(Unnoticed) => TypeOK
  BY DEF WaitlistInv, RowsInv, TypeInv
<1> QED BY <1>2, <1>3, RowsReadAlways, FamilyWaitlistAlways, PTL

-----------------------------------------------------------------------------
(* The rank on the pages.                                                  *)

\* The three pages count the waiting rows that are not younger.
LEMMA Ranks ==
    ASSUME TypeOK, NEW c \in Classes, NEW r \in Waiting(reg, c)
    PROVE  LET n == Cardinality(UpTo(Waiting(reg, c), r))
           IN  RankOnRoster(r) = n /\ RankOnDone(r) = n /\ RankOnQR(r) = n
<1> DEFINE D == Waiting(reg, c)
           queue == OldestFirst(D)
           n == Cardinality(UpTo(D, r))
<1>1. /\ D \in SUBSET Regs /\ IsFiniteSet(D) /\ D \subseteq Int
      /\ reg[r].class = c /\ r \in D
  BY RegsFinite DEF Waiting, Regs
<1>2. \A s \in D : s \in Int
  BY <1>1
<1> HIDE DEF D
<1>3. RankOnQR(r) = n
  BY <1>1 DEF RankOnQR, UpTo, D
<1>4. {s \in D : s < r \/ s = r} = {s \in D : s <= r}
  <2>1. ASSUME NEW s \in D
        PROVE  (s < r \/ s = r) <=> s <= r
    BY <1>1, <1>2
  <2> QED BY <2>1
<1>5. RankOnDone(r) = n
  BY <1>1, <1>4 DEF RankOnDone, UpTo, D
<1>6. Ordered(queue, D)
  BY <1>1, OldestFirstOrdered
<1> HIDE DEF queue
<1>7. /\ \E i \in 1..Cardinality(D) : queue[i] = r
      /\ \A i \in 1..Cardinality(D) : i = Cardinality(UpTo(D, queue[i]))
  <2>1. PICK R : R = D
    OBVIOUS
  <2>2. PICK q : q = queue
    OBVIOUS
  <2>3. IsFiniteSet(R) /\ R \subseteq Int /\ Ordered(q, R)
    BY <1>1, <1>6, <2>1, <2>2
  <2>4. /\ \A x \in R : \E i \in 1..Cardinality(R) : q[i] = x
        /\ \A i \in 1..Cardinality(R) : i = Cardinality(UpTo(R, q[i]))
    BY <2>3, InPlace
  <2> QED BY <1>1, <2>1, <2>2, <2>4
<1>8. DOMAIN queue = 1..Cardinality(D)
  BY <1>6 DEF Ordered
<1>9. (CHOOSE i \in DOMAIN queue : queue[i] = r) = n
  BY <1>7, <1>8
<1> QED BY <1>1, <1>3, <1>5, <1>9 DEF RankOnRoster, queue, D

\* Whoever a statement of Enrollment promotes has the rank of its turn.
LEMMA RankedInTurn ==
    ASSUME RowsInv, [Next]_vars, NEW c \in Classes, NEW r \in Waiting(reg, c),
           reg'[r].status = "confirmed"
    PROVE  LET left == {s \in Waiting(reg, c) : reg'[s].status # "waitlisted"}
               n == Cardinality({s \in left : s <= r})
           IN  RankOnRoster(r) = n /\ RankOnDone(r) = n /\ RankOnQR(r) = n
<1> DEFINE left == {s \in Waiting(reg, c) : reg'[s].status # "waitlisted"}
<1>1. TypeOK /\ r \in Regs
  BY DEF RowsInv, TypeInv, Waiting
<1>2. Next
  BY DEF vars, Waiting
<1>3. \A s \in Waiting(reg', c) : r < s
  BY <1>2, NextInOrder DEF PromotesInOrder, Waiting
<1>4. ASSUME NEW s \in Waiting(reg, c), s <= r
      PROVE  reg'[s].status # "waitlisted"
  <2>1. s \in Regs /\ s \in Int /\ r \in Int
    BY <1>1 DEF Waiting, Regs
  <2>2. reg'[s].class = c
    BY <1>2, <2>1, RowsMove DEF Waiting
  <2>3. s \in Waiting(reg', c) => r < s
    BY <1>3
  <2> QED BY <1>4, <2>1, <2>2, <2>3 DEF Waiting
<1>5. {s \in left : s <= r} = UpTo(Waiting(reg, c), r)
  BY <1>4 DEF UpTo
<1> QED BY <1>1, <1>5, Ranks

\* The rank a waiting parent is shown, by any of the three pages, is the number of
\* those that leave the waitlist up to the parent's own child, in every step that
\* promotes it, whatever requests run and wherever the process crashes.
THEOREM RankPredicts == Spec => RankPredictsPromotion
<1> DEFINE A == \A c \in Classes :
                   LET left == {r \in Waiting(reg, c) : reg'[r].status # "waitlisted"}
                   IN  \A r \in left : reg'[r].status = "confirmed" =>
                          LET n == Cardinality({s \in left : s <= r})
                          IN  RankOnRoster(r) = n /\ RankOnDone(r) = n /\ RankOnQR(r) = n
<1>1. WaitlistInv({}) /\ [Next]_vars => [A]_vars
  BY RankedInTurn DEF WaitlistInv
<1>2. RankPredictsPromotion <=> [][A]_vars
  BY DEF RankPredictsPromotion
<1> HIDE DEF A
<1> QED BY <1>1, <1>2, WaitlistInvAlways, PTL DEF Spec

\* So it is when families are deleted meanwhile, whose rows leave the waitlist
\* without a promotion.
THEOREM RankPredictsForFamilies == FamilySpec => RankPredictsPromotion
<1> DEFINE A == \A c \in Classes :
                   LET left == {r \in Waiting(reg, c) : reg'[r].status # "waitlisted"}
                   IN  \A r \in left : reg'[r].status = "confirmed" =>
                          LET n == Cardinality({s \in left : s <= r})
                          IN  RankOnRoster(r) = n /\ RankOnDone(r) = n /\ RankOnQR(r) = n
<1>1. ASSUME RowsInv, NEW q \in Reqs, EraseFamily(q), NEW c \in Classes,
             NEW r \in Waiting(reg, c)
      PROVE  reg'[r].status # "confirmed"
  BY <1>1 DEF EraseFamily, Waiting, RowsInv, TypeInv, TypeOK, RegRow
<1>2. ASSUME UNCHANGED reg, NEW c \in Classes, NEW r \in Waiting(reg, c)
      PROVE  reg'[r].status # "confirmed"
  BY <1>2 DEF Waiting
<1>3. ASSUME [FamilyNext]_allVars
      PROVE  [Next]_vars \/ UNCHANGED reg \/ \E q \in Reqs : EraseFamily(q)
  BY <1>3, EnrollmentSteps DEF EnrollmentStep, ChildNotFound, NextClass, allVars, vars
<1>4. WaitlistInv(Unnoticed) /\ [FamilyNext]_allVars => [A]_vars
  BY <1>1, <1>2, <1>3, RankedInTurn DEF WaitlistInv
<1>5. RankPredictsPromotion <=> [][A]_vars
  BY DEF RankPredictsPromotion
<1> HIDE DEF A
<1> QED BY <1>4, <1>5, FamilyWaitlistAlways, PTL DEF FamilySpec
=============================================================================

--------------------------- MODULE EnrollmentProofs ---------------------------
(***************************************************************************)
(* Theorems about Enrollment for every set of classes, children, days and  *)
(* request goroutines, and every bound; the last one says that it          *)
(* implements Waitlist.                                                    *)
(***************************************************************************)
EXTENDS EnrollmentWaitlist, FiniteSetTheorems, SequenceTheorems, TLAPS

-----------------------------------------------------------------------------
(* What the states of a request look like.                                 *)

\* How many requests are registering somebody: the handlers that make a
\* registration are admitted only while an id is left for them (RoomForOne).
IdsReserved == nextReg + Cardinality(Registering) <= MaxRegs + 1

\* Between these statements a request is registering somebody, and only then.
RegisteringSteps == {"dup", "date", "day", "class", "count", "insert"}
Consistent(s) == s.op # "none" <=> s.pc \in RegisteringSteps
OpsConsistent == \A q \in Reqs : Consistent(req[q])

TypeInv == TypeOK /\ IdsReserved /\ OpsConsistent

\* Idle, the state that owes a recompute and the state that announces
\* promotions are well-formed states of a request.
LEMMA RequestStates ==
    /\ Idle \in ReqState /\ Consistent(Idle)
    /\ \A c \in Classes \cup {None} :
          RecomputeOwed(c) \in ReqState /\ Consistent(RecomputeOwed(c))
    /\ \A P \in SUBSET Regs : Announcing(P) \in ReqState /\ Consistent(Announcing(P))
<1>1. Idle \in ReqState
  BY BoundsAssumption DEF Idle, ReqState
<1>2. Consistent(Idle)
  BY DEF Idle, Consistent, RegisteringSteps
<1>3. \A c \in Classes \cup {None} : RecomputeOwed(c) \in ReqState
  BY <1>1 DEF RecomputeOwed, ReqState, Idle
<1>4. \A c : Consistent(RecomputeOwed(c))
  BY DEF RecomputeOwed, Idle, Consistent, RegisteringSteps
<1>5. \A P \in SUBSET Regs : Announcing(P) \in ReqState
  BY <1>1 DEF Announcing, ReqState, Idle
<1>6. \A P : Consistent(Announcing(P))
  BY <1>2 DEF Announcing, Idle, Consistent, RegisteringSteps
<1> QED BY <1>1, <1>2, <1>3, <1>4, <1>5, <1>6

\* A set of requests is finite and has a natural number of members.
LEMMA RegisteringFinite ==
    IsFiniteSet(Registering) /\ Cardinality(Registering) \in Nat
<1>1. Registering \subseteq Reqs
  BY DEF Registering
<1> QED BY <1>1, ReqsAssumption, FS_Subset, FS_CardinalityType

\* A step that admits no registration and uses no id keeps the ids reserved.
LEMMA NoIdTaken ==
    ASSUME TypeInv, nextReg' = nextReg, Registering' \subseteq Registering
    PROVE  IdsReserved'
<1>1. /\ Cardinality(Registering') <= Cardinality(Registering)
      /\ Cardinality(Registering') \in Nat
  BY RegisteringFinite, FS_Subset, FS_CardinalityType
<1> QED BY <1>1, RegisteringFinite, BoundsAssumption DEF TypeInv, TypeOK, IdsReserved

\* The table left by a promotion has the same shape, and the requests too.
LEMMA RebalanceType ==
    ASSUME TypeOK, NEW q \in Reqs, NEW t \in [Regs -> RegRow], NEW c,
           Rebalance(q, t, c)
    PROVE  /\ reg' \in [Regs -> RegRow]
           /\ req' \in [Reqs -> ReqState]
           /\ lost' \subseteq Classes
           /\ Registering' \subseteq Registering
           /\ OpsConsistent => OpsConsistent'
<1>1. PICK P \in Promotions(t, c) :
         /\ reg' = Promoted(t, P)
         /\ Become(q, Announcing(P))
         /\ lost' = lost \ {c}
  BY DEF Rebalance
<1>2. P \in SUBSET Regs
  BY <1>1 DEF Promotions, Waiting
<1>3. reg' \in [Regs -> RegRow]
  BY <1>1 DEF Promoted, RegRow
<1>4. req' \in [Reqs -> ReqState]
  BY <1>1, <1>2, RequestStates DEF Become, TypeOK
<1>5. Registering' \subseteq Registering
  BY <1>1 DEF Become, TypeOK, Registering, Announcing, Idle
<1>6. OpsConsistent => OpsConsistent'
  BY <1>1, <1>2, RequestStates DEF Become, TypeOK, OpsConsistent
<1> QED BY <1>1, <1>3, <1>4, <1>5, <1>6 DEF TypeOK

-----------------------------------------------------------------------------
(* Type correctness.                                                       *)

\* A request that moves on to a well-formed state without taking up a
\* registration, while the tables keep their types and no id is used.
LEMMA OrdinaryStep ==
    ASSUME TypeInv, NEW q \in Reqs, NEW s \in ReqState, Become(q, s),
           Consistent(s), s.op = "none" \/ req[q].op # "none",
           class' \in [Classes -> ClassRow], reg' \in [Regs -> RegRow],
           nextReg' = nextReg, told' \subseteq Regs, lost' \subseteq Classes,
           crashes' = crashes
    PROVE  TypeInv'
<1>1. TypeOK'
  BY DEF TypeInv, TypeOK, Become
<1>2. Registering' \subseteq Registering
  BY DEF TypeInv, TypeOK, Become, Registering
<1>3. OpsConsistent'
  BY DEF TypeInv, TypeOK, Become, OpsConsistent
<1> QED BY <1>1, <1>2, <1>3, NoIdTaken DEF TypeInv

\* Admitting one more registration: an id is left for it.
LEMMA AdmissionStep ==
    ASSUME TypeInv, NEW q \in Reqs, NEW s \in ReqState, Become(q, s),
           Consistent(s), RoomForOne, UNCHANGED <<class, reg, nextReg, told, lost, crashes>>
    PROVE  TypeInv'
<1>1. TypeOK'
  BY DEF TypeInv, TypeOK, Become
<1>2. Registering' \subseteq Registering \cup {q}
  BY DEF TypeInv, TypeOK, Become, Registering
<1>3. /\ Cardinality(Registering') <= Cardinality(Registering \cup {q})
      /\ Cardinality(Registering \cup {q}) <= Cardinality(Registering) + 1
      /\ Cardinality(Registering') \in Nat
      /\ Cardinality(Registering \cup {q}) \in Nat
  BY <1>2, RegisteringFinite, FS_AddElement, FS_Subset, FS_CardinalityType
<1>4. OpsConsistent'
  BY DEF TypeInv, TypeOK, Become, OpsConsistent
<1> QED BY <1>1, <1>3, <1>4, RegisteringFinite, BoundsAssumption
        DEF RoomForOne, TypeInv, TypeOK, IdsReserved

\* Insert uses one id and gives up one reservation.
LEMMA InsertType ==
    ASSUME TypeInv, NEW q \in Reqs, Insert(q)
    PROVE  TypeInv'
<1>0. req[q].op # "none"
  BY DEF Insert, At, TypeInv, OpsConsistent, Consistent, RegisteringSteps
<1>1. /\ Registering' = Registering \ {q}
      /\ q \in Registering
  BY <1>0 DEF Insert, Become, RecomputeOwed, Idle, Registering, TypeInv, TypeOK
<1>2. /\ Cardinality(Registering') = Cardinality(Registering) - 1
      /\ Cardinality(Registering') \in Nat
  BY <1>1, RegisteringFinite, FS_RemoveElement, FS_CardinalityType
<1>3. nextReg + 1 <= MaxRegs + 1
  BY <1>2, RegisteringFinite, BoundsAssumption DEF TypeInv, TypeOK, IdsReserved
<1>4. IdsReserved'
  BY <1>2, RegisteringFinite, BoundsAssumption DEF Insert, TypeInv, TypeOK, IdsReserved
<1>5. req[q] \in ReqState
  BY DEF TypeInv, TypeOK
<1>6. reg' \in [Regs -> RegRow]
  BY <1>5 DEF Insert, TypeInv, TypeOK, ReqState, RegRow
<1>7. req' \in [Reqs -> ReqState]
  BY <1>5, RequestStates DEF Insert, Become, TypeInv, TypeOK, ReqState
<1>8. OpsConsistent'
  BY <1>5, RequestStates DEF Insert, Become, TypeInv, TypeOK, ReqState, OpsConsistent
<1> QED BY <1>3, <1>4, <1>6, <1>7, <1>8, BoundsAssumption DEF Insert, TypeInv, TypeOK

\* Every step of a request keeps the type invariant.
LEMMA StepType ==
    ASSUME TypeInv, NEW q \in Reqs, Step(q)
    PROVE  TypeInv'
<1> USE DEF TypeInv
<1>0. /\ req[q] \in ReqState /\ Consistent(req[q])
      /\ \A c \in Classes : class[c] \in ClassRow
  BY DEF TypeOK, OpsConsistent
<1>0a. ASSUME NEW c \in Classes \cup {None}, NEW n \in CapacityInput, NEW d \in Days,
              NEW late \in BOOLEAN, SaveClass(c, n, d, late)
       PROVE  class' \in [Classes -> ClassRow]
  <2> DEFINE row == [row |-> "live", cap |-> n, day |-> d, late |-> late,
                     peak |-> IF n > class[c].peak THEN n ELSE class[c].peak]
  <2>1. c \in Classes => row \in ClassRow
    BY <1>0, BoundsAssumption DEF ClassRow, CapacityInput
  <2>2. class' = [class EXCEPT ![c] = row]
    BY <1>0a DEF SaveClass
  <2> QED BY <2>1, <2>2 DEF TypeOK
<1>1. CASE CheckDuplicate(q)
  <2> DEFINE s == [req[q] EXCEPT !.pc = "date"]
  <2>1. s \in ReqState
    BY <1>0 DEF ReqState
  <2>2. Consistent(s) /\ req[q].op # "none"
    BY <1>0, <1>1 DEF CheckDuplicate, At, ReqState, Consistent, RegisteringSteps
  <2> QED BY <1>1, <2>1, <2>2, RequestStates, OrdinaryStep DEF CheckDuplicate, TypeOK
<1>2. CASE LoadDate(q)
  <2> DEFINE s == [req[q] EXCEPT !.pc = "day", !.day = class[req[q].class].day]
  <2>1. Live(req[q].class) => req[q].class \in Classes
    BY DEF Live
  <2>2. Live(req[q].class) => s \in ReqState
    BY <1>0, <2>1 DEF ReqState, ClassRow
  <2>3. Consistent(s) /\ req[q].op # "none"
    BY <1>0, <1>2 DEF LoadDate, At, ReqState, Consistent, RegisteringSteps
  <2> QED BY <1>2, <2>2, <2>3, RequestStates, OrdinaryStep DEF LoadDate, TypeOK
<1>3. CASE CheckSameDay(q)
  <2> DEFINE s == [req[q] EXCEPT !.day = None,
                           !.pc = IF req[q].op = "submit" THEN "count" ELSE "class"]
  <2>1. s \in ReqState
    BY <1>0 DEF ReqState
  <2>2. Consistent(s) /\ req[q].op # "none"
    BY <1>0, <1>3 DEF CheckSameDay, At, ReqState, Consistent, RegisteringSteps
  <2> QED BY <1>3, <2>1, <2>2, RequestStates, OrdinaryStep DEF CheckSameDay, TypeOK
<1>4. CASE LoadClass(q)
  <2> DEFINE s == [req[q] EXCEPT !.pc = "count", !.cap = class[req[q].class].cap]
  <2>1. Live(req[q].class) => s \in ReqState
    BY <1>0 DEF ReqState, ClassRow, Live
  <2>2. Consistent(s) /\ req[q].op # "none"
    BY <1>0, <1>4 DEF LoadClass, At, ReqState, Consistent, RegisteringSteps
  <2> QED BY <1>4, <2>1, <2>2, RequestStates, OrdinaryStep DEF LoadClass, TypeOK
<1>5. CASE TurnedAway(q)
  BY <1>5, RequestStates, OrdinaryStep DEF TurnedAway, TypeOK, Idle
<1>6. CASE CountConfirmed(q)
  <2> DEFINE n == Cardinality(Taken(reg, req[q].class))
             seat == SeatFor(n, req[q].cap)
             s == [req[q] EXCEPT !.pc = "insert", !.cap = 0, !.seat = seat]
  <2>0. seat \in {"none", "confirmed", "waitlisted"} /\ 0 \in 0..MaxCap
    BY BoundsAssumption DEF SeatFor
  <2> HIDE DEF seat
  <2>1. s \in ReqState
    BY <1>0, <2>0, ZenonT(40) DEF ReqState
  <2>2. Consistent(s) /\ req[q].op # "none"
    BY <1>0, <1>6 DEF CountConfirmed, At, ReqState, Consistent, RegisteringSteps
  <2> QED BY <1>6, <2>1, <2>2, OrdinaryStep DEF CountConfirmed, TypeOK, seat
<1>7. CASE Insert(q)
  BY <1>7, InsertType
<1>8. CASE Delete(q)
  <2>1. /\ RecomputeOwed(req[q].class) \in ReqState
        /\ Consistent(RecomputeOwed(req[q].class))
        /\ RecomputeOwed(req[q].class).op = "none"
    <3>1. req[q].class \in Classes \cup {None}
      BY <1>0 DEF ReqState
    <3>2. RecomputeOwed(req[q].class).op = "none"
      BY DEF RecomputeOwed, Idle
    <3> QED BY <3>1, <3>2, RequestStates
  <2>2. reg' \in [Regs -> RegRow]
    BY <1>8 DEF Delete, TypeOK, RegRow
  <2> QED BY <1>8, <2>1, <2>2, OrdinaryStep DEF Delete, TypeOK
<1>9. CASE Save(q)
  <2>1. /\ RecomputeOwed(req[q].class) \in ReqState
        /\ Consistent(RecomputeOwed(req[q].class))
        /\ RecomputeOwed(req[q].class).op = "none"
    <3>1. req[q].class \in Classes \cup {None}
      BY <1>0 DEF ReqState
    <3>2. RecomputeOwed(req[q].class).op = "none"
      BY DEF RecomputeOwed, Idle
    <3> QED BY <3>1, <3>2, RequestStates
  <2>2. class' \in [Classes -> ClassRow]
    BY <1>0, <1>0a, <1>9, DaysAssumption DEF Save, ReqState
  <2> QED BY <1>9, <2>1, <2>2, OrdinaryStep DEF Save, TypeOK
<1>10. CASE CountRoster(q)
  <2> DEFINE s == [req[q] EXCEPT !.pc = "drop"]
  <2>1. s \in ReqState
    BY <1>0 DEF ReqState
  <2>2. Consistent(s) /\ s.op = "none"
    BY <1>0, <1>10 DEF CountRoster, At, ReqState, Consistent, RegisteringSteps
  <2> QED BY <1>10, <2>1, <2>2, RequestStates, OrdinaryStep DEF CountRoster, TypeOK, Idle
<1>11. CASE Drop(q)
  <2>1. class' \in [Classes -> ClassRow]
    BY <1>11 DEF Drop, TypeOK, ClassRow
  <2> QED BY <1>11, <2>1, RequestStates, OrdinaryStep DEF Drop, TypeOK, Idle
<1>12. CASE Guard(q)
  <2> DEFINE s == [req[q] EXCEPT !.pc = "mark", !.class = None]
  <2>1. s \in ReqState
    BY <1>0 DEF ReqState
  <2>2. Consistent(s) /\ s.op = "none"
    BY <1>0, <1>12 DEF Guard, At, ReqState, Consistent, RegisteringSteps
  <2> QED BY <1>12, <2>1, <2>2, RequestStates, OrdinaryStep DEF Guard, TypeOK, Idle
<1>13. CASE Mark(q)
  <2>0. req[q].seat \in {"none", "confirmed", "waitlisted"}
    BY <1>0 DEF ReqState
  <2>1. reg' \in [Regs -> RegRow]
    BY <1>13, <2>0, ZenonT(40) DEF Mark, TypeOK, RegRow
  <2> QED BY <1>13, <2>1, RequestStates, OrdinaryStep DEF Mark, TypeOK, Idle
<1>14. CASE Recompute(q)
  <2>1. CASE Rebalance(q, reg, req[q].class)
    BY <1>14, <2>1, RebalanceType, NoIdTaken DEF Recompute, TypeOK
  <2>2. CASE Become(q, Idle) /\ UNCHANGED <<reg, lost>>
    BY <1>14, <2>2, RequestStates, OrdinaryStep DEF Recompute, TypeOK, Idle
  <2> QED BY <1>14, <2>1, <2>2 DEF Recompute
<1>15. CASE Notify(q)
  <2>1. PICK r \in req[q].promoted :
            told' = told \cup {r} /\ Become(q, Announcing(req[q].promoted \ {r}))
    BY <1>15 DEF Notify
  <2> DEFINE s == Announcing(req[q].promoted \ {r})
  <2>2. s \in ReqState /\ Consistent(s) /\ r \in Regs
    BY <1>0, <2>1, RequestStates DEF ReqState
  <2>3. s.op = "none"
    BY DEF Announcing, Idle
  <2> HIDE DEF s
  <2> QED BY <1>15, <2>1, <2>2, <2>3, OrdinaryStep DEF Notify, TypeOK, s
<1> QED
  BY <1>1, <1>2, <1>3, <1>4, <1>5, <1>6, <1>7, <1>8, <1>9, <1>10, <1>11, <1>12,
     <1>13, <1>14, <1>15 DEF Step

\* So does the first statement of every request.
LEMMA ArrivalType ==
    ASSUME TypeInv, NEW q \in Reqs, Arrival(q)
    PROVE  TypeInv'
<1> USE DEF TypeInv
<1>0. req[q] \in ReqState
  BY DEF TypeOK
<1>1. ASSUME NEW k \in Children, NEW c \in Classes, Submit(q, k, c)
      PROVE  TypeInv'
  <2> DEFINE s == [Idle EXCEPT !.op = "submit", !.pc = "dup", !.class = c,
                               !.child = k, !.cap = class[c].cap]
  <2>1. s \in ReqState
    BY RequestStates DEF ReqState, TypeOK, ClassRow
  <2>2. Consistent(s)
    BY DEF Idle, Consistent, RegisteringSteps
  <2> QED BY <1>1, <2>1, <2>2, AdmissionStep DEF Submit
<1>2. ASSUME NEW k \in Children, NEW c \in Classes, Confirm(q, k, c)
      PROVE  TypeInv'
  <2> DEFINE s == [Idle EXCEPT !.op = "confirm", !.pc = "dup", !.class = c, !.child = k]
  <2>1. s \in ReqState
    BY RequestStates DEF ReqState
  <2>2. Consistent(s)
    BY DEF Idle, Consistent, RegisteringSteps
  <2> QED BY <1>2, <2>1, <2>2, AdmissionStep DEF Confirm
<1>3. ASSUME NEW r \in Regs, Cancel(q, r)
      PROVE  TypeInv'
  <2>1. Canceled(r) \in [Regs -> RegRow]
    BY ZenonT(40) DEF Canceled, TypeOK, RegRow
  <2> QED BY <1>3, <2>1, RebalanceType, NoIdTaken DEF Cancel, TypeOK
<1>4. ASSUME NEW r \in Regs, ReadForDelete(q, r)
      PROVE  TypeInv'
  <2> DEFINE s == [Idle EXCEPT !.pc = "delete", !.reg = r, !.class = reg[r].class]
  <2>0. r \in 0..MaxRegs /\ reg[r].class \in Classes \cup {None}
    BY BoundsAssumption DEF TypeOK, RegRow, Regs
  <2>1. s \in ReqState
    BY <2>0, RequestStates DEF ReqState
  <2>2. Consistent(s) /\ s.op = "none"
    BY DEF Idle, Consistent, RegisteringSteps
  <2> QED BY <1>4, <2>1, <2>2, OrdinaryStep DEF ReadForDelete, TypeOK
<1>5. ASSUME NEW r \in Regs, ReadForCheckin(q, r)
      PROVE  TypeInv'
  <2> DEFINE s == [Idle EXCEPT !.pc = "guard", !.reg = r, !.seat = reg[r].status,
                               !.class = reg[r].class]
  <2>0. /\ r \in 0..MaxRegs /\ reg[r].class \in Classes \cup {None}
        /\ reg[r].status \in {"none", "confirmed", "waitlisted"}
    BY <1>5, BoundsAssumption DEF TypeOK, RegRow, Regs, ReadForCheckin, Eligible
  <2>1. s \in ReqState
    BY <2>0, RequestStates DEF ReqState
  <2>2. Consistent(s) /\ s.op = "none"
    BY DEF Idle, Consistent, RegisteringSteps
  <2> QED BY <1>5, <2>1, <2>2, OrdinaryStep DEF ReadForCheckin, TypeOK
<1>6. ASSUME NEW c \in Classes, ReadForUpdate(q, c) \/ ReadForDrop(q, c)
      PROVE  TypeInv'
  <2>1. \A pc \in {"save", "roster"} :
          LET s == [Idle EXCEPT !.pc = pc, !.class = c] IN
          s \in ReqState /\ Consistent(s) /\ s.op = "none"
    BY RequestStates, ZenonT(40) DEF ReqState, Idle, Consistent, RegisteringSteps
  <2> QED BY <1>6, <2>1, OrdinaryStep DEF ReadForUpdate, ReadForDrop, TypeOK
<1> QED BY <1>1, <1>2, <1>3, <1>4, <1>5, <1>6 DEF Arrival

\* A class created, and a crash.
LEMMA OtherType ==
    ASSUME TypeInv, (\E c \in Classes : CreateClass(c)) \/ Crash
    PROVE  TypeInv'
<1> USE DEF TypeInv
<1>1. ASSUME NEW c \in Classes, CreateClass(c)
      PROVE  TypeInv'
  <2>1. PICK n \in CapacityInput, d \in Days : SaveClass(c, n, d, FALSE)
    BY <1>1 DEF CreateClass
  <2> DEFINE row == [row |-> "live", cap |-> n, day |-> d, late |-> FALSE,
                     peak |-> IF n > class[c].peak THEN n ELSE class[c].peak]
  <2>2. row \in ClassRow
    BY BoundsAssumption DEF ClassRow, CapacityInput, TypeOK
  <2>3. class' = [class EXCEPT ![c] = row]
    BY <2>1 DEF SaveClass
  <2> HIDE DEF row
  <2>4. class' \in [Classes -> ClassRow]
    BY <2>2, <2>3 DEF TypeOK
  <2>5. Registering' \subseteq Registering
    BY <1>1 DEF CreateClass, Registering
  <2> QED BY <1>1, <2>4, <2>5, NoIdTaken
          DEF CreateClass, TypeOK, OpsConsistent
<1>2. CASE Crash
  <2>1. TypeOK'
    BY <1>2, RequestStates, BoundsAssumption DEF Crash, TypeOK
  <2>2. Registering' \subseteq Registering
    BY <1>2 DEF Crash, Registering, Idle
  <2>3. OpsConsistent'
    BY <1>2, RequestStates DEF Crash, OpsConsistent
  <2>4. nextReg' = nextReg
    BY <1>2 DEF Crash
  <2> QED BY <2>1, <2>2, <2>3, <2>4, NoIdTaken
<1> QED BY <1>1, <1>2

\* The type invariant is inductive.
LEMMA TypeInvStep == TypeInv /\ [Next]_vars => TypeInv'
<1> SUFFICES ASSUME TypeInv, [Next]_vars
             PROVE  TypeInv'
  OBVIOUS
<1>1. CASE UNCHANGED vars
  BY <1>1 DEF vars, TypeInv, TypeOK, IdsReserved, OpsConsistent, Registering
<1> QED BY <1>1, StepType, ArrivalType, OtherType DEF Next

LEMMA TypeInvInit == Init => TypeInv
<1> SUFFICES ASSUME Init
             PROVE  TypeInv
  OBVIOUS
<1>1. TypeOK
  BY RequestStates, BoundsAssumption DEF Init, TypeOK, ClassRow, RegRow
<1>2. OpsConsistent
  BY RequestStates DEF Init, OpsConsistent
<1>3. Registering = {}
  BY DEF Init, Registering, Idle
<1>4. IdsReserved
  BY <1>3, FS_EmptySet, BoundsAssumption DEF Init, IdsReserved
<1> QED BY <1>1, <1>2, <1>4 DEF TypeInv

\* Every state of every run is well formed, for any number of requests: the
\* tables, the locals a request carries from one statement to the next, and the
\* ids the inserts use.
THEOREM TypeCorrect == Spec => []TypeOK
<1>1. Spec => []TypeInv
  BY TypeInvInit, TypeInvStep, PTL DEF Spec
<1>2. TypeInv => TypeOK
  BY DEF TypeInv
<1> QED BY <1>1, <1>2, PTL

-----------------------------------------------------------------------------
(* The waitlist.                                                           *)

Settled == {"confirmed", "canceled", "deleted"}

\* A row that was inserted has an id below the counter and a class that exists
\* or existed.
RowsInserted ==
    \A r \in Regs : reg[r].status # "none" =>
        r < nextReg /\ reg[r].class \in Classes /\ class[reg[r].class].row # "unused"

\* What a request in state s remembers of the rows it has read is still true
\* of the tables ct (classes) and rt (registrations).
Knows(s, ct, rt) ==
    /\ s.pc \in {"day", "class", "count", "insert"} =>
          s.class \in Classes /\ ct[s.class].row # "unused"
    /\ s.pc = "delete" =>
          s.reg \in Regs /\ rt[s.reg].status # "none" /\ rt[s.reg].class = s.class
    /\ s.pc \in {"guard", "mark"} =>
          s.reg \in Regs /\ rt[s.reg].status \in Settled /\ s.seat = "confirmed"

Memory == \A q \in Reqs : Knows(req[q], class, reg)

RowsInv == TypeInv /\ RowsInserted /\ Memory

\* Nobody is stranded unnoticed, but in the classes of E: NoStrandedWaitlist, with
\* the exceptions that a specification which has more handlers may need.
Noticed(E) ==
    \A c \in Classes : Stranded(c) => Owing(c) # {} \/ c \in lost \/ c \in E

WaitlistInv(E) == RowsInv /\ Noticed(E)

\* What no step undoes: a class once created, a registration once inserted and
\* its class, a registration that has left the waitlist.
Lasting ==
    /\ \A c \in Classes : class[c].row # "unused" => class'[c].row # "unused"
    /\ \A r \in Regs : reg[r].status # "none" =>
          reg'[r].status # "none" /\ reg'[r].class = reg[r].class
    /\ \A r \in Regs : reg[r].status \in Settled => reg'[r].status \in Settled

\* What one request remembers outlives the steps of the others.
LEMMA KnowledgeLasts ==
    ASSUME TypeInv, Memory, Lasting, NEW q \in Reqs, NEW s, Become(q, s),
           Knows(s, class', reg')
    PROVE  Memory'
<1>1. req'[q] = s /\ \A p \in Reqs : p # q => req'[p] = req[p]
  BY DEF Become, TypeInv, TypeOK
<1>2. ASSUME NEW p \in Reqs
      PROVE  Knows(req[p], class', reg')
  <2>1. Knows(req[p], class, reg)
    BY DEF Memory
  <2> QED BY <2>1 DEF Knows, Lasting
<1> QED BY <1>1, <1>2 DEF Memory

\* Idle, owing and announcing requests have nothing to remember.
LEMMA NothingToKnow ==
    ASSUME NEW ct, NEW rt
    PROVE  /\ Knows(Idle, ct, rt)
           /\ \A c : Knows(RecomputeOwed(c), ct, rt)
           /\ \A P : Knows(Announcing(P), ct, rt)
  BY DEF Knows, Idle, RecomputeOwed, Announcing

LEMMA RegsFinite ==
    ASSUME NEW S \in SUBSET Regs
    PROVE  IsFiniteSet(S) /\ Cardinality(S) \in Nat
<1>1. IsFiniteSet(1..MaxRegs)
  BY FS_Interval, BoundsAssumption
<1>2. IsFiniteSet(S)
  BY <1>1, FS_Subset DEF Regs
<1> QED BY <1>2, FS_CardinalityType

\* A table change that gives no seat back and adds nobody to the waitlist does
\* not strand the class.
LEMMA SeatsKept ==
    ASSUME TypeInv, NEW c \in Classes, class'[c] = class[c],
           Taken(reg, c) \subseteq Taken(reg', c),
           Waiting(reg', c) \subseteq Waiting(reg, c),
           Stranded(c)'
    PROVE  Stranded(c)
<1>1. Cardinality(Taken(reg, c)) <= Cardinality(Taken(reg', c))
  BY RegsFinite, FS_Subset DEF Taken
<1>2. Cardinality(Taken(reg, c)) \in Nat /\ Cardinality(Taken(reg', c)) \in Nat
  BY RegsFinite DEF Taken
<1>3. class[c].cap \in Nat
  BY BoundsAssumption DEF TypeInv, TypeOK, ClassRow
<1> QED BY <1>1, <1>2, <1>3 DEF Stranded, Live

\* A recompute over the table t promotes a set of the waiting registrations
\* and changes nothing else.
LEMMA RebalanceEffect ==
    ASSUME TypeInv, NEW q \in Reqs, NEW t \in [Regs -> RegRow], NEW c \in Classes,
           Rebalance(q, t, c)
    PROVE  \E P \in Promotions(t, c) :
             /\ P \subseteq Waiting(t, c)
             /\ Become(q, Announcing(P))
             /\ lost' = lost \ {c}
             /\ \A r \in Regs : /\ reg'[r].class = t[r].class
                                /\ reg'[r].child = t[r].child
                                /\ reg'[r].status = IF r \in P THEN "confirmed"
                                                               ELSE t[r].status
             /\ Taken(reg', c) = Taken(t, c) \cup P
             /\ Waiting(reg', c) = Waiting(t, c) \ P
             /\ \A d \in Classes \ {c} : /\ Taken(reg', d) = Taken(t, d)
                                         /\ Waiting(reg', d) = Waiting(t, d)
<1>1. PICK P \in Promotions(t, c) :
         /\ reg' = Promoted(t, P)
         /\ Become(q, Announcing(P))
         /\ lost' = lost \ {c}
  BY DEF Rebalance
<1>2. P \subseteq Waiting(t, c)
  BY DEF Promotions
<1>3. \A r \in Regs : /\ reg'[r].class = t[r].class
                      /\ reg'[r].child = t[r].child
                      /\ reg'[r].status = IF r \in P THEN "confirmed" ELSE t[r].status
  BY <1>1 DEF Promoted, RegRow
<1>4. Taken(reg', c) = Taken(t, c) \cup P
  BY <1>2, <1>3 DEF Taken, Waiting
<1>5. Waiting(reg', c) = Waiting(t, c) \ P
  BY <1>2, <1>3 DEF Waiting
<1>6. ASSUME NEW d \in Classes \ {c}
      PROVE  Taken(reg', d) = Taken(t, d) /\ Waiting(reg', d) = Waiting(t, d)
  BY <1>2, <1>3 DEF Taken, Waiting
<1> QED BY <1>1, <1>2, <1>3, <1>4, <1>5, <1>6

\* How many seats a recompute fills: never beyond the capacity, and all of them
\* if anybody is left waiting.
LEMMA RebalanceFills ==
    ASSUME TypeInv, NEW t \in [Regs -> RegRow], NEW c \in Classes,
           NEW P \in Promotions(t, c)
    PROVE  /\ P # {} => Cardinality(Taken(t, c) \cup P) <= class[c].cap
           /\ Waiting(t, c) \ P # {} => Cardinality(Taken(t, c) \cup P) >= class[c].cap
<1> DEFINE n == Cardinality(Taken(t, c))
           k == Cardinality(P)
<1>1. /\ P \subseteq Waiting(t, c)
      /\ k <= Slots(t, c)
      /\ P # Waiting(t, c) => k = Slots(t, c)
  BY DEF Promotions
<1>2. /\ IsFiniteSet(Taken(t, c)) /\ n \in Nat
      /\ IsFiniteSet(P) /\ k \in Nat
  BY <1>1, RegsFinite DEF Taken, Waiting
<1>3. Taken(t, c) \cap P = {}
  BY <1>1 DEF Taken, Waiting
<1>3a. Cardinality(Taken(t, c) \cap P) = 0
  BY <1>3, FS_EmptySet
<1>3b. Cardinality(Taken(t, c) \cup P) = n + k - Cardinality(Taken(t, c) \cap P)
  BY <1>2, FS_Union
<1>4. Cardinality(Taken(t, c) \cup P) = n + k
  BY <1>2, <1>3a, <1>3b
<1>5. P # {} => k # 0
  BY <1>2, FS_EmptySet
<1>6. class[c].cap \in Nat
  BY BoundsAssumption DEF TypeInv, TypeOK, ClassRow
<1>7. Slots(t, c) = IF class[c].cap > n THEN class[c].cap - n ELSE 0
  BY DEF Slots
<1> HIDE DEF n, k
<1> QED BY <1>1, <1>2, <1>4, <1>5, <1>6, <1>7

\* The class a recompute has just gone over is not stranded.
LEMMA RebalanceServes ==
    ASSUME TypeInv, NEW q \in Reqs, NEW t \in [Regs -> RegRow], NEW c \in Classes,
           Rebalance(q, t, c), class' = class
    PROVE  ~Stranded(c)'
<1>1. PICK P \in Promotions(t, c) : /\ Taken(reg', c) = Taken(t, c) \cup P
                                    /\ Waiting(reg', c) = Waiting(t, c) \ P
  BY RebalanceEffect
<1>2. Waiting(reg', c) # {} => Cardinality(Taken(reg', c)) >= class[c].cap
  BY <1>1, RebalanceFills
<1>3. Cardinality(Taken(reg', c)) \in Nat /\ class[c].cap \in Nat
  BY RegsFinite, BoundsAssumption DEF Taken, TypeInv, TypeOK, ClassRow
<1> QED BY <1>2, <1>3 DEF Stranded

\* A step of request q that changes no class, registration or lost class, and
\* drops no owed recompute, keeps the waitlist invariant.
LEMMA LocalStep ==
    ASSUME NEW E, WaitlistInv(E), TypeInv', NEW q \in Reqs, NEW s, Become(q, s), ~At(q, "recompute"),
           UNCHANGED <<class, reg, nextReg, lost>>, Knows(s, class, reg)
    PROVE  WaitlistInv(E)'
<1> USE DEF WaitlistInv, RowsInv
<1>1. RowsInserted'
  BY DEF RowsInserted
<1>2. Memory'
  BY KnowledgeLasts DEF Lasting
<1>3. ASSUME NEW c \in Classes, Stranded(c)'
      PROVE  Owing(c)' # {} \/ c \in lost' \/ c \in E
  <2>1. Stranded(c)
    BY <1>3 DEF Stranded, Live
  <2>2. Owing(c) \subseteq Owing(c)'
    BY DEF Owing, At, Become, TypeInv, TypeOK
  <2> QED BY <2>1, <2>2 DEF Noticed
<1> QED BY <1>1, <1>2, <1>3 DEF Noticed

\* A step of request q that leaves it owing the recompute of class c, the only
\* class whose seats or waitlist it touches, keeps the waitlist invariant.
LEMMA OwingStep ==
    ASSUME NEW E, WaitlistInv(E), TypeInv', NEW q \in Reqs, NEW c \in Classes \cup {None},
           Become(q, RecomputeOwed(c)), ~At(q, "recompute"), lost' = lost,
           Lasting, RowsInserted',
           \A d \in Classes \ {c} : /\ class'[d] = class[d]
                                    /\ Taken(reg', d) = Taken(reg, d)
                                    /\ Waiting(reg', d) = Waiting(reg, d)
    PROVE  WaitlistInv(E)'
<1> USE DEF WaitlistInv, RowsInv
<1>1. Memory'
  BY KnowledgeLasts, NothingToKnow
<1>2. ASSUME NEW d \in Classes, Stranded(d)'
      PROVE  Owing(d)' # {} \/ d \in lost' \/ d \in E
  <2>1. CASE d = c
    BY <2>1 DEF Owing, At, Become, RecomputeOwed, Idle, TypeInv, TypeOK
  <2>2. CASE d # c
    <3>1. Stranded(d)
      BY <1>2, <2>2 DEF Stranded, Live
    <3>2. Owing(d) \subseteq Owing(d)'
      BY DEF Owing, At, Become, TypeInv, TypeOK
    <3> QED BY <3>1, <3>2 DEF Noticed
  <2> QED BY <2>1, <2>2
<1> QED BY <1>1, <1>2 DEF Noticed

\* A transaction of request q that rebalances class c over a table t that only
\* frees seats of that class keeps the waitlist invariant.
LEMMA RebalanceStep ==
    ASSUME NEW E, WaitlistInv(E), TypeInv', NEW q \in Reqs, NEW c \in Classes,
           NEW t \in [Regs -> RegRow], Rebalance(q, t, c),
           UNCHANGED <<class, nextReg>>,
           At(q, "recompute") => req[q].class = c,
           \A r \in Regs : /\ t[r].class = reg[r].class
                           /\ reg[r].status = "none" <=> t[r].status = "none"
                           /\ reg[r].status \in Settled => t[r].status \in Settled,
           \A d \in Classes \ {c} : /\ Taken(t, d) = Taken(reg, d)
                                    /\ Waiting(t, d) = Waiting(reg, d)
    PROVE  WaitlistInv(E)'
<1> USE DEF WaitlistInv, RowsInv
<1>1. PICK P \in Promotions(t, c) :
             /\ P \subseteq Waiting(t, c)
             /\ Become(q, Announcing(P))
             /\ lost' = lost \ {c}
             /\ \A r \in Regs : /\ reg'[r].class = t[r].class
                                /\ reg'[r].status = IF r \in P THEN "confirmed"
                                                               ELSE t[r].status
             /\ \A d \in Classes \ {c} : /\ Taken(reg', d) = Taken(t, d)
                                         /\ Waiting(reg', d) = Waiting(t, d)
  BY RebalanceEffect
<1>2. P \subseteq {r \in Regs : t[r].status = "waitlisted"}
  BY <1>1 DEF Waiting
<1>3. Lasting
  BY <1>1, <1>2 DEF Lasting, Settled
<1>4. RowsInserted'
  BY <1>1, <1>2 DEF RowsInserted
<1>5. Memory'
  BY <1>1, <1>3, KnowledgeLasts, NothingToKnow
<1>6. ASSUME NEW d \in Classes, Stranded(d)'
      PROVE  Owing(d)' # {} \/ d \in lost' \/ d \in E
  <2>1. d # c
    BY <1>6, RebalanceServes
  <2>2. Stranded(d)
    BY <1>1, <1>6, <2>1 DEF Stranded, Live
  <2>3. Owing(d) \subseteq Owing(d)'
    BY <1>1, <2>1 DEF Owing, At, Become, TypeInv, TypeOK
  <2> QED BY <1>1, <2>1, <2>2, <2>3 DEF Noticed
<1> QED BY <1>4, <1>5, <1>6 DEF Noticed

\* Every step of a request keeps the waitlist invariant.
LEMMA StepWaitlist ==
    ASSUME NEW E, WaitlistInv(E), TypeInv', NEW q \in Reqs, Step(q)
    PROVE  WaitlistInv(E)'
<1>0. /\ TypeInv /\ TypeOK /\ RowsInserted /\ Memory
      /\ req[q] \in ReqState /\ Knows(req[q], class, reg)
  BY DEF WaitlistInv, RowsInv, TypeInv, TypeOK, Memory
<1>1. CASE CheckDuplicate(q)
  <2>1. Knows([req[q] EXCEPT !.pc = "date"], class, reg)
    BY <1>0 DEF Knows, ReqState
  <2> QED BY <1>1, <2>1, NothingToKnow, LocalStep DEF CheckDuplicate, At
<1>2. CASE LoadDate(q)
  <2> DEFINE s == [req[q] EXCEPT !.pc = "day", !.day = class[req[q].class].day]
  <2>1. Live(req[q].class) => Knows(s, class, reg)
    BY <1>0 DEF Knows, ReqState, Live
  <2> QED BY <1>2, <2>1, NothingToKnow, LocalStep DEF LoadDate, At
<1>3. CASE CheckSameDay(q)
  <2> DEFINE s == [req[q] EXCEPT !.day = None,
                           !.pc = IF req[q].op = "submit" THEN "count" ELSE "class"]
  <2>1. Knows(s, class, reg)
    BY <1>0, <1>3 DEF Knows, ReqState, CheckSameDay, At
  <2> QED BY <1>3, <2>1, NothingToKnow, LocalStep DEF CheckSameDay, At
<1>4. CASE LoadClass(q)
  <2> DEFINE s == [req[q] EXCEPT !.pc = "count", !.cap = class[req[q].class].cap]
  <2>1. Knows(s, class, reg)
    BY <1>0, <1>4 DEF Knows, ReqState, LoadClass, At
  <2> QED BY <1>4, <2>1, NothingToKnow, LocalStep DEF LoadClass, At
<1>5. CASE TurnedAway(q)
  BY <1>5, NothingToKnow, LocalStep DEF TurnedAway, At
<1>6. CASE CountConfirmed(q)
  <2> DEFINE seat == SeatFor(Cardinality(Taken(reg, req[q].class)), req[q].cap)
             s == [req[q] EXCEPT !.pc = "insert", !.cap = 0, !.seat = seat]
  <2>1. Knows(s, class, reg)
    BY <1>0, <1>6 DEF Knows, ReqState, CountConfirmed, At
  <2> QED BY <1>6, <2>1, NothingToKnow, LocalStep DEF CountConfirmed, At
<1>7. CASE Insert(q)
  <2> DEFINE c == req[q].class
             new == [status |-> req[q].seat, child |-> req[q].child, class |-> c, in |-> FALSE]
  <2>1. c \in Classes /\ class[c].row # "unused"
    BY <1>0, <1>7 DEF Knows, Insert, At
  <2>2. \A r \in Regs : reg'[r] = IF r = nextReg THEN new ELSE reg[r]
    BY <1>0, <1>7 DEF Insert, TypeOK
  <2>3. \A r \in Regs : r = nextReg => reg[r].status = "none"
    BY <1>0 DEF RowsInserted, TypeOK, Regs
  <2>4. \A r \in Regs : reg[r].status # "none" => reg'[r] = reg[r]
    BY <2>2, <2>3
  <2>5. Lasting
    BY <1>7, <2>4 DEF Lasting, Settled, Insert
  <2>6. RowsInserted'
    <3>1. ASSUME NEW r \in Regs, reg'[r].status # "none"
          PROVE  r < nextReg' /\ reg'[r].class \in Classes /\ class[reg'[r].class].row # "unused"
      <4>1. CASE r = nextReg
        BY <4>1, <1>0, <1>7, <2>1, <2>2 DEF Insert, TypeOK
      <4>2. CASE r # nextReg
        BY <3>1, <4>2, <1>0, <1>7, <2>2 DEF RowsInserted, Insert, TypeOK, Regs
      <4> QED BY <4>1, <4>2
    <3> QED BY <1>7, <3>1 DEF RowsInserted, Insert
  <2>7. ASSUME NEW d \in Classes \ {c}
        PROVE  Taken(reg', d) = Taken(reg, d) /\ Waiting(reg', d) = Waiting(reg, d)
    BY <2>2, <2>3 DEF Taken, Waiting
  <2> QED BY <1>7, <2>1, <2>5, <2>6, <2>7, OwingStep DEF Insert, At
<1>8. CASE Delete(q)
  <2> DEFINE c == req[q].class
             x == req[q].reg
  <2>1. x \in Regs /\ reg[x].status # "none" /\ reg[x].class = c
    BY <1>0, <1>8 DEF Knows, Delete, At
  <2>2. c \in Classes
    BY <1>0, <2>1 DEF RowsInserted
  <2>3. \A r \in Regs : /\ reg'[r].status = IF r = x THEN "deleted" ELSE reg[r].status
                        /\ reg'[r].class = reg[r].class
    BY <1>0, <1>8, <2>1 DEF Delete, TypeOK, RegRow
  <2>4. Lasting
    BY <1>8, <2>3 DEF Lasting, Settled, Delete
  <2>5. RowsInserted'
    BY <1>0, <1>8, <2>1, <2>3 DEF RowsInserted, Delete
  <2>6. ASSUME NEW d \in Classes \ {c}
        PROVE  Taken(reg', d) = Taken(reg, d) /\ Waiting(reg', d) = Waiting(reg, d)
    BY <2>1, <2>3 DEF Taken, Waiting
  <2> QED BY <1>8, <2>2, <2>4, <2>5, <2>6, OwingStep DEF Delete, At
<1>9. CASE Save(q)
  <2> DEFINE c == req[q].class
  <2>1. PICK n \in CapacityInput, d \in Days, late \in Evenings : SaveClass(c, n, d, late)
    BY <1>9 DEF Save
  <2>2. /\ \A e \in Classes \ {c} : class'[e] = class[e]
        /\ c \in Classes => class'[c].row = "live"
    BY <1>0, <2>1 DEF SaveClass, TypeOK
  <2>3. Lasting
    BY <1>9, <2>2 DEF Lasting, Save
  <2>4. RowsInserted'
    BY <1>0, <1>9, <2>2 DEF RowsInserted, Save
  <2>5. c \in Classes \cup {None}
    BY <1>0 DEF ReqState
  <2> QED BY <1>9, <2>2, <2>3, <2>4, <2>5, OwingStep DEF Save, At
<1>10. CASE CountRoster(q)
  <2>1. Knows([req[q] EXCEPT !.pc = "drop"], class, reg)
    BY <1>0 DEF Knows, ReqState
  <2> QED BY <1>10, <2>1, NothingToKnow, LocalStep DEF CountRoster, At
<1>11. CASE Drop(q)
  <2> DEFINE c == req[q].class
  <2>1. /\ \A e \in Classes \ {c} : class'[e] = class[e]
        /\ c \in Classes => class'[c].row = "deleted"
    BY <1>0, <1>11 DEF Drop, TypeOK, ClassRow
  <2>2. Lasting
    BY <1>11, <2>1 DEF Lasting, Drop
  <2>3. RowsInserted'
    BY <1>0, <1>11, <2>1 DEF RowsInserted, Drop
  <2>4. Memory'
    BY <1>0, <1>11, <2>2, KnowledgeLasts, NothingToKnow DEF Drop
  <2>5. ASSUME NEW d \in Classes, Stranded(d)'
        PROVE  Owing(d)' # {} \/ d \in lost' \/ d \in E
    <3>1. Stranded(d)
      BY <1>11, <2>1, <2>5 DEF Stranded, Live, Drop
    <3>2. Owing(d) \subseteq Owing(d)'
      BY <1>0, <1>11 DEF Owing, At, Become, TypeOK, Drop
    <3> QED BY <1>11, <3>1, <3>2 DEF WaitlistInv, RowsInv, Noticed, Drop
  <2> QED BY <2>3, <2>4, <2>5 DEF WaitlistInv, RowsInv, Noticed
<1>12. CASE Guard(q)
  <2> DEFINE s == [req[q] EXCEPT !.pc = "mark", !.class = None]
  <2>1. Knows(s, class, reg)
    BY <1>0, <1>12 DEF Knows, ReqState, Guard, At
  <2> QED BY <1>12, <2>1, NothingToKnow, LocalStep DEF Guard, At
<1>13. CASE Mark(q)
  <2> DEFINE x == req[q].reg
  <2>1. x \in Regs /\ reg[x].status \in Settled /\ req[q].seat = "confirmed"
    BY <1>0, <1>13 DEF Knows, Mark, At
  <2>2. \A r \in Regs : /\ reg'[r].status = IF r = x THEN "confirmed" ELSE reg[r].status
                        /\ reg'[r].class = reg[r].class
    BY <1>0, <1>13, <2>1 DEF Mark, TypeOK, RegRow
  <2>3. Lasting
    <3>1. class' = class /\ "confirmed" \in Settled
      BY <1>13 DEF Mark, Settled
    <3>2. reg[x].status # "none"
      BY <2>1 DEF Settled
    <3> QED BY <2>2, <3>1, <3>2 DEF Lasting
  <2>4. RowsInserted'
    BY <1>0, <1>13, <2>1, <2>2 DEF RowsInserted, Mark, Settled
  <2>5. Memory'
    BY <1>0, <1>13, <2>3, KnowledgeLasts, NothingToKnow DEF Mark
  <2>6. ASSUME NEW d \in Classes, Stranded(d)'
        PROVE  Owing(d)' # {} \/ d \in lost' \/ d \in E
    <3>1. /\ Taken(reg, d) \subseteq Taken(reg', d)
          /\ Waiting(reg', d) \subseteq Waiting(reg, d)
      BY <2>2 DEF Taken, Waiting
    <3>2. Stranded(d)
      BY <1>0, <1>13, <2>6, <3>1, SeatsKept DEF Mark
    <3>3. Owing(d) \subseteq Owing(d)'
      BY <1>0, <1>13 DEF Owing, At, Become, TypeOK, Mark
    <3> QED BY <1>13, <3>2, <3>3 DEF WaitlistInv, RowsInv, Noticed, Mark
  <2> QED BY <2>4, <2>5, <2>6 DEF WaitlistInv, RowsInv, Noticed
<1>14. CASE Recompute(q)
  <2> DEFINE c == req[q].class
  <2>1. CASE Live(c) /\ Rebalance(q, reg, c)
    BY <1>0, <1>14, <2>1, RebalanceStep DEF Recompute, Live, TypeOK
  <2>2. CASE ~Live(c) /\ Become(q, Idle) /\ UNCHANGED <<reg, lost>>
    <3>1. RowsInserted'
      BY <1>0, <1>14, <2>2 DEF RowsInserted, Recompute
    <3>2. Memory'
      BY <1>0, <1>14, <2>2, KnowledgeLasts, NothingToKnow DEF Recompute, Lasting
    <3>3. ASSUME NEW d \in Classes, Stranded(d)'
          PROVE  Owing(d)' # {} \/ d \in lost' \/ d \in E
      <4>1. Stranded(d) /\ d # c
        BY <1>14, <2>2, <3>3 DEF Stranded, Live, Recompute
      <4>2. Owing(d) \subseteq Owing(d)'
        BY <1>0, <2>2, <4>1 DEF Owing, At, Become, TypeOK
      <4> QED BY <2>2, <4>1, <4>2 DEF WaitlistInv, RowsInv, Noticed
    <3> QED BY <3>1, <3>2, <3>3 DEF WaitlistInv, RowsInv, Noticed
  <2> QED BY <1>14, <2>1, <2>2 DEF Recompute
<1>15. CASE Notify(q)
  <2>1. PICK r \in req[q].promoted : Become(q, Announcing(req[q].promoted \ {r}))
    BY <1>15 DEF Notify
  <2> QED BY <1>15, <2>1, NothingToKnow, LocalStep DEF Notify, At
<1> QED
  BY <1>1, <1>2, <1>3, <1>4, <1>5, <1>6, <1>7, <1>8, <1>9, <1>10, <1>11, <1>12,
     <1>13, <1>14, <1>15 DEF Step

\* So does the first statement of every request: Cancel, the only one that
\* changes a table, frees a seat and rebalances in the same transaction.
LEMMA ArrivalWaitlist ==
    ASSUME NEW E, WaitlistInv(E), TypeInv', NEW q \in Reqs, Arrival(q)
    PROVE  WaitlistInv(E)'
<1>0. /\ TypeInv /\ TypeOK /\ RowsInserted /\ Memory
      /\ req[q] \in ReqState
  BY DEF WaitlistInv, RowsInv, TypeInv, TypeOK
<1>1. ASSUME NEW k \in Children, NEW c \in Classes, Submit(q, k, c) \/ Confirm(q, k, c)
      PROVE  WaitlistInv(E)'
  <2>1. PICK s : /\ Become(q, s) /\ s.pc = "dup" /\ ~At(q, "recompute")
                 /\ UNCHANGED <<class, reg, nextReg, lost>>
    BY <1>1 DEF Submit, Confirm, Free, At, Idle
  <2>2. Knows(s, class, reg)
    BY <2>1 DEF Knows
  <2> QED BY <2>1, <2>2, LocalStep
<1>2. ASSUME NEW r \in Regs, Cancel(q, r)
      PROVE  WaitlistInv(E)'
  <2> DEFINE t == Canceled(r)
             c == reg[r].class
  <2>1. c \in Classes /\ reg[r].status \notin {"none", "deleted"}
    BY <1>2 DEF Cancel, Exists, Live
  <2>2. t \in [Regs -> RegRow]
    BY <1>0, ZenonT(40) DEF Canceled, TypeOK, RegRow
  <2>3. \A x \in Regs : /\ t[x].status = IF x = r THEN "canceled" ELSE reg[x].status
                        /\ t[x].class = reg[x].class
    BY <1>0 DEF Canceled, TypeOK, RegRow
  <2>4. \A d \in Classes \ {c} : Taken(t, d) = Taken(reg, d) /\ Waiting(t, d) = Waiting(reg, d)
    BY <2>3 DEF Taken, Waiting
  <2>5. \A x \in Regs : /\ reg[x].status = "none" <=> t[x].status = "none"
                        /\ reg[x].status \in Settled => t[x].status \in Settled
    BY <2>1, <2>3 DEF Settled
  <2>6. Rebalance(q, t, c) /\ ~At(q, "recompute") /\ UNCHANGED <<class, nextReg>>
    BY <1>2 DEF Cancel, Free, At
  <2> HIDE DEF t, c
  <2> QED BY <2>1, <2>2, <2>3, <2>4, <2>5, <2>6, RebalanceStep DEF c
<1>3. ASSUME NEW r \in Regs, ReadForDelete(q, r)
      PROVE  WaitlistInv(E)'
  <2> DEFINE s == [Idle EXCEPT !.pc = "delete", !.reg = r, !.class = reg[r].class]
  <2>1. Knows(s, class, reg)
    BY <1>3 DEF Knows, Idle, ReadForDelete, Exists
  <2> QED BY <1>3, <2>1, LocalStep DEF ReadForDelete, Free, At
<1>3a. ASSUME NEW r \in Regs, ReadForCheckin(q, r)
       PROVE  WaitlistInv(E)'
  <2> DEFINE s == [Idle EXCEPT !.pc = "guard", !.reg = r, !.seat = reg[r].status,
                               !.class = reg[r].class]
  <2>1. Knows(s, class, reg)
    BY <1>3a DEF Knows, Idle, ReadForCheckin, Eligible, Settled
  <2> QED BY <1>3a, <2>1, LocalStep DEF ReadForCheckin, Free, At
<1>4. ASSUME NEW c \in Classes, ReadForUpdate(q, c) \/ ReadForDrop(q, c)
      PROVE  WaitlistInv(E)'
  <2>1. PICK s : /\ Become(q, s) /\ s.pc \in {"save", "roster"} /\ ~At(q, "recompute")
                 /\ UNCHANGED <<class, reg, nextReg, lost>>
    BY <1>4 DEF ReadForUpdate, ReadForDrop, Free, At, Idle
  <2>2. Knows(s, class, reg)
    BY <2>1 DEF Knows
  <2> QED BY <2>1, <2>2, LocalStep
<1> QED BY <1>1, <1>2, <1>3, <1>3a, <1>4 DEF Arrival

\* A class that is created has no registrations; a crash turns what requests
\* owed into what is lost.
LEMMA OtherWaitlist ==
    ASSUME NEW E, WaitlistInv(E), TypeInv', (\E c \in Classes : CreateClass(c)) \/ Crash
    PROVE  WaitlistInv(E)'
<1> USE DEF WaitlistInv, RowsInv
<1>1. ASSUME NEW c \in Classes, CreateClass(c)
      PROVE  WaitlistInv(E)'
  <2>1. /\ class[c].row = "unused"
        /\ \A e \in Classes \ {c} : class'[e] = class[e]
        /\ class'[c].row = "live"
        /\ UNCHANGED <<reg, nextReg, req, lost>>
    BY <1>1 DEF CreateClass, SaveClass, TypeInv, TypeOK
  <2>2. RowsInserted'
    BY <2>1 DEF RowsInserted
  <2>3. Memory'
    BY <2>1 DEF Memory, Knows
  <2>4. Waiting(reg, c) = {}
    BY <2>1 DEF Waiting, RowsInserted
  <2>5. ASSUME NEW d \in Classes, Stranded(d)'
        PROVE  Owing(d)' # {} \/ d \in lost' \/ d \in E
    <3>1. d # c
      BY <2>1, <2>4, <2>5 DEF Stranded
    <3>2. Stranded(d)
      BY <2>1, <2>5, <3>1 DEF Stranded, Live
    <3> QED BY <2>1, <3>2 DEF Noticed, Owing, At
  <2> QED BY <2>2, <2>3, <2>5 DEF Noticed
<1>2. CASE Crash
  <2>1. RowsInserted'
    BY <1>2 DEF RowsInserted, Crash
  <2>2. Memory'
    BY <1>2, NothingToKnow DEF Memory, Crash
  <2>3. ASSUME NEW d \in Classes, Stranded(d)'
        PROVE  d \in lost' \/ d \in E
    <3>1. Stranded(d)
      BY <1>2, <2>3 DEF Stranded, Live, Crash
    <3> QED BY <1>2, <3>1 DEF Noticed, Crash
  <2> QED BY <2>1, <2>2, <2>3 DEF Noticed
<1> QED BY <1>1, <1>2

\* The waitlist invariant is inductive.
LEMMA WaitlistInvStep ==
    ASSUME NEW E, WaitlistInv(E), [Next]_vars
    PROVE  WaitlistInv(E)'
<1>1. TypeInv'
  BY TypeInvStep DEF WaitlistInv, RowsInv
<1>2. CASE UNCHANGED vars
  <2>1. RowsInserted' /\ Memory'
    BY <1>2 DEF vars, WaitlistInv, RowsInv, RowsInserted, Memory
  <2>2. Noticed(E)'
    BY <1>2 DEF vars, WaitlistInv, Noticed, Stranded, Live, Owing, At
  <2> QED BY <1>1, <2>1, <2>2 DEF WaitlistInv, RowsInv
<1> QED BY <1>1, <1>2, StepWaitlist, ArrivalWaitlist, OtherWaitlist DEF Next

LEMMA WaitlistInvInit == Init => WaitlistInv({})
<1> SUFFICES ASSUME Init
             PROVE  WaitlistInv({})
  OBVIOUS
<1>1. RowsInserted
  BY DEF Init, RowsInserted
<1>2. Memory
  BY NothingToKnow DEF Init, Memory
<1>3. Noticed({})
  BY DEF Init, Noticed, Stranded, Live
<1> QED BY <1>1, <1>2, <1>3, TypeInvInit DEF WaitlistInv, RowsInv

LEMMA WaitlistInvAlways == Spec => []WaitlistInv({})
<1>1. WaitlistInv({}) /\ [Next]_vars => WaitlistInv({})'
  BY WaitlistInvStep
<1> QED BY <1>1, WaitlistInvInit, PTL DEF Spec

\* No free seat and waiting child sit side by side unless a running request
\* still has the recompute of that class to call, or a crash took it: for every
\* number of requests, children, classes and seats, with every handler running.
THEOREM WaitlistNeverStranded == Spec => []NoStrandedWaitlist
<1>1. WaitlistInv({}) => NoStrandedWaitlist
  BY DEF WaitlistInv, Noticed, NoStrandedWaitlist
<1> QED BY <1>1, WaitlistInvAlways, PTL

-----------------------------------------------------------------------------
(* The order of promotions.                                                *)

\* A rebalance over a table that only moves registrations off the waitlist
\* promotes in order and puts nobody back.
LEMMA RebalanceInOrder ==
    ASSUME RowsInv, NEW q \in Reqs, NEW c \in Classes, NEW t \in [Regs -> RegRow],
           Rebalance(q, t, c),
           \A r \in Regs : /\ t[r].class = reg[r].class
                           /\ t[r].status = reg[r].status \/ t[r].status = "canceled"
    PROVE  PromotesInOrder /\ StaysOffWaitlist
<1> USE DEF RowsInv
<1>1. PICK P \in Promotions(t, c) :
             /\ P \subseteq Waiting(t, c)
             /\ \A r \in Regs : /\ reg'[r].class = t[r].class
                                /\ reg'[r].status = IF r \in P THEN "confirmed"
                                                               ELSE t[r].status
             /\ Taken(reg', c) = Taken(t, c) \cup P
             /\ Waiting(reg', c) = Waiting(t, c) \ P
  BY RebalanceEffect
<1>2. \A r \in P, s \in Waiting(t, c) \ P : r < s
  BY DEF Promotions
<1>3. ASSUME NEW r \in Regs, reg[r].status = "waitlisted", reg'[r].status = "confirmed"
      PROVE  /\ \A s \in Waiting(reg', reg[r].class) : r < s
             /\ Cardinality(Taken(reg', reg[r].class)) <= class[reg[r].class].cap
  <2>1. r \in P
    BY <1>1, <1>3
  <2>2. reg[r].class = c
    BY <1>1, <2>1 DEF Waiting
  <2>3. Cardinality(Taken(t, c) \cup P) <= class[c].cap
    BY <2>1, RebalanceFills
  <2> QED BY <1>1, <1>2, <2>1, <2>2, <2>3
<1>4. PromotesInOrder
  BY <1>3 DEF PromotesInOrder
<1>5. StaysOffWaitlist
  BY <1>1 DEF StaysOffWaitlist, Waiting
<1> QED BY <1>4, <1>5

\* Every step promotes in order and puts nobody back on the waitlist.
LEMMA NextInOrder ==
    ASSUME RowsInv, Next
    PROVE  PromotesInOrder /\ StaysOffWaitlist
<1>0. /\ TypeOK /\ RowsInserted /\ Memory
      /\ \A q \in Reqs : req[q] \in ReqState /\ Knows(req[q], class, reg)
  BY DEF RowsInv, TypeInv, TypeOK, Memory
<1>1. CASE reg' = reg
  BY <1>1 DEF PromotesInOrder, StaysOffWaitlist
<1>2. ASSUME NEW q \in Reqs, Insert(q)
      PROVE  PromotesInOrder /\ StaysOffWaitlist
  <2>1. \A r \in Regs : reg[r].status # "none" => reg'[r] = reg[r]
    BY <1>0, <1>2 DEF Insert, RowsInserted, TypeOK, Regs
  <2> QED BY <2>1, <1>0 DEF PromotesInOrder, StaysOffWaitlist
<1>3. ASSUME NEW q \in Reqs, Delete(q)
      PROVE  PromotesInOrder /\ StaysOffWaitlist
  <2>1. \A r \in Regs : reg'[r].status \in {reg[r].status, "deleted"}
    BY <1>0, <1>3 DEF Delete, TypeOK, RegRow
  <2> QED BY <2>1 DEF PromotesInOrder, StaysOffWaitlist
<1>4. ASSUME NEW q \in Reqs, Mark(q)
      PROVE  PromotesInOrder /\ StaysOffWaitlist
  <2>1. /\ req[q].reg \in Regs /\ req[q].seat = "confirmed"
        /\ reg[req[q].reg].status \in Settled
    BY <1>0, <1>4 DEF Knows, Mark, At
  <2>2. \A r \in Regs : \/ reg'[r].status = reg[r].status
                        \/ reg'[r].status = "confirmed" /\ reg[r].status \in Settled
    BY <1>0, <1>4, <2>1 DEF Mark, TypeOK, RegRow
  <2> QED BY <2>2 DEF PromotesInOrder, StaysOffWaitlist, Settled
<1>5. ASSUME NEW q \in Reqs, Recompute(q)
      PROVE  PromotesInOrder /\ StaysOffWaitlist
  <2>1. CASE Live(req[q].class) /\ Rebalance(q, reg, req[q].class)
    BY <1>0, <2>1, RebalanceInOrder DEF Live, TypeOK
  <2> QED BY <1>1, <1>5, <2>1 DEF Recompute
<1>6. ASSUME NEW q \in Reqs, NEW r \in Regs, Cancel(q, r)
      PROVE  PromotesInOrder /\ StaysOffWaitlist
  <2>1. /\ reg[r].class \in Classes
        /\ Rebalance(q, Canceled(r), reg[r].class)
    BY <1>6 DEF Cancel, Live
  <2>2. Canceled(r) \in [Regs -> RegRow]
    BY <1>0 DEF Canceled, TypeOK, RegRow
  <2>3. \A x \in Regs : /\ Canceled(r)[x].class = reg[x].class
                        /\ \/ Canceled(r)[x].status = reg[x].status
                           \/ Canceled(r)[x].status = "canceled"
    BY <1>0 DEF Canceled, TypeOK, RegRow
  <2> QED BY <2>1, <2>2, <2>3, RebalanceInOrder
<1>7. ASSUME NEW q \in Reqs, Step(q)
      PROVE  PromotesInOrder /\ StaysOffWaitlist
  <2>1. \/ Insert(q) \/ Delete(q) \/ Mark(q) \/ Recompute(q)
        \/ reg' = reg
    BY <1>7 DEF Step, CheckDuplicate, LoadDate, CheckSameDay, LoadClass, TurnedAway,
         CountConfirmed, Save, CountRoster, Drop, Guard, Notify
  <2> QED BY <1>1, <1>2, <1>3, <1>4, <1>5, <2>1
<1>8. ASSUME NEW q \in Reqs, Arrival(q)
      PROVE  PromotesInOrder /\ StaysOffWaitlist
  <2>1. (\E r \in Regs : Cancel(q, r)) \/ reg' = reg
    BY <1>8 DEF Arrival, Submit, Confirm, ReadForDelete, ReadForCheckin, ReadForUpdate,
         ReadForDrop
  <2> QED BY <1>1, <1>6, <2>1
<1> QED BY <1>1, <1>7, <1>8 DEF Next, CreateClass, Crash

\* "FIFO preserved" and no promotion beyond the capacity, in every step of every
\* run, whatever requests overlap.
THEOREM PromotionsInOrder == Spec => PromotionInOrder
<1>1. WaitlistInv({}) /\ [Next]_vars => [PromotesInOrder]_vars
  BY NextInOrder DEF WaitlistInv
<1> QED BY <1>1, WaitlistInvAlways, PTL DEF Spec, PromotionInOrder

\* Nobody who has left the waitlist is ever put back on it, stale check-ins and
\* resurrected rows included.
THEOREM NeverBack == Spec => NeverBackOnWaitlist
<1>1. WaitlistInv({}) /\ [Next]_vars => [StaysOffWaitlist]_vars
  BY NextInOrder DEF WaitlistInv
<1> QED BY <1>1, WaitlistInvAlways, PTL DEF Spec, NeverBackOnWaitlist

-----------------------------------------------------------------------------
(* Where a request goes from where it is.                                  *)

Promoting(q) == Recompute(q) \/ \E r \in Regs : Cancel(q, r)

\* Request q moves on to s: with a row it has just read or still has in hand, with
\* the seat it has just worked out, with a capacity that it or an earlier
\* statement read, for the child it was to register or is going to, and with no
\* promotions but those it had or has just made.
Follows(q, s) ==
    /\ Become(q, s)
    /\ s.pc = "guard" => \E r \in Regs : ReadForCheckin(q, r) /\ s.reg = r
    /\ s.pc = "mark" => Guard(q) /\ s.reg = req[q].reg
    /\ s.pc = "delete" => \E r \in Regs : ReadForDelete(q, r)
    /\ s.pc = "save" => \E c \in Classes : ReadForUpdate(q, c)
    /\ s.pc = "day" => LoadDate(q)
    /\ s.pc \in {"class", "count"} => CheckSameDay(q) \/ LoadClass(q)
    /\ s.pc = "insert" =>
          /\ CountConfirmed(q)
          /\ s.class = req[q].class
          /\ s.seat = SeatFor(Cardinality(Taken(reg, req[q].class)), req[q].cap)
    /\ s.class \in Classes =>
          \/ s.cap = 0
          \/ s.cap = req[q].cap /\ s.class = req[q].class
          \/ s.cap = class[s.class].cap
    /\ s.op # "none" =>
          s.child \in Children \/ (req[q].op # "none" /\ s.child = req[q].child)
    /\ s.promoted \subseteq req[q].promoted \/ Promoting(q)

LEMMA StepFollows ==
    ASSUME TypeInv, NEW q \in Reqs, Step(q)
    PROVE  \E s : Follows(q, s)
<1>0. /\ req[q] \in ReqState
      /\ Idle.pc = "idle" /\ Idle.op = "none" /\ Idle.cap = 0 /\ Idle.promoted = {}
      /\ \A c : /\ RecomputeOwed(c).pc = "recompute" /\ RecomputeOwed(c).op = "none"
                /\ RecomputeOwed(c).cap = 0 /\ RecomputeOwed(c).promoted = {}
      /\ \A P : /\ Announcing(P).pc \in {"idle", "notify"} /\ Announcing(P).op = "none"
                /\ Announcing(P).cap = 0 /\ Announcing(P).promoted = P
  BY DEF TypeInv, TypeOK, Idle, RecomputeOwed, Announcing
<1>1. CASE CheckDuplicate(q)
  <2> DEFINE s == [req[q] EXCEPT !.pc = "date"]
  <2>1. /\ s.pc = "date" /\ s.promoted = req[q].promoted /\ s.reg = req[q].reg
        /\ s.op = req[q].op /\ s.child = req[q].child
        /\ s.cap = req[q].cap /\ s.class = req[q].class
    BY <1>0 DEF ReqState
  <2>2. Become(q, s) \/ Become(q, Idle)
    BY <1>1 DEF CheckDuplicate
  <2> HIDE DEF s
  <2> QED BY <1>0, <1>1, <2>1, <2>2 DEF Follows
<1>2. CASE LoadDate(q)
  <2> DEFINE s == [req[q] EXCEPT !.pc = "day", !.day = class[req[q].class].day]
  <2>1. /\ s.pc = "day" /\ s.promoted = req[q].promoted /\ s.reg = req[q].reg
        /\ s.op = req[q].op /\ s.child = req[q].child
        /\ s.cap = req[q].cap /\ s.class = req[q].class
    BY <1>0 DEF ReqState
  <2>2. Become(q, s) \/ Become(q, Idle)
    BY <1>2 DEF LoadDate
  <2> HIDE DEF s
  <2> QED BY <1>0, <1>2, <2>1, <2>2 DEF Follows, LoadDate, At, Live
<1>3. CASE CheckSameDay(q)
  <2> DEFINE s == [req[q] EXCEPT !.day = None,
                           !.pc = IF req[q].op = "submit" THEN "count" ELSE "class"]
  <2>1. /\ s.pc \in {"count", "class"} /\ s.promoted = req[q].promoted /\ s.reg = req[q].reg
        /\ s.op = req[q].op /\ s.child = req[q].child
        /\ s.cap = req[q].cap /\ s.class = req[q].class
    BY <1>0 DEF ReqState
  <2>2. Become(q, s) \/ Become(q, Idle)
    BY <1>3 DEF CheckSameDay
  <2> HIDE DEF s
  <2> QED BY <1>0, <1>3, <2>1, <2>2 DEF Follows, CheckSameDay, At, Live
<1>4. CASE LoadClass(q)
  <2> DEFINE s == [req[q] EXCEPT !.pc = "count", !.cap = class[req[q].class].cap]
  <2>1. /\ s.pc = "count" /\ s.promoted = req[q].promoted
        /\ s.op = req[q].op /\ s.child = req[q].child
        /\ s.class = req[q].class /\ s.cap = class[s.class].cap
    BY <1>0 DEF ReqState
  <2>2. (Become(q, s) /\ s.class \in Classes) \/ Become(q, Idle)
    BY <1>4, <2>1 DEF LoadClass, Live
  <2> HIDE DEF s
  <2> QED BY <1>0, <1>4, <2>1, <2>2 DEF Follows
<1>5. CASE CountConfirmed(q)
  <2> DEFINE seat == SeatFor(Cardinality(Taken(reg, req[q].class)), req[q].cap)
             s == [req[q] EXCEPT !.pc = "insert", !.cap = 0, !.seat = seat]
  <2>1. /\ s.pc = "insert" /\ s.cap = 0 /\ s.promoted = req[q].promoted
        /\ s.op = req[q].op /\ s.child = req[q].child
        /\ s.class = req[q].class /\ s.seat = seat
    BY <1>0 DEF ReqState
  <2>2. Become(q, s)
    BY <1>5 DEF CountConfirmed
  <2> HIDE DEF s
  <2> QED BY <1>5, <2>1, <2>2 DEF Follows
<1>6. CASE CountRoster(q)
  <2> DEFINE s == [req[q] EXCEPT !.pc = "drop"]
  <2>1. /\ s.pc = "drop" /\ s.promoted = req[q].promoted /\ s.reg = req[q].reg
        /\ s.op = req[q].op /\ s.child = req[q].child
        /\ s.cap = req[q].cap /\ s.class = req[q].class
    BY <1>0 DEF ReqState
  <2>2. Become(q, s) \/ Become(q, Idle)
    BY <1>6 DEF CountRoster
  <2> HIDE DEF s
  <2> QED BY <1>0, <1>6, <2>1, <2>2 DEF Follows, CountRoster, At, Live
<1>7. CASE Guard(q)
  <2> DEFINE s == [req[q] EXCEPT !.pc = "mark", !.class = None]
  <2>1. /\ s.pc = "mark" /\ s.reg = req[q].reg /\ s.promoted = req[q].promoted
        /\ s.op = req[q].op /\ s.child = req[q].child
        /\ s.class \notin Classes
    BY <1>0, NoneAssumption DEF ReqState
  <2>2. Become(q, s) \/ Become(q, Idle)
    BY <1>7 DEF Guard
  <2> HIDE DEF s
  <2> QED BY <1>0, <1>7, <2>1, <2>2 DEF Follows
<1>8. CASE TurnedAway(q) \/ Insert(q) \/ Delete(q) \/ Save(q) \/ Drop(q) \/ Mark(q)
  <2>1. Become(q, Idle) \/ Become(q, RecomputeOwed(req[q].class))
    BY <1>8 DEF TurnedAway, Insert, Delete, Save, Drop, Mark
  <2> QED BY <1>0, <2>1 DEF Follows
<1>9. CASE Recompute(q)
  <2>1. Become(q, Idle) \/ \E P : Become(q, Announcing(P))
    BY <1>9 DEF Recompute, Rebalance
  <2> QED BY <1>0, <1>9, <2>1 DEF Follows, Promoting
<1>10. CASE Notify(q)
  <2>1. \E r : Become(q, Announcing(req[q].promoted \ {r}))
    BY <1>10 DEF Notify
  <2> QED BY <1>0, <2>1 DEF Follows
<1> QED
  BY <1>1, <1>2, <1>3, <1>4, <1>5, <1>6, <1>7, <1>8, <1>9, <1>10 DEF Step

LEMMA ArrivalFollows ==
    ASSUME TypeInv, NEW q \in Reqs, Arrival(q)
    PROVE  \E s : Follows(q, s)
<1>1. ASSUME NEW k \in Children, NEW c \in Classes, Submit(q, k, c)
      PROVE  \E s : Follows(q, s)
  <2> DEFINE s == [Idle EXCEPT !.op = "submit", !.pc = "dup", !.class = c,
                               !.child = k, !.cap = class[c].cap]
  <2>1. /\ s.pc = "dup" /\ s.promoted = {}
        /\ s.child = k
        /\ s.class = c /\ s.cap = class[c].cap
    BY DEF Idle
  <2>2. Become(q, s)
    BY <1>1 DEF Submit
  <2> HIDE DEF s
  <2> QED BY <1>1, <2>1, <2>2 DEF Follows
<1>2. ASSUME NEW k \in Children, NEW c \in Classes, Confirm(q, k, c)
      PROVE  \E s : Follows(q, s)
  <2> DEFINE s == [Idle EXCEPT !.op = "confirm", !.pc = "dup", !.class = c, !.child = k]
  <2>1. /\ s.pc = "dup" /\ s.promoted = {}
        /\ s.child = k
        /\ s.cap = 0
    BY DEF Idle
  <2>2. Become(q, s)
    BY <1>2 DEF Confirm
  <2> HIDE DEF s
  <2> QED BY <1>2, <2>1, <2>2 DEF Follows
<1>3. ASSUME NEW r \in Regs, Cancel(q, r)
      PROVE  \E s : Follows(q, s)
  <2>1. PICK P : Become(q, Announcing(P))
    BY <1>3 DEF Cancel, Rebalance
  <2>2. /\ Announcing(P).pc \in {"idle", "notify"} /\ Announcing(P).cap = 0
        /\ Announcing(P).op = "none"
    BY DEF Announcing, Idle
  <2> QED BY <1>3, <2>1, <2>2 DEF Follows, Promoting
<1>4. ASSUME NEW r \in Regs, ReadForDelete(q, r)
      PROVE  \E s : Follows(q, s)
  <2> DEFINE s == [Idle EXCEPT !.pc = "delete", !.reg = r, !.class = reg[r].class]
  <2>1. /\ s.pc = "delete" /\ s.promoted = {}
        /\ s.op = "none"
        /\ s.cap = 0
    BY DEF Idle
  <2>2. Become(q, s)
    BY <1>4 DEF ReadForDelete
  <2> HIDE DEF s
  <2> QED BY <1>4, <2>1, <2>2 DEF Follows
<1>5. ASSUME NEW r \in Regs, ReadForCheckin(q, r)
      PROVE  \E s : Follows(q, s)
  <2> DEFINE s == [Idle EXCEPT !.pc = "guard", !.reg = r, !.seat = reg[r].status,
                               !.class = reg[r].class]
  <2>1. /\ s.pc = "guard" /\ s.promoted = {}
        /\ s.op = "none"
        /\ s.cap = 0 /\ s.reg = r
    BY DEF Idle
  <2>2. Become(q, s)
    BY <1>5 DEF ReadForCheckin
  <2> HIDE DEF s
  <2> QED BY <1>5, <2>1, <2>2 DEF Follows
<1>6. ASSUME NEW c \in Classes, ReadForUpdate(q, c)
      PROVE  \E s : Follows(q, s)
  <2> DEFINE s == [Idle EXCEPT !.pc = "save", !.class = c]
  <2>1. /\ s.pc = "save" /\ s.promoted = {}
        /\ s.op = "none"
        /\ s.cap = 0
    BY DEF Idle
  <2>2. Become(q, s)
    BY <1>6 DEF ReadForUpdate
  <2> HIDE DEF s
  <2> QED BY <1>6, <2>1, <2>2 DEF Follows
<1>7. ASSUME NEW c \in Classes, ReadForDrop(q, c)
      PROVE  \E s : Follows(q, s)
  <2> DEFINE s == [Idle EXCEPT !.pc = "roster", !.class = c]
  <2>1. /\ s.pc = "roster" /\ s.promoted = {}
        /\ s.op = "none"
        /\ s.cap = 0
    BY DEF Idle
  <2>2. Become(q, s)
    BY <1>7 DEF ReadForDrop
  <2> HIDE DEF s
  <2> QED BY <1>7, <2>1, <2>2 DEF Follows
<1> QED BY <1>1, <1>2, <1>3, <1>4, <1>5, <1>6, <1>7 DEF Arrival

-----------------------------------------------------------------------------
(* Announcements.                                                          *)

\* Every step is one of a few kinds, as far as the registrations are concerned.
LEMMA RegistrationSteps ==
    ASSUME Next
    PROVE  \/ reg' = reg
           \/ \E q \in Reqs : Insert(q) \/ Delete(q) \/ Mark(q)
           \/ \E q \in Reqs : At(q, "recompute") /\ Live(req[q].class)
                              /\ Rebalance(q, reg, req[q].class)
           \/ \E q \in Reqs, r \in Regs : Cancel(q, r)
<1>1. ASSUME NEW q \in Reqs, Step(q), reg' # reg
      PROVE  \/ Insert(q) \/ Delete(q) \/ Mark(q)
             \/ At(q, "recompute") /\ Live(req[q].class) /\ Rebalance(q, reg, req[q].class)
  BY <1>1 DEF Step, CheckDuplicate, LoadDate, CheckSameDay, LoadClass, TurnedAway,
     CountConfirmed, Save, CountRoster, Drop, Guard, Notify, Recompute
<1>2. ASSUME NEW q \in Reqs, Arrival(q), reg' # reg
      PROVE  \E r \in Regs : Cancel(q, r)
  BY <1>2 DEF Arrival, Submit, Confirm, ReadForDelete, ReadForCheckin, ReadForUpdate,
     ReadForDrop
<1> QED BY <1>1, <1>2 DEF Next, CreateClass, Crash

\* Whoever has left the waitlist has left it for good, and every row stays in
\* its class: what StaysOffWaitlist says, and no inserted row is forgotten.
LEMMA SettledLasts ==
    ASSUME RowsInv, Next
    PROVE  \A r \in Regs : /\ reg[r].status # "none" =>
                                 reg'[r].status # "none" /\ reg'[r].class = reg[r].class
                           /\ reg[r].status \in Settled => reg'[r].status \in Settled
<1>0. /\ TypeInv /\ TypeOK /\ RowsInserted /\ Memory
      /\ \A q \in Reqs : req[q] \in ReqState /\ Knows(req[q], class, reg)
  BY DEF RowsInv, TypeInv, TypeOK, Memory
<1>1. ASSUME NEW r \in Regs, reg[r].status # "none"
      PROVE  reg'[r].status # "none" /\ reg'[r].class = reg[r].class
  <2>1. CASE reg' = reg
    BY <1>1, <2>1
  <2>2. ASSUME NEW q \in Reqs, Insert(q)
        PROVE  reg'[r].status # "none" /\ reg'[r].class = reg[r].class
    BY <1>0, <1>1, <2>2 DEF Insert, RowsInserted, TypeOK, Regs
  <2>3. ASSUME NEW q \in Reqs, Delete(q)
        PROVE  reg'[r].status # "none" /\ reg'[r].class = reg[r].class
    BY <1>0, <1>1, <2>3 DEF Delete, TypeOK, RegRow
  <2>4. ASSUME NEW q \in Reqs, Mark(q)
        PROVE  reg'[r].status # "none" /\ reg'[r].class = reg[r].class
    <3>1. req[q].seat = "confirmed"
      BY <1>0, <2>4 DEF Mark, At, Knows
    <3> QED BY <1>0, <1>1, <2>4, <3>1 DEF Mark, TypeOK, RegRow
  <2>5. ASSUME NEW q \in Reqs, Live(req[q].class), Rebalance(q, reg, req[q].class)
        PROVE  reg'[r].status # "none" /\ reg'[r].class = reg[r].class
    BY <1>0, <1>1, <2>5, RebalanceEffect DEF Live, TypeOK
  <2>6. ASSUME NEW q \in Reqs, NEW x \in Regs, Cancel(q, x)
        PROVE  reg'[r].status # "none" /\ reg'[r].class = reg[r].class
    <3>1. /\ Canceled(x) \in [Regs -> RegRow]
          /\ Canceled(x)[r].class = reg[r].class
          /\ Canceled(x)[r].status # "none"
      BY <1>0, <1>1 DEF Canceled, TypeOK, RegRow
    <3> QED BY <1>0, <2>6, <3>1, RebalanceEffect DEF Cancel, Live
  <2> QED BY <2>1, <2>2, <2>3, <2>4, <2>5, <2>6, RegistrationSteps
<1>2. \A r \in Regs : reg'[r].status = "waitlisted" => reg[r].status \in {"none", "waitlisted"}
  BY NextInOrder DEF StaysOffWaitlist
<1>3. TypeOK'
  BY <1>0, TypeInvStep DEF TypeInv
<1>4. \A r \in Regs : reg'[r].status \in {"none", "waitlisted"} \cup Settled
  BY <1>3 DEF TypeOK, RegRow, Settled
<1> QED BY <1>1, <1>2, <1>4 DEF Settled

\* AnnouncedOnce, and what it rests on: whoever is or was announced has left the
\* waitlist for good.
Announced == told \cup UNION {req[q].promoted : q \in Reqs}

AnnounceInv ==
    /\ \A p, q \in Reqs : p # q => req[p].promoted \cap req[q].promoted = {}
    /\ \A q \in Reqs : req[q].promoted \cap told = {}
    /\ \A r \in Announced : r \in Regs /\ reg[r].status \in Settled

\* A step that collects no promotions.
LEMMA NothingCollected ==
    ASSUME RowsInv, AnnounceInv, Next, told' = told,
           \A q \in Reqs : req'[q].promoted \subseteq req[q].promoted
    PROVE  AnnounceInv'
<1>1. Announced' \subseteq Announced
  BY DEF Announced
<1> QED BY <1>1, SettledLasts DEF AnnounceInv

\* A rebalance collects registrations that nobody has announced, since they were
\* waiting a moment ago.
LEMMA PromotionsAreNews ==
    ASSUME RowsInv, AnnounceInv, Next, NEW q \in Reqs, NEW c \in Classes,
           NEW t \in [Regs -> RegRow], Rebalance(q, t, c), told' = told,
           \A r \in Regs : t[r].status = "waitlisted" => reg[r].status = "waitlisted"
    PROVE  AnnounceInv'
<1>0. TypeInv /\ TypeOK
  BY DEF RowsInv, TypeInv
<1>1. PICK P \in Promotions(t, c) :
             /\ P \subseteq Waiting(t, c)
             /\ Become(q, Announcing(P))
             /\ \A r \in Regs : reg'[r].status = IF r \in P THEN "confirmed" ELSE t[r].status
  BY <1>0, RebalanceEffect
<1>2. \A r \in P : r \in Regs /\ reg[r].status = "waitlisted" /\ reg'[r].status \in Settled
  BY <1>1 DEF Waiting, Settled
<1>3. P \cap Announced = {}
  BY <1>2 DEF AnnounceInv, Settled
<1>4. /\ req'[q].promoted = P
      /\ \A p \in Reqs \ {q} : req'[p].promoted = req[p].promoted
  BY <1>0, <1>1 DEF Become, TypeOK, Announcing, Idle
<1>5. \A p \in Reqs : req[p].promoted \subseteq Announced
  BY DEF Announced
<1>6. told \subseteq Announced
  BY DEF Announced
<1>7. Announced' \subseteq Announced \cup P
  BY <1>4 DEF Announced
<1>8. \A r \in Announced' : r \in Regs /\ reg'[r].status \in Settled
  BY <1>2, <1>7, SettledLasts DEF AnnounceInv
<1>9. \A p, o \in Reqs : p # o => req'[p].promoted \cap req'[o].promoted = {}
  BY <1>3, <1>4, <1>5 DEF AnnounceInv
<1>10. \A p \in Reqs : req'[p].promoted \cap told' = {}
  BY <1>3, <1>4, <1>6 DEF AnnounceInv
<1> QED BY <1>8, <1>9, <1>10 DEF AnnounceInv

LEMMA AnnounceInvStep ==
    ASSUME RowsInv, AnnounceInv, [Next]_vars
    PROVE  AnnounceInv'
<1>0. TypeInv /\ TypeOK /\ \A q \in Reqs : req[q] \in ReqState
  BY DEF RowsInv, TypeInv, TypeOK
<1>1. CASE UNCHANGED vars
  BY <1>1 DEF vars, AnnounceInv, Announced
<1>2. ASSUME NEW q \in Reqs, Notify(q), Next
      PROVE  AnnounceInv'
  <2>1. PICK r \in req[q].promoted :
            told' = told \cup {r} /\ Become(q, Announcing(req[q].promoted \ {r}))
    BY <1>2 DEF Notify
  <2>2. /\ req'[q].promoted = req[q].promoted \ {r}
        /\ \A p \in Reqs \ {q} : req'[p].promoted = req[p].promoted
    BY <1>0, <2>1 DEF Become, TypeOK, Announcing, Idle
  <2>3. Announced' \subseteq Announced
    BY <2>1, <2>2 DEF Announced
  <2>4. \A x \in Announced' : x \in Regs /\ reg'[x].status \in Settled
    BY <1>2, <2>3, SettledLasts DEF AnnounceInv
  <2> QED BY <2>1, <2>2, <2>4 DEF AnnounceInv
<1>3. ASSUME NEW q \in Reqs, Recompute(q), Next
      PROVE  AnnounceInv'
  <2>1. CASE Live(req[q].class) /\ Rebalance(q, reg, req[q].class)
    BY <1>0, <1>3, <2>1, PromotionsAreNews DEF Live, TypeOK, Recompute
  <2>2. CASE Become(q, Idle)
    BY <1>0, <1>3, <2>2, NothingCollected DEF Become, Idle, TypeOK, Recompute
  <2> QED BY <1>3, <2>1, <2>2 DEF Recompute
<1>4. ASSUME NEW q \in Reqs, NEW r \in Regs, Cancel(q, r), Next
      PROVE  AnnounceInv'
  <2>1. /\ Canceled(r) \in [Regs -> RegRow]
        /\ \A x \in Regs : Canceled(r)[x].status = "waitlisted" => reg[x].status = "waitlisted"
    BY <1>0 DEF Canceled, TypeOK, RegRow
  <2> QED BY <1>4, <2>1, PromotionsAreNews DEF Cancel, Live
<1>5. ASSUME NEW q \in Reqs, Step(q) \/ Arrival(q), ~Notify(q), ~Promoting(q), Next
      PROVE  AnnounceInv'
  <2>1. PICK s : Follows(q, s)
    BY <1>0, <1>5, StepFollows, ArrivalFollows
  <2>2. \A p \in Reqs : req'[p].promoted \subseteq req[p].promoted
    BY <1>0, <1>5, <2>1 DEF Follows, Become, TypeOK
  <2>3. told' = told
    BY <1>5 DEF Step, CheckDuplicate, LoadDate, CheckSameDay, LoadClass, TurnedAway,
       CountConfirmed, Insert, Delete, Save, CountRoster, Drop, Guard, Mark, Promoting,
       Arrival, Submit, Confirm, ReadForDelete, ReadForCheckin, ReadForUpdate, ReadForDrop
  <2> QED BY <1>5, <2>2, <2>3, NothingCollected
<1>6. ASSUME (\E c \in Classes : CreateClass(c)) \/ Crash, Next
      PROVE  AnnounceInv'
  <2>1. told' = told /\ (req' = req \/ req' = [q \in Reqs |-> Idle])
    BY <1>6 DEF CreateClass, Crash
  <2>2. \A p \in Reqs : req'[p].promoted \subseteq req[p].promoted
    BY <2>1 DEF Idle
  <2> QED BY <1>6, <2>1, <2>2, NothingCollected
<1> QED BY <1>1, <1>2, <1>3, <1>4, <1>5, <1>6 DEF Next, Promoting

\* However many requests promote at once, each promotion is announced by one of
\* them and once, and nobody is announced who then goes back to waiting.
THEOREM AnnouncedAtMostOnce == Spec => []AnnouncedOnce
<1>1. Init => AnnounceInv
  BY DEF Init, Idle, AnnounceInv, Announced
<1>2. WaitlistInv({}) /\ AnnounceInv /\ [Next]_vars => AnnounceInv'
  BY AnnounceInvStep DEF WaitlistInv
<1>3. AnnounceInv => AnnouncedOnce
  BY DEF AnnounceInv, Announced, AnnouncedOnce, Settled
<1> QED BY <1>1, <1>2, <1>3, WaitlistInvAlways, PTL DEF Spec

-----------------------------------------------------------------------------
(* The direction of a status.                                              *)

\* Without the check-in handlers no request holds a row that it will save.
NoCheckin == \A q \in Reqs : ~At(q, "guard") /\ ~At(q, "mark")

\* One step of StatusMovesForward.
MovesForward ==
    \A r \in Regs :
        /\ reg[r].status = "confirmed" => reg'[r].status # "waitlisted"
        /\ reg[r].status = "canceled" => reg'[r].status \in {"canceled", "deleted"}
        /\ reg[r].status = "deleted" => reg'[r].status = "deleted"

LEMMA NoCheckinStep ==
    ASSUME "checkin" \notin Handlers, TypeInv, NoCheckin, [Next]_vars
    PROVE  NoCheckin'
<1>0. TypeOK /\ \A q \in Reqs : req[q] \in ReqState
  BY DEF TypeInv, TypeOK
<1>1. ASSUME NEW q \in Reqs, Step(q) \/ Arrival(q)
      PROVE  NoCheckin'
  <2>1. PICK s : Follows(q, s)
    BY <1>1, StepFollows, ArrivalFollows
  <2>2. s.pc \notin {"guard", "mark"}
    BY <2>1 DEF Follows, ReadForCheckin, Guard, Free, NoCheckin
  <2> QED BY <1>0, <2>1, <2>2 DEF Follows, NoCheckin, At, Become, TypeOK
<1>2. CASE UNCHANGED vars
  BY <1>2 DEF vars, NoCheckin, At
<1>3. CASE (\E c \in Classes : CreateClass(c)) \/ Crash
  <2>1. req' = req \/ req' = [q \in Reqs |-> Idle]
    BY <1>3 DEF CreateClass, Crash
  <2> QED BY <2>1 DEF NoCheckin, At, Idle
<1> QED BY <1>1, <1>2, <1>3 DEF Next

LEMMA NextMovesForward ==
    ASSUME RowsInv, NoCheckin, Next
    PROVE  MovesForward
<1>0. /\ TypeInv /\ TypeOK /\ RowsInserted
      /\ \A q \in Reqs : req[q] \in ReqState
  BY DEF RowsInv, TypeInv, TypeOK
<1>1. ASSUME NEW t \in [Regs -> RegRow], NEW q \in Reqs, NEW c \in Classes, Rebalance(q, t, c),
             \A r \in Regs : \/ t[r].status = reg[r].status
                             \/ t[r].status = "canceled" /\ reg[r].status # "deleted"
      PROVE  MovesForward
  <2>1. PICK P \in Promotions(t, c) :
               /\ P \subseteq Waiting(t, c)
               /\ \A r \in Regs : reg'[r].status = IF r \in P THEN "confirmed" ELSE t[r].status
    BY <1>0, <1>1, RebalanceEffect
  <2>2. \A r \in P : t[r].status = "waitlisted"
    BY <2>1 DEF Waiting
  <2> QED BY <1>1, <2>1, <2>2 DEF MovesForward
<1>2. CASE reg' = reg
  BY <1>2 DEF MovesForward
<1>3. ASSUME NEW q \in Reqs, Insert(q)
      PROVE  MovesForward
  <2>1. \A r \in Regs : reg[r].status # "none" => reg'[r] = reg[r]
    BY <1>0, <1>3 DEF Insert, RowsInserted, TypeOK, Regs
  <2> QED BY <2>1 DEF MovesForward
<1>4. ASSUME NEW q \in Reqs, Delete(q)
      PROVE  MovesForward
  <2>1. \A r \in Regs : reg'[r].status \in {reg[r].status, "deleted"}
    BY <1>0, <1>4 DEF Delete, TypeOK, RegRow
  <2> QED BY <2>1 DEF MovesForward
<1>5. ASSUME NEW q \in Reqs, Live(req[q].class), Rebalance(q, reg, req[q].class)
      PROVE  MovesForward
  BY <1>0, <1>1, <1>5 DEF Live, TypeOK
<1>6. ASSUME NEW q \in Reqs, NEW r \in Regs, Cancel(q, r)
      PROVE  MovesForward
  <2>1. /\ Canceled(r) \in [Regs -> RegRow]
        /\ \A x \in Regs : \/ Canceled(r)[x].status = reg[x].status
                           \/ Canceled(r)[x].status = "canceled" /\ reg[x].status # "deleted"
    BY <1>0, <1>6 DEF Canceled, TypeOK, RegRow, Cancel, Exists
  <2> QED BY <1>1, <1>6, <2>1 DEF Cancel, Live
<1> QED BY <1>2, <1>3, <1>4, <1>5, <1>6, RegistrationSteps DEF NoCheckin, Mark

\* Where nobody is checked in, a registration's status only moves forward, for any
\* number of requests and with every other handler running.  (A check-in under
\* way saves the row it read: it can bring a canceled registration back.)
THEOREM StatusesMoveForward ==
    ASSUME "checkin" \notin Handlers
    PROVE  Spec => StatusMovesForward
<1>1. Init => NoCheckin
  BY DEF Init, NoCheckin, At, Idle
<1>2. WaitlistInv({}) /\ NoCheckin /\ [Next]_vars => NoCheckin'
  BY NoCheckinStep DEF WaitlistInv, RowsInv
<1>3. WaitlistInv({}) /\ NoCheckin /\ [Next]_vars => [MovesForward]_vars
  BY NextMovesForward DEF WaitlistInv
<1>4. [MovesForward]_vars <=>
        [\A r \in Regs :
         /\ reg[r].status = "confirmed" => reg'[r].status # "waitlisted"
         /\ reg[r].status = "canceled" => reg'[r].status \in {"canceled", "deleted"}
         /\ reg[r].status = "deleted" => reg'[r].status = "deleted"]_vars
  BY DEF MovesForward
<1> QED BY <1>1, <1>2, <1>3, <1>4, WaitlistInvAlways, PTL DEF Spec, StatusMovesForward

-----------------------------------------------------------------------------
(* Overbooking.                                                            *)

\* In the request table rq: the check-ins under way, and the registrations of
\* class c about to be inserted as confirmed.
Rechecking(rq) == {q \in Reqs : rq[q].pc \in {"guard", "mark"}}
Inserting(rq, c) ==
    {q \in Reqs : rq[q].pc = "insert" /\ rq[q].class = c /\ rq[q].seat = "confirmed"}

\* The registrations that hold a seat of class c, or will when a check-in saves
\* the row it has read.
Rejoining(rq, t, c) == {r \in {rq[q].reg : q \in Rechecking(rq)} : t[r].class = c}
Claimed(rq, t, c) == Taken(t, c) \cup Rejoining(rq, t, c)

\* No class has, and no request remembers, more seats than the class ever had.
CapsSeen ==
    /\ \A c \in Classes : class[c].cap <= class[c].peak
    /\ \A q \in Reqs : req[q].class \in Classes => req[q].cap <= class[req[q].class].peak

\* Seats taken, seats that check-ins bring back and seats about to be taken.
SeatsBounded(c) ==
    Cardinality(Claimed(req, reg, c)) + Cardinality(Inserting(req, c))
        <= class[c].peak + Cardinality(Reqs) - 1

SeatsInv == CapsSeen /\ \A c \in Classes : SeatsBounded(c)

\* All of these are finite, and a check-in claims one seat at most.
LEMMA ClaimsFinite ==
    ASSUME NEW rq, NEW t, NEW c, \A q \in Rechecking(rq) : rq[q].reg \in Regs
    PROVE  /\ Claimed(rq, t, c) \in SUBSET Regs
           /\ Cardinality(Claimed(rq, t, c)) \in Nat
           /\ Cardinality(Taken(t, c)) \in Nat
           /\ Cardinality(Inserting(rq, c)) \in Nat
           /\ Cardinality(Rechecking(rq)) \in Nat
           /\ Cardinality(Claimed(rq, t, c)) <= Cardinality(Taken(t, c)) + Cardinality(Rechecking(rq))
           /\ Cardinality(Inserting(rq, c)) + Cardinality(Rechecking(rq)) <= Cardinality(Reqs)
           /\ \A q \in Reqs : q \notin Inserting(rq, c) \cup Rechecking(rq) =>
                 Cardinality(Inserting(rq, c)) + Cardinality(Rechecking(rq)) <= Cardinality(Reqs) - 1
<1> DEFINE R == Rechecking(rq)
           I == Inserting(rq, c)
           J == Rejoining(rq, t, c)
           T == Taken(t, c)
           M == {rq[q].reg : q \in R}
<1>1. /\ R \subseteq Reqs /\ IsFiniteSet(R) /\ Cardinality(R) \in Nat
      /\ I \subseteq Reqs /\ IsFiniteSet(I) /\ Cardinality(I) \in Nat
      /\ Cardinality(Reqs) \in Nat
      /\ I \cap R = {}
  <2>1. R \subseteq Reqs /\ I \subseteq Reqs /\ I \cap R = {}
    BY DEF Rechecking, Inserting
  <2> QED BY <2>1, ReqsAssumption, FS_Subset, FS_CardinalityType
<1>2. /\ J \subseteq Regs /\ IsFiniteSet(J) /\ Cardinality(J) \in Nat
      /\ T \subseteq Regs /\ IsFiniteSet(T) /\ Cardinality(T) \in Nat
      /\ T \cup J \subseteq Regs /\ Cardinality(T \cup J) \in Nat
  <2>1. J \subseteq Regs /\ T \subseteq Regs
    BY DEF Rejoining, Taken
  <2> QED BY <2>1, RegsFinite
<1>3. Cardinality(J) <= Cardinality(R)
  <2> DEFINE f == [q \in R |-> rq[q].reg]
  <2>1. f \in Surjection(R, M)
    BY DEF Surjection
  <2>2. IsFiniteSet(M) /\ Cardinality(M) <= Cardinality(R)
    BY <1>1, <2>1, FS_Surjection
  <2>3. J \subseteq M
    BY DEF Rejoining
  <2>4. Cardinality(J) <= Cardinality(M) /\ Cardinality(M) \in Nat
    BY <2>2, <2>3, FS_Subset, FS_CardinalityType
  <2> QED BY <1>1, <1>2, <2>2, <2>4
<1>4. Cardinality(T \cup J) <= Cardinality(T) + Cardinality(R)
  <2>1. Cardinality(T \cup J) = Cardinality(T) + Cardinality(J) - Cardinality(T \cap J)
    BY <1>2, FS_Union
  <2>2. Cardinality(T \cap J) \in Nat
    BY <1>2, RegsFinite
  <2> QED BY <1>1, <1>2, <1>3, <2>1, <2>2
<1>5. /\ IsFiniteSet(I \cup R)
      /\ Cardinality(I \cup R) = Cardinality(I) + Cardinality(R)
  <2>1. /\ IsFiniteSet(I \cup R)
        /\ Cardinality(I \cup R) = Cardinality(I) + Cardinality(R) - Cardinality(I \cap R)
    BY <1>1, FS_Union
  <2>2. Cardinality(I \cap R) = 0
    BY <1>1, FS_EmptySet
  <2> QED BY <1>1, <2>1, <2>2
<1>6. Cardinality(I \cup R) <= Cardinality(Reqs)
  BY <1>1, ReqsAssumption, FS_Subset
<1>7. ASSUME NEW q \in Reqs, q \notin I \cup R
      PROVE  Cardinality(I) + Cardinality(R) <= Cardinality(Reqs) - 1
  <2>1. /\ IsFiniteSet(Reqs \ {q})
        /\ Cardinality(Reqs \ {q}) = Cardinality(Reqs) - 1
    BY ReqsAssumption, FS_RemoveElement
  <2>2. I \cup R \subseteq Reqs \ {q}
    BY <1>1, <1>7
  <2>3. Cardinality(I \cup R) <= Cardinality(Reqs \ {q})
    BY <2>1, <2>2, FS_Subset
  <2> QED BY <1>1, <1>5, <2>1, <2>3
<1> QED BY <1>1, <1>2, <1>4, <1>5, <1>6, <1>7 DEF Claimed

\* A step that lowers no peak and claims no seat it did not claim before.
LEMMA NoNewClaim ==
    ASSUME RowsInv, RowsInv', NEW c \in Classes, SeatsBounded(c),
           class'[c].peak >= class[c].peak,
           Claimed(req', reg', c) \subseteq Claimed(req, reg, c),
           Inserting(req', c) \subseteq Inserting(req, c)
    PROVE  SeatsBounded(c)'
<1>1. /\ \A q \in Rechecking(req) : req[q].reg \in Regs
      /\ class[c].peak \in Nat
  BY BoundsAssumption DEF RowsInv, TypeInv, TypeOK, ClassRow, Memory, Knows, Rechecking
<1>2. /\ \A q \in Rechecking(req') : req'[q].reg \in Regs
      /\ class'[c].peak \in Nat
  BY BoundsAssumption DEF RowsInv, TypeInv, TypeOK, ClassRow, Memory, Knows, Rechecking
<1>3. IsFiniteSet(Claimed(req, reg, c)) /\ IsFiniteSet(Inserting(req, c))
  <2>1. IsFiniteSet(Claimed(req, reg, c))
    BY <1>1, ClaimsFinite, RegsFinite
  <2>2. Inserting(req, c) \subseteq Reqs
    BY DEF Inserting
  <2> QED BY <2>1, <2>2, ReqsAssumption, FS_Subset
<1>4. /\ Cardinality(Claimed(req', reg', c)) <= Cardinality(Claimed(req, reg, c))
      /\ Cardinality(Inserting(req', c)) <= Cardinality(Inserting(req, c))
  BY <1>3, FS_Subset
<1>5. /\ Cardinality(Claimed(req, reg, c)) \in Nat
      /\ Cardinality(Claimed(req', reg', c)) \in Nat
      /\ Cardinality(Inserting(req, c)) \in Nat
      /\ Cardinality(Inserting(req', c)) \in Nat
      /\ Cardinality(Reqs) \in Nat
  BY <1>1, <1>2, ClaimsFinite, ReqsAssumption, FS_CardinalityType
<1> QED BY <1>1, <1>2, <1>4, <1>5 DEF SeatsBounded

\* A class filled no further than it ever was, by a request that has now nothing
\* under way there: what the others claim is one seat each.
LEMMA FilledUp ==
    ASSUME RowsInv, RowsInv', NEW c \in Classes, NEW q \in Reqs,
           q \notin Inserting(req', c) \cup Rechecking(req'),
           Cardinality(Taken(reg', c)) <= class'[c].peak
    PROVE  SeatsBounded(c)'
<1>1. /\ \A p \in Rechecking(req') : req'[p].reg \in Regs
      /\ class'[c].peak \in Nat
  BY BoundsAssumption DEF RowsInv, TypeInv, TypeOK, ClassRow, Memory, Knows, Rechecking
<1>2. Cardinality(Reqs) \in Nat
  BY ReqsAssumption, FS_CardinalityType
<1>3. /\ Cardinality(Claimed(req', reg', c)) \in Nat
      /\ Cardinality(Taken(reg', c)) \in Nat
      /\ Cardinality(Inserting(req', c)) \in Nat
      /\ Cardinality(Rechecking(req')) \in Nat
      /\ Cardinality(Claimed(req', reg', c)) <= Cardinality(Taken(reg', c)) + Cardinality(Rechecking(req'))
      /\ Cardinality(Inserting(req', c)) + Cardinality(Rechecking(req')) <= Cardinality(Reqs) - 1
  BY <1>1, ClaimsFinite
<1> QED BY <1>1, <1>2, <1>3 DEF SeatsBounded

\* A step writes one class row from a form, deletes one, or leaves classes alone.
LEMMA ClassSteps ==
    ASSUME Next
    PROVE  \/ class' = class
           \/ \E e : \E n \in CapacityInput, d \in Days, late \in Evenings \cup {FALSE} :
                 SaveClass(e, n, d, late)
           \/ \E q \in Reqs : Drop(q)
<1>1. ASSUME NEW q \in Reqs, Step(q)
      PROVE  class' = class \/ Save(q) \/ Drop(q)
  BY <1>1 DEF Step, CheckDuplicate, LoadDate, CheckSameDay, LoadClass, TurnedAway,
     CountConfirmed, Insert, Delete, CountRoster, Guard, Mark, Recompute, Notify
<1>2. ASSUME NEW q \in Reqs, Arrival(q)
      PROVE  class' = class
  BY <1>2 DEF Arrival, Submit, Confirm, Cancel, ReadForDelete, ReadForCheckin,
     ReadForUpdate, ReadForDrop
<1> QED BY <1>1, <1>2 DEF Next, Save, CreateClass, Crash

\* A peak only grows, and is a bound of the capacity.
LEMMA PeaksGrow ==
    ASSUME RowsInv, CapsSeen, Next
    PROVE  \A c \in Classes : /\ class'[c].peak >= class[c].peak
                              /\ class'[c].cap <= class'[c].peak
<1>0. /\ TypeOK
      /\ \A c \in Classes : /\ class[c] \in ClassRow
                            /\ class[c].cap \in Nat /\ class[c].peak \in Nat
                            /\ class[c].cap <= class[c].peak
  BY BoundsAssumption DEF RowsInv, TypeInv, TypeOK, ClassRow, CapsSeen
<1>1. ASSUME NEW e, NEW n \in CapacityInput, NEW d, NEW late, SaveClass(e, n, d, late)
      PROVE  \A c \in Classes : /\ class'[c].peak >= class[c].peak
                                /\ class'[c].cap <= class'[c].peak
  <2>1. n \in Nat
    BY BoundsAssumption DEF CapacityInput
  <2>2. \A c \in Classes : c # e => class'[c] = class[c]
    BY <1>0, <1>1 DEF SaveClass, TypeOK
  <2>3. e \in Classes => /\ class'[e].cap = n
                         /\ class'[e].peak = IF n > class[e].peak THEN n ELSE class[e].peak
    BY <1>0, <1>1 DEF SaveClass, TypeOK
  <2> QED BY <1>0, <2>1, <2>2, <2>3
<1>2. ASSUME NEW q \in Reqs, Drop(q)
      PROVE  \A c \in Classes : /\ class'[c].peak = class[c].peak
                                /\ class'[c].cap = class[c].cap
  BY <1>0, <1>2 DEF Drop, TypeOK, ClassRow
<1>3. CASE class' = class
  BY <1>0, <1>3
<1>4. ASSUME NEW q \in Reqs, Drop(q)
      PROVE  \A c \in Classes : /\ class'[c].peak >= class[c].peak
                                /\ class'[c].cap <= class'[c].peak
  BY <1>0, <1>2, <1>4
<1> QED BY <1>1, <1>3, <1>4, ClassSteps

LEMMA CapsSeenStep ==
    ASSUME RowsInv, RowsInv', CapsSeen, Next
    PROVE  CapsSeen'
<1>0. /\ TypeInv /\ TypeOK
      /\ \A c \in Classes : class[c].cap \in Nat /\ class[c].peak \in Nat
      /\ \A c \in Classes : class'[c].cap \in Nat /\ class'[c].peak \in Nat
      /\ \A q \in Reqs : req[q].cap \in Nat
      /\ \A q \in Reqs : req'[q].cap \in Nat
  BY BoundsAssumption DEF RowsInv, TypeInv, TypeOK, ClassRow, ReqState
<1>1. ASSUME NEW q \in Reqs, Step(q) \/ Arrival(q)
      PROVE  \A p \in Reqs : req'[p].class \in Classes =>
                                 req'[p].cap <= class'[req'[p].class].peak
  <2>1. PICK s : Follows(q, s)
    BY <1>0, <1>1, StepFollows, ArrivalFollows
  <2>2. req'[q] = s /\ \A p \in Reqs \ {q} : req'[p] = req[p]
    BY <1>0, <2>1 DEF Follows, Become, TypeOK
  <2>3. ASSUME NEW p \in Reqs \ {q}, req'[p].class \in Classes
        PROVE  req'[p].cap <= class'[req'[p].class].peak
    BY <1>0, <2>2, <2>3, PeaksGrow DEF CapsSeen
  <2>4. ASSUME s.class \in Classes
        PROVE  s.cap <= class'[s.class].peak
    <3>1. \/ s.cap = 0
          \/ s.cap = req[q].cap /\ s.class = req[q].class
          \/ s.cap = class[s.class].cap
      BY <2>1, <2>4 DEF Follows
    <3>2. s.cap \in Nat /\ s.cap <= class[s.class].peak
      BY <1>0, <2>2, <2>4, <3>1 DEF CapsSeen
    <3>3. class'[s.class].peak >= class[s.class].peak
      BY <2>4, PeaksGrow
    <3> QED BY <1>0, <2>4, <3>2, <3>3
  <2> QED BY <2>2, <2>3, <2>4
<1>2. ASSUME NEW c \in Classes, CreateClass(c)
      PROVE  \A p \in Reqs : req'[p].class \in Classes =>
                                 req'[p].cap <= class'[req'[p].class].peak
  <2>1. req' = req
    BY <1>2 DEF CreateClass
  <2> QED BY <1>0, <2>1, PeaksGrow DEF CapsSeen
<1>3. CASE Crash
  <2>1. \A p \in Reqs : req'[p].cap = 0
    BY <1>3 DEF Crash, Idle
  <2> QED BY <1>0, <2>1, PeaksGrow DEF CapsSeen
<1> QED BY <1>1, <1>2, <1>3, PeaksGrow DEF Next, CapsSeen

\* A check-in that is under way after a step has in hand a row that was confirmed
\* before it, or had it in hand then.
LEMMA RejoiningWasClaimed ==
    ASSUME RowsInv, Next, NEW q \in Reqs, NEW s, Follows(q, s), NEW c \in Classes
    PROVE  /\ Rejoining(req', reg', c) \subseteq Claimed(req, reg, c)
           /\ s.pc # "insert" => Inserting(req', c) \subseteq Inserting(req, c)
           /\ q \in Rechecking(req') \cup Inserting(req', c) =>
                 s.pc \in {"guard", "mark", "insert"}
<1>0. /\ TypeOK /\ Memory
      /\ req'[q] = s /\ \A p \in Reqs \ {q} : req'[p] = req[p]
  BY DEF RowsInv, TypeInv, TypeOK, Follows, Become
<1>1. \A p \in Rechecking(req) : req[p].reg \in Regs /\ reg[req[p].reg].status # "none"
  BY <1>0 DEF Memory, Knows, Rechecking, Settled
<1>2. \A r \in Regs : reg[r].status # "none" => reg'[r].class = reg[r].class
  BY SettledLasts
<1>3. ASSUME NEW p \in Rechecking(req'), reg'[req'[p].reg].class = c
      PROVE  req'[p].reg \in Claimed(req, reg, c)
  <2>1. CASE p \in Rechecking(req) /\ req'[p].reg = req[p].reg
    BY <1>1, <1>2, <1>3, <2>1 DEF Claimed, Rejoining
  <2>2. CASE p = q /\ s.pc = "guard"
    <3>1. PICK r \in Regs : ReadForCheckin(q, r) /\ s.reg = r
      BY <2>2 DEF Follows
    <3>2. reg[r].status = "confirmed" /\ reg'[r].class = reg[r].class
      BY <1>2, <3>1 DEF ReadForCheckin, Eligible
    <3> QED BY <1>0, <1>3, <2>2, <3>1, <3>2 DEF Claimed, Taken
  <2>3. p = q /\ s.pc = "mark" => p \in Rechecking(req) /\ req'[p].reg = req[p].reg
    BY <1>0 DEF Follows, Guard, At, Rechecking
  <2>4. p # q => p \in Rechecking(req) /\ req'[p].reg = req[p].reg
    BY <1>0 DEF Rechecking
  <2> QED BY <1>0, <2>1, <2>2, <2>3, <2>4 DEF Rechecking
<1>4. Rejoining(req', reg', c) \subseteq Claimed(req, reg, c)
  BY <1>3 DEF Rejoining
<1> QED BY <1>0, <1>4 DEF Inserting, Rechecking

\* The seat a request is about to take was free when it counted.
LEMMA CountBounded ==
    ASSUME RowsInv, RowsInv', SeatsInv, NEW q \in Reqs, CountConfirmed(q), Next,
           NEW c \in Classes
    PROVE  SeatsBounded(c)'
<1>0. /\ TypeInv /\ TypeOK
      /\ class[c].peak \in Nat
      /\ Cardinality(Taken(reg, c)) \in Nat
      /\ Cardinality(Reqs) \in Nat
      /\ req[q] \in ReqState
      /\ class' = class /\ reg' = reg
  BY RegsFinite, ReqsAssumption, FS_CardinalityType, BoundsAssumption
     DEF RowsInv, TypeInv, TypeOK, ClassRow, Taken, CountConfirmed
<1>1. PICK s : Follows(q, s)
  BY <1>0, StepFollows DEF Step
<1> DEFINE n == Cardinality(Taken(reg, req[q].class))
           z == [req[q] EXCEPT !.pc = "insert", !.cap = 0, !.seat = SeatFor(n, req[q].cap)]
<1>2. /\ z.pc = "insert" /\ z.class = req[q].class /\ z.seat = SeatFor(n, req[q].cap)
      /\ req'[q] = z
  BY <1>0 DEF CountConfirmed, Become, TypeOK, ReqState
<1> HIDE DEF n, z
<1>3. /\ s = req'[q] /\ \A p \in Reqs \ {q} : req'[p] = req[p]
  BY <1>0, <1>1 DEF Follows, Become, TypeOK
<1>4. Claimed(req', reg', c) \subseteq Claimed(req, reg, c)
  BY <1>0, <1>1, RejoiningWasClaimed DEF Claimed
<1>5. CASE q \notin Inserting(req', c)
  <2>1. Inserting(req', c) \subseteq Inserting(req, c)
    BY <1>3, <1>5 DEF Inserting
  <2> QED BY <1>0, <1>4, <2>1, NoNewClaim DEF SeatsInv
<1>6. CASE q \in Inserting(req', c)
  <2>1. req[q].class = c /\ SeatFor(n, req[q].cap) = "confirmed"
    BY <1>2, <1>6 DEF Inserting
  <2>2. n < req[q].cap /\ req[q].cap <= class[c].peak /\ req[q].cap \in Nat
    BY <1>0, <2>1, BoundsAssumption DEF SeatFor, SeatsInv, CapsSeen, ReqState
  <2>3. Cardinality(Taken(reg', c)) < class[c].peak
    BY <1>0, <2>1, <2>2 DEF n
  <2>4. \A p \in Rechecking(req') : req'[p].reg \in Regs
    BY DEF RowsInv, Memory, Knows, Rechecking
  <2>5. /\ Cardinality(Claimed(req', reg', c)) \in Nat
        /\ Cardinality(Inserting(req', c)) \in Nat
        /\ Cardinality(Rechecking(req')) \in Nat
        /\ Cardinality(Claimed(req', reg', c)) <= Cardinality(Taken(reg', c)) + Cardinality(Rechecking(req'))
        /\ Cardinality(Inserting(req', c)) + Cardinality(Rechecking(req')) <= Cardinality(Reqs)
    BY <2>4, ClaimsFinite
  <2> QED BY <1>0, <2>3, <2>5 DEF SeatsBounded
<1> QED BY <1>5, <1>6

\* The seat an insert takes was counted as about to be taken.
LEMMA InsertBounded ==
    ASSUME RowsInv, RowsInv', SeatsInv, NEW q \in Reqs, Insert(q), Next,
           NEW c \in Classes
    PROVE  SeatsBounded(c)'
<1>0. /\ TypeInv /\ TypeOK /\ RowsInserted
      /\ class[c].peak \in Nat
      /\ Cardinality(Reqs) \in Nat
      /\ class' = class
  BY ReqsAssumption, FS_CardinalityType, BoundsAssumption
     DEF RowsInv, TypeInv, TypeOK, ClassRow, Insert
<1> DEFINE new == [status |-> req[q].seat, child |-> req[q].child, class |-> req[q].class, in |-> FALSE]
<1>1. /\ \A r \in Regs : reg'[r] = IF r = nextReg THEN new ELSE reg[r]
      /\ req'[q].pc = "recompute" /\ \A p \in Reqs \ {q} : req'[p] = req[p]
  BY <1>0 DEF Insert, TypeOK, Become, RecomputeOwed, Idle
<1>2. PICK s : Follows(q, s)
  BY <1>0, StepFollows DEF Step
<1>3. Rejoining(req', reg', c) \subseteq Claimed(req, reg, c)
  BY <1>2, RejoiningWasClaimed
<1>4. Inserting(req', c) = Inserting(req, c) \ {q}
  BY <1>1 DEF Inserting
<1>5. CASE req[q].seat # "confirmed" \/ req[q].class # c
  <2>1. Taken(reg', c) \subseteq Taken(reg, c)
    BY <1>1, <1>5 DEF Taken
  <2> QED BY <1>0, <1>3, <1>4, <2>1, NoNewClaim DEF SeatsInv, Claimed
<1>6. CASE req[q].seat = "confirmed" /\ req[q].class = c
  <2>1. q \in Inserting(req, c)
    BY <1>6 DEF Insert, At, Inserting
  <2>2. Claimed(req', reg', c) \subseteq Claimed(req, reg, c) \cup {nextReg}
    BY <1>1, <1>3 DEF Claimed, Taken
  <2>3. /\ \A p \in Rechecking(req) : req[p].reg \in Regs
        /\ \A p \in Rechecking(req') : req'[p].reg \in Regs
    BY DEF RowsInv, Memory, Knows, Rechecking
  <2>4. /\ IsFiniteSet(Claimed(req, reg, c)) /\ Cardinality(Claimed(req, reg, c)) \in Nat
        /\ Cardinality(Claimed(req', reg', c)) \in Nat
        /\ IsFiniteSet(Inserting(req, c)) /\ Cardinality(Inserting(req, c)) \in Nat
    <3>1. Inserting(req, c) \subseteq Reqs
      BY DEF Inserting
    <3> QED BY <2>3, <3>1, ClaimsFinite, RegsFinite, ReqsAssumption, FS_Subset
  <2>5. Cardinality(Claimed(req', reg', c)) <= Cardinality(Claimed(req, reg, c)) + 1
    <3> DEFINE C == Claimed(req, reg, c)
    <3> HIDE DEF C
    <3>1. /\ IsFiniteSet(C \cup {nextReg})
          /\ Cardinality(C \cup {nextReg}) = IF nextReg \in C THEN Cardinality(C)
                                             ELSE Cardinality(C) + 1
      BY <2>4, FS_AddElement DEF C
    <3>2. Cardinality(Claimed(req', reg', c)) <= Cardinality(C \cup {nextReg})
      BY <2>2, <3>1, FS_Subset DEF C
    <3>3. Cardinality(C) \in Nat
      BY <2>4 DEF C
    <3> QED BY <2>4, <3>1, <3>2, <3>3 DEF C
  <2>6. Cardinality(Inserting(req', c)) = Cardinality(Inserting(req, c)) - 1
    BY <1>4, <2>1, <2>4, FS_RemoveElement
  <2>7. SeatsBounded(c)
    BY DEF SeatsInv
  <2> QED BY <1>0, <2>4, <2>5, <2>6, <2>7 DEF SeatsBounded
<1> QED BY <1>5, <1>6

\* A rebalance fills a class up to its capacity, or changes nothing.
LEMMA RebalanceBounded ==
    ASSUME RowsInv, RowsInv', SeatsInv, NEW q \in Reqs, Next, NEW d \in Classes,
           NEW t \in [Regs -> RegRow], Rebalance(q, t, d), class' = class,
           Step(q) \/ Arrival(q),
           \A r \in Regs : /\ t[r].class = reg[r].class
                           /\ t[r].status = "confirmed" => reg[r].status = "confirmed",
           NEW c \in Classes
    PROVE  SeatsBounded(c)'
<1>0. /\ TypeInv /\ TypeOK
      /\ class[c].cap \in Nat /\ class[c].peak \in Nat /\ class[c].cap <= class[c].peak
  BY BoundsAssumption DEF RowsInv, TypeInv, TypeOK, ClassRow, SeatsInv, CapsSeen
<1>1. PICK P \in Promotions(t, d) :
             /\ P \subseteq Waiting(t, d)
             /\ Become(q, Announcing(P))
             /\ Taken(reg', d) = Taken(t, d) \cup P
             /\ \A e \in Classes \ {d} : Taken(reg', e) = Taken(t, e)
  BY <1>0, RebalanceEffect
<1>2. /\ req'[q].pc \in {"idle", "notify"} /\ req'[q] = Announcing(P)
      /\ \A p \in Reqs \ {q} : req'[p] = req[p]
  BY <1>0, <1>1 DEF Become, TypeOK, Announcing, Idle
<1>3. PICK s : Follows(q, s)
  BY <1>0, StepFollows, ArrivalFollows
<1>4. /\ Rejoining(req', reg', c) \subseteq Claimed(req, reg, c)
      /\ Inserting(req', c) \subseteq Inserting(req, c)
      /\ q \notin Rechecking(req') \cup Inserting(req', c)
  <2>1. s.pc \in {"idle", "notify"}
    BY <1>0, <1>2, <1>3 DEF Follows, Become, TypeOK
  <2> QED BY <1>3, <2>1, RejoiningWasClaimed
<1>5. Taken(t, c) \subseteq Taken(reg, c)
  BY DEF Taken
<1>6. CASE c # d \/ P = {}
  <2>1. Taken(reg', c) = Taken(t, c)
    BY <1>1, <1>6
  <2> QED BY <1>0, <1>4, <1>5, <2>1, NoNewClaim DEF SeatsInv, Claimed
<1>7. CASE c = d /\ P # {}
  <2>1. Cardinality(Taken(reg', c)) <= class[c].cap
    BY <1>0, <1>1, <1>7, RebalanceFills
  <2>2. Cardinality(Taken(reg', c)) \in Nat
    BY RegsFinite DEF Taken
  <2> QED BY <1>0, <1>4, <2>1, <2>2, FilledUp
<1> QED BY <1>6, <1>7

LEMMA SeatsInvStep ==
    ASSUME RowsInv, RowsInv', SeatsInv, [Next]_vars
    PROVE  SeatsInv'
<1>0. /\ TypeInv /\ TypeOK /\ RowsInserted /\ Memory
      /\ \A q \in Reqs : req[q] \in ReqState /\ Knows(req[q], class, reg)
  BY DEF RowsInv, TypeInv, TypeOK, Memory
<1>1. CASE UNCHANGED vars
  BY <1>1 DEF vars, SeatsInv, CapsSeen, SeatsBounded
<1>2. ASSUME Next
      PROVE  CapsSeen'
  BY <1>2, CapsSeenStep DEF SeatsInv
<1>3. ASSUME Next, NEW q \in Reqs, Step(q) \/ Arrival(q), NEW c \in Classes,
             Taken(reg', c) \subseteq Claimed(req, reg, c), ~CountConfirmed(q)
      PROVE  SeatsBounded(c)'
  <2>1. PICK s : Follows(q, s)
    BY <1>0, <1>3, StepFollows, ArrivalFollows
  <2>2. s.pc # "insert"
    BY <1>3, <2>1 DEF Follows
  <2>3. class'[c].peak >= class[c].peak
    BY <1>3, PeaksGrow DEF SeatsInv
  <2> QED BY <1>3, <2>1, <2>2, <2>3, RejoiningWasClaimed, NoNewClaim DEF SeatsInv, Claimed
<1>4. ASSUME Next, NEW q \in Reqs, Step(q), NEW c \in Classes
      PROVE  SeatsBounded(c)'
  <2>1. CASE CountConfirmed(q)
    BY <1>4, <2>1, CountBounded
  <2>2. CASE Insert(q)
    BY <1>4, <2>2, InsertBounded
  <2>3. CASE Recompute(q)
    <3>1. CASE Live(req[q].class) /\ Rebalance(q, reg, req[q].class)
      <4>1. class' = class /\ req[q].class \in Classes /\ reg \in [Regs -> RegRow]
        BY <1>0, <2>3, <3>1 DEF Recompute, Live, TypeOK
      <4> QED BY <1>4, <3>1, <4>1, RebalanceBounded
    <3>2. CASE reg' = reg
      BY <1>3, <1>4, <2>3, <3>2 DEF Claimed, Recompute, CountConfirmed, At
    <3> QED BY <2>3, <3>1, <3>2 DEF Recompute
  <2>4. CASE Delete(q)
    <3>1. \A r \in Regs : /\ reg'[r].class = reg[r].class
                          /\ reg'[r].status = "confirmed" => reg[r].status = "confirmed"
      BY <1>0, <2>4 DEF Delete, TypeOK, RegRow
    <3>2. Taken(reg', c) \subseteq Taken(reg, c)
      BY <3>1 DEF Taken
    <3> QED BY <1>3, <1>4, <2>4, <3>2 DEF Claimed, Delete, CountConfirmed, At
  <2>5. CASE Mark(q)
    <3>1. \A r \in Regs : /\ reg'[r].class = reg[r].class
                          /\ r # req[q].reg => reg'[r].status = reg[r].status
      BY <1>0, <2>5 DEF Mark, TypeOK, RegRow
    <3>2. q \in Rechecking(req)
      BY <2>5 DEF Mark, At, Rechecking
    <3>3. Taken(reg', c) \subseteq Taken(reg, c) \cup Rejoining(req, reg, c)
      BY <3>1, <3>2 DEF Taken, Rejoining
    <3> QED BY <1>3, <1>4, <2>5, <3>3 DEF Claimed, Mark, CountConfirmed, At
  <2>6. CASE reg' = reg /\ ~CountConfirmed(q)
    BY <1>3, <1>4, <2>6 DEF Claimed
  <2>7. \/ CountConfirmed(q) \/ Insert(q) \/ Recompute(q) \/ Delete(q) \/ Mark(q)
        \/ reg' = reg
    BY <1>4 DEF Step, CheckDuplicate, LoadDate, CheckSameDay, LoadClass, TurnedAway,
       Save, CountRoster, Drop, Guard, Notify
  <2> QED BY <2>1, <2>2, <2>3, <2>4, <2>5, <2>6, <2>7
<1>5. ASSUME Next, NEW q \in Reqs, Arrival(q), NEW c \in Classes
      PROVE  SeatsBounded(c)'
  <2>0. ~CountConfirmed(q)
    <3>1. req[q].pc = "idle"
      BY <1>5 DEF Arrival, Submit, Confirm, Cancel, ReadForDelete, ReadForCheckin,
         ReadForUpdate, ReadForDrop, Free
    <3> QED BY <3>1 DEF CountConfirmed, At
  <2>1. ASSUME NEW r \in Regs, Cancel(q, r)
        PROVE  SeatsBounded(c)'
    <3>1. /\ Canceled(r) \in [Regs -> RegRow]
          /\ \A x \in Regs : /\ Canceled(r)[x].class = reg[x].class
                             /\ Canceled(r)[x].status = "confirmed" => reg[x].status = "confirmed"
      BY <1>0 DEF Canceled, TypeOK, RegRow
    <3>2. /\ reg[r].class \in Classes /\ class' = class
          /\ Rebalance(q, Canceled(r), reg[r].class)
      BY <2>1 DEF Cancel, Live
    <3> QED BY <1>5, <3>1, <3>2, RebalanceBounded
  <2>2. CASE reg' = reg
    BY <1>3, <1>5, <2>0, <2>2 DEF Claimed
  <2>3. (\E r \in Regs : Cancel(q, r)) \/ reg' = reg
    BY <1>5 DEF Arrival, Submit, Confirm, ReadForDelete, ReadForCheckin, ReadForUpdate,
       ReadForDrop
  <2> QED BY <2>1, <2>2, <2>3
<1>6. ASSUME Next, (\E e \in Classes : CreateClass(e)) \/ Crash, NEW c \in Classes
      PROVE  SeatsBounded(c)'
  <2>1. reg' = reg /\ (req' = req \/ req' = [q \in Reqs |-> Idle])
    BY <1>6 DEF CreateClass, Crash
  <2>2. /\ Rechecking(req') \subseteq Rechecking(req)
        /\ \A q \in Rechecking(req') : req'[q].reg = req[q].reg
        /\ Inserting(req', c) \subseteq Inserting(req, c)
    BY <2>1 DEF Rechecking, Inserting, Idle
  <2>3. Claimed(req', reg', c) \subseteq Claimed(req, reg, c)
    BY <2>1, <2>2 DEF Claimed, Rejoining
  <2> QED BY <1>6, <2>2, <2>3, PeaksGrow, NoNewClaim DEF SeatsInv
<1> QED BY <1>1, <1>2, <1>4, <1>5, <1>6 DEF Next, SeatsInv

LEMMA SeatsInvInit == Init => SeatsInv
<1> SUFFICES ASSUME Init
             PROVE  SeatsInv
  OBVIOUS
<1>1. CapsSeen
  BY DEF Init, CapsSeen, Idle
<1>2. ASSUME NEW c \in Classes
      PROVE  SeatsBounded(c)
  <2>1. Claimed(req, reg, c) = {} /\ Inserting(req, c) = {}
    BY DEF Init, Claimed, Taken, Rejoining, Rechecking, Inserting, Idle
  <2>2. Cardinality({}) = 0
    BY FS_EmptySet
  <2>3. Cardinality(Reqs) \in Nat /\ Cardinality(Reqs) # 0
    BY ReqsAssumption, FS_EmptySet, FS_CardinalityType
  <2>4. class[c].peak = 0
    BY DEF Init
  <2> QED BY <2>1, <2>2, <2>3, <2>4 DEF SeatsBounded
<1> QED BY <1>1, <1>2 DEF SeatsInv

\* N requests at once put no more than N - 1 children too many into a class,
\* measured by the largest capacity it ever had: also when check-ins bring
\* canceled registrations back, the capacity is cut, or the process dies.
THEOREM OverbookingStaysBounded == Spec => []OverbookingBounded
<1>1. WaitlistInv({}) /\ SeatsInv => OverbookingBounded
  <2> SUFFICES ASSUME RowsInv, SeatsInv, NEW c \in Classes
               PROVE  Cardinality(Taken(reg, c)) <= class[c].peak + Cardinality(Reqs) - 1
    BY DEF WaitlistInv, OverbookingBounded
  <2>1. \A q \in Rechecking(req) : req[q].reg \in Regs
    BY DEF RowsInv, Memory, Knows, Rechecking
  <2>2. /\ Claimed(req, reg, c) \in SUBSET Regs
        /\ Cardinality(Claimed(req, reg, c)) \in Nat
        /\ Cardinality(Taken(reg, c)) \in Nat
        /\ Cardinality(Inserting(req, c)) \in Nat
    BY <2>1, ClaimsFinite
  <2>3. Cardinality(Taken(reg, c)) <= Cardinality(Claimed(req, reg, c))
    BY <2>2, RegsFinite, FS_Subset DEF Claimed
  <2>4. class[c].peak \in Nat /\ Cardinality(Reqs) \in Nat
    BY ReqsAssumption, FS_CardinalityType, BoundsAssumption DEF RowsInv, TypeInv, TypeOK, ClassRow
  <2> QED BY <2>2, <2>3, <2>4 DEF SeatsInv, SeatsBounded
<1>2. WaitlistInv({}) /\ WaitlistInv({})' /\ SeatsInv /\ [Next]_vars => SeatsInv'
  BY SeatsInvStep DEF WaitlistInv
<1> QED BY <1>1, <1>2, SeatsInvInit, WaitlistInvAlways, PTL DEF Spec

-----------------------------------------------------------------------------
(* One request at a time.                                                  *)

\* Child k has no place in a class that is held on day d.
FreeOn(k, d) ==
    \A r \in PlacesOf(k) : Live(reg[r].class) => class[reg[r].class].day # d

\* One slot: requests come one at a time.
Alone == \A p, q \in Reqs : p = q

\* Alone, a request may rely on what it has read: the row it checks in is still
\* confirmed.
CheckinInv == \A q \in Reqs :
    req[q].pc \in {"guard", "mark"} => reg[req[q].reg].status = "confirmed"

\* And the day it compares is that of its class, and the child it has found free on
\* that day still is.
SerialInv ==
    /\ \A c \in Classes : Live(c) => class[c].day \in Days
    /\ \A q \in Reqs :
          /\ req[q].pc = "day" => /\ Live(req[q].class)
                                  /\ req[q].day = class[req[q].class].day
          /\ req[q].pc \in {"class", "count", "insert"} =>
                Live(req[q].class) /\ FreeOn(req[q].child, class[req[q].class].day)

\* Classes that are edited keep their midnight.
NeverLate == \A c \in Classes : ~class[c].late

LEMMA NeverLateStep ==
    ASSUME TypeOK, Evenings \subseteq {FALSE}, NeverLate, [Next]_vars
    PROVE  NeverLate'
<1>1. ASSUME NEW e, NEW n, NEW d, NEW late \in {FALSE}, SaveClass(e, n, d, late)
      PROVE  NeverLate'
  BY <1>1 DEF SaveClass, NeverLate, TypeOK
<1>2. ASSUME NEW q \in Reqs, Drop(q)
      PROVE  NeverLate'
  BY <1>2 DEF Drop, NeverLate, TypeOK, ClassRow
<1>3. CASE class' = class
  BY <1>3 DEF NeverLate
<1>4. CASE UNCHANGED vars
  BY <1>3, <1>4 DEF vars
<1> QED BY <1>1, <1>2, <1>3, <1>4, ClassSteps

\* One request alone keeps what it relies on.
LEMMA SerialInvStep ==
    ASSUME Alone, RowsInv, NeverLate, SerialInv, [Next]_vars
    PROVE  SerialInv'
<1>0. /\ TypeInv /\ TypeOK /\ RowsInserted
      /\ \A q \in Reqs : req[q] \in ReqState
  BY DEF RowsInv, TypeInv, TypeOK
<1>1. CASE UNCHANGED vars
  BY <1>1 DEF vars, SerialInv, FreeOn, PlacesOf, Live
<1>2. ASSUME Next, NEW c \in Classes, Live(c)'
      PROVE  class'[c].day \in Days
  <2>1. CASE class' = class
    BY <1>2, <2>1 DEF SerialInv, Live
  <2>2. ASSUME NEW e, NEW n, NEW d \in Days, NEW late, SaveClass(e, n, d, late)
        PROVE  class'[c].day \in Days
    BY <1>0, <1>2, <2>2 DEF SaveClass, SerialInv, TypeOK, Live
  <2>3. ASSUME NEW q \in Reqs, Drop(q)
        PROVE  class'[c].day \in Days
    BY <1>0, <1>2, <2>3 DEF Drop, SerialInv, TypeOK, ClassRow, Live
  <2> QED BY <2>1, <2>2, <2>3, <1>2, ClassSteps
<1> DEFINE Relies(p) ==
      /\ req[p].pc = "day" => Live(req[p].class) /\ req[p].day = class[req[p].class].day
      /\ req[p].pc \in {"class", "count", "insert"} =>
            Live(req[p].class) /\ FreeOn(req[p].child, class[req[p].class].day)
<1>3. ASSUME Next, NEW q \in Reqs, Step(q) \/ Arrival(q)
      PROVE  Relies(q)'
  <2>1. PICK s : Follows(q, s)
    BY <1>0, <1>3, StepFollows, ArrivalFollows
  <2>2. req'[q] = s
    BY <1>0, <2>1 DEF Follows, Become, TypeOK
  <2>4. ASSUME s.pc = "day"
        PROVE  Live(s.class)' /\ s.day = class'[s.class].day
    <3>1. LoadDate(q)
      BY <2>1, <2>4 DEF Follows
    <3> DEFINE z == [req[q] EXCEPT !.pc = "day", !.day = class[req[q].class].day]
    <3>2. z.class = req[q].class /\ z.day = class[req[q].class].day
      BY <1>0 DEF ReqState
    <3>3. Live(req[q].class) /\ req'[q] = z
      BY <1>0, <2>2, <2>4, <3>1 DEF LoadDate, Become, TypeOK, Idle
    <3> HIDE DEF z
    <3> QED BY <2>2, <3>1, <3>2, <3>3 DEF LoadDate, Live
  <2>5. ASSUME s.pc \in {"class", "count", "insert"}
        PROVE  Live(s.class)' /\ FreeOn(s.child, class[s.class].day)'
    <3>1. CheckSameDay(q) \/ LoadClass(q) \/ CountConfirmed(q)
      BY <2>1, <2>5 DEF Follows
    <3>2. class' = class /\ reg' = reg
      BY <3>1 DEF CheckSameDay, LoadClass, CountConfirmed
    <3>3. s.class = req[q].class /\ s.child = req[q].child
      <4>1. CASE CheckSameDay(q)
        <5> DEFINE z == [req[q] EXCEPT !.day = None,
                            !.pc = IF req[q].op = "submit" THEN "count" ELSE "class"]
        <5>1. z.class = req[q].class /\ z.child = req[q].child
          BY <1>0 DEF ReqState
        <5>2. req'[q] = z \/ req'[q] = Idle
          BY <1>0, <4>1 DEF CheckSameDay, Become, TypeOK
        <5> HIDE DEF z
        <5> QED BY <2>2, <2>5, <5>1, <5>2 DEF Idle
      <4>2. CASE LoadClass(q)
        <5> DEFINE z == [req[q] EXCEPT !.pc = "count", !.cap = class[req[q].class].cap]
        <5>1. z.class = req[q].class /\ z.child = req[q].child
          BY <1>0 DEF ReqState
        <5>2. req'[q] = z \/ req'[q] = Idle
          BY <1>0, <4>2 DEF LoadClass, Become, TypeOK
        <5> HIDE DEF z
        <5> QED BY <2>2, <2>5, <5>1, <5>2 DEF Idle
      <4>3. CASE CountConfirmed(q)
        BY <1>0, <2>2, <2>5, <4>3 DEF CountConfirmed, Become, TypeOK, Idle, ReqState
      <4> QED BY <3>1, <4>1, <4>2, <4>3
    <3>4. Live(req[q].class) /\ FreeOn(req[q].child, class[req[q].class].day)
      <4>1. CASE LoadClass(q) \/ CountConfirmed(q)
        BY <4>1 DEF LoadClass, CountConfirmed, At, SerialInv
      <4>2. CASE CheckSameDay(q)
        <5>1. Live(req[q].class) /\ req[q].day = class[req[q].class].day
          BY <4>2 DEF CheckSameDay, At, SerialInv
        <5>2. ASSUME NEW r \in PlacesOf(req[q].child), Live(reg[r].class)
              PROVE  class[reg[r].class].day # req[q].day
          <6>1. WindowOf(reg[r].class) # req[q].day
            BY <1>0, <2>2, <2>5, <4>2, <5>2 DEF CheckSameDay, Become, TypeOK, Idle
          <6>2. WindowOf(reg[r].class) = class[reg[r].class].day
            <7>1. reg[r].class \in Classes /\ class[reg[r].class].day \in Days
              BY <5>2 DEF Live, SerialInv
            <7>2. ~class[reg[r].class].late /\ class[reg[r].class].day \in Int
              BY <7>1, DaysAssumption DEF NeverLate
            <7> QED BY <7>2 DEF WindowOf
          <6> QED BY <6>1, <6>2
        <5> QED BY <5>1, <5>2 DEF FreeOn
      <4> QED BY <3>1, <4>1, <4>2
    <3> QED BY <3>2, <3>3, <3>4 DEF Live, FreeOn, PlacesOf
  <2> QED BY <2>2, <2>4, <2>5
<1>4. ASSUME NEW c \in Classes, CreateClass(c), NEW q \in Reqs
      PROVE  Relies(q)'
  <2>1. /\ class[c].row = "unused" /\ UNCHANGED <<reg, req>>
        /\ \A e \in Classes \ {c} : class'[e] = class[e]
    BY <1>0, <1>4 DEF CreateClass, SaveClass, TypeOK
  <2>2. \A e \in Classes : Live(e) => Live(e)' /\ class'[e] = class[e]
    BY <2>1 DEF Live
  <2>3. \A r \in Regs : reg[r].status # "none" => reg[r].class \in Classes \ {c}
    BY <1>0, <2>1 DEF RowsInserted
  <2>4. \A k, d : FreeOn(k, d) => FreeOn(k, d)'
    BY <2>1, <2>3 DEF FreeOn, PlacesOf, Live, Holding
  <2> QED BY <2>1, <2>2, <2>4 DEF SerialInv, Live
<1>5. ASSUME Crash, NEW q \in Reqs
      PROVE  Relies(q)'
  BY <1>5 DEF Crash, Idle
<1>6. ASSUME Next
      PROVE  \A q \in Reqs : Relies(q)'
  BY <1>3, <1>4, <1>5, <1>6 DEF Next, Alone
<1> QED BY <1>1, <1>2, <1>6 DEF SerialInv

\* Nothing moves between the read of a check-in and its write.
LEMMA CheckinInvStep ==
    ASSUME Alone, RowsInv, CheckinInv, [Next]_vars
    PROVE  CheckinInv'
<1>0. TypeInv /\ TypeOK
  BY DEF RowsInv, TypeInv
<1>1. ASSUME NEW q \in Reqs, Step(q) \/ Arrival(q), req'[q].pc \in {"guard", "mark"}
      PROVE  reg'[req'[q].reg].status = "confirmed"
  <2>1. PICK s : Follows(q, s)
    BY <1>0, <1>1, StepFollows, ArrivalFollows
  <2>2. req'[q] = s
    BY <1>0, <1>1, <2>1 DEF Follows, Become, TypeOK
  <2>3. CASE s.pc = "guard"
    <3>1. PICK r \in Regs : ReadForCheckin(q, r) /\ s.reg = r
      BY <2>1, <2>3 DEF Follows
    <3> QED BY <2>2, <3>1 DEF ReadForCheckin, Eligible
  <2>4. CASE s.pc = "mark"
    <3>1. Guard(q) /\ s.reg = req[q].reg
      BY <2>1, <2>4 DEF Follows
    <3> QED BY <2>2, <3>1 DEF Guard, At, CheckinInv
  <2> QED BY <1>1, <2>2, <2>3, <2>4
<1>2. CASE UNCHANGED vars
  BY <1>2 DEF vars, CheckinInv
<1>3. ASSUME NEW c \in Classes, CreateClass(c)
      PROVE  CheckinInv'
  BY <1>3 DEF CreateClass, CheckinInv
<1>4. CASE Crash
  BY <1>4 DEF Crash, CheckinInv, Idle
<1> QED BY <1>1, <1>2, <1>3, <1>4 DEF Next, Alone, CheckinInv

LEMMA SerialInvAlways ==
    ASSUME Alone, Evenings \subseteq {FALSE}
    PROVE  Spec => [](NeverLate /\ SerialInv)
<1>1. Init => NeverLate /\ SerialInv
  BY DEF Init, NeverLate, SerialInv, Idle, Live
<1>2. WaitlistInv({}) /\ (NeverLate /\ SerialInv) /\ [Next]_vars => (NeverLate /\ SerialInv)'
  BY NeverLateStep, SerialInvStep DEF WaitlistInv, RowsInv, TypeInv
<1> QED BY <1>1, <1>2, WaitlistInvAlways, PTL DEF Spec

\* While requests come one at a time and classes begin at midnight, no
\* registration is made for a child that has a place in the class or in another
\* class of the same day, over any number of registrations, cancellations and
\* class edits.
THEOREM NoSecondPlace ==
    ASSUME Alone, Evenings \subseteq {FALSE}
    PROVE  Spec => NoDoublePlace
<1> DEFINE A == \A r \in Regs : reg[r].status = "none" /\ reg'[r].status # "none" =>
                  \A s \in Regs :
                      ~ /\ reg[s].status \in Holding
                        /\ reg[s].child = reg'[r].child
                        /\ Live(reg[s].class)
                        /\ class[reg[s].class].day = class[reg'[r].class].day
<1>1. ASSUME RowsInv, SerialInv, Next
      PROVE  A
  <2>0. TypeInv /\ TypeOK /\ RowsInserted /\ Memory
    BY <1>1 DEF RowsInv, TypeInv
  <2>1. ASSUME NEW q \in Reqs, Insert(q)
        PROVE  A
    <3>1. \A r \in Regs : reg[r].status = "none" /\ reg'[r].status # "none" =>
             reg'[r].child = req[q].child /\ reg'[r].class = req[q].class
      BY <2>0, <2>1 DEF Insert, TypeOK
    <3>2. FreeOn(req[q].child, class[req[q].class].day)
      BY <1>1, <2>1 DEF SerialInv, Insert, At
    <3> QED BY <3>1, <3>2 DEF FreeOn, PlacesOf
  <2>2. \A r \in Regs : \/ \E q \in Reqs : Insert(q)
                        \/ reg[r].status = "none" => reg'[r].status = "none"
    <3>1. CASE reg' = reg
      BY <3>1
    <3>2. ASSUME NEW q \in Reqs, Delete(q) \/ Mark(q)
          PROVE  \A r \in Regs : reg[r].status = "none" => reg'[r].status = "none"
      <4>1. reg[req[q].reg].status # "none"
        BY <2>0, <3>2 DEF Memory, Knows, Delete, Mark, At, Settled
      <4> QED BY <2>0, <3>2, <4>1 DEF Delete, Mark, TypeOK, RegRow
    <3>3. ASSUME NEW q \in Reqs, NEW t \in [Regs -> RegRow], NEW c \in Classes, Rebalance(q, t, c),
                 \A r \in Regs : reg[r].status = "none" => t[r].status = "none"
          PROVE  \A r \in Regs : reg[r].status = "none" => reg'[r].status = "none"
      BY <2>0, <3>3, RebalanceEffect DEF Waiting
    <3>4. ASSUME NEW q \in Reqs, NEW x \in Regs, Cancel(q, x)
          PROVE  \A r \in Regs : reg[r].status = "none" => reg'[r].status = "none"
      <4>1. /\ Canceled(x) \in [Regs -> RegRow]
            /\ \A r \in Regs : reg[r].status = "none" => Canceled(x)[r].status = "none"
        BY <2>0, <3>4 DEF Canceled, TypeOK, RegRow, Cancel, Exists
      <4> QED BY <3>3, <3>4, <4>1 DEF Cancel, Live
    <3>5. ASSUME NEW q \in Reqs, Live(req[q].class), Rebalance(q, reg, req[q].class)
          PROVE  \A r \in Regs : reg[r].status = "none" => reg'[r].status = "none"
      BY <2>0, <3>3, <3>5 DEF Live, TypeOK
    <3> QED BY <1>1, <3>1, <3>2, <3>4, <3>5, RegistrationSteps
  <2> QED BY <2>1, <2>2
<1>2. WaitlistInv({}) /\ SerialInv /\ [Next]_vars => [A]_vars
  BY <1>1 DEF WaitlistInv
<1>3. NoDoublePlace <=> [][A]_vars
  BY DEF NoDoublePlace
<1> HIDE DEF A
<1> QED BY <1>2, <1>3, SerialInvAlways, WaitlistInvAlways, PTL DEF Spec

\* While requests come one at a time, nobody is checked in who is not confirmed.
THEOREM CheckedInConfirmed ==
    ASSUME Alone
    PROVE  Spec => OnlyConfirmedCheckedIn
<1> DEFINE A == \A r \in Regs : ~reg[r].in /\ reg'[r].in => reg[r].status = "confirmed"
<1>1. ASSUME RowsInv, CheckinInv, Next
      PROVE  A
  <2>0. TypeInv /\ TypeOK /\ RowsInserted
    BY <1>1 DEF RowsInv, TypeInv
  <2>1. ASSUME NEW q \in Reqs, Insert(q) \/ Delete(q)
        PROVE  \A r \in Regs : reg'[r].in => reg[r].in
    BY <2>0, <2>1 DEF Insert, Delete, TypeOK, RegRow
  <2>2. ASSUME NEW q \in Reqs, Mark(q)
        PROVE  A
    <3>1. reg[req[q].reg].status = "confirmed"
      BY <1>1, <2>2 DEF CheckinInv, Mark, At
    <3>2. \A r \in Regs : r # req[q].reg => reg'[r] = reg[r]
      BY <2>0, <2>2 DEF Mark, TypeOK
    <3> QED BY <3>1, <3>2
  <2>3. ASSUME NEW q \in Reqs, NEW t \in [Regs -> RegRow], NEW c, Rebalance(q, t, c),
               \A r \in Regs : t[r].in => reg[r].in
        PROVE  \A r \in Regs : reg'[r].in => reg[r].in
    BY <2>3 DEF Rebalance, Promoted, RegRow
  <2>4. ASSUME NEW q \in Reqs, NEW x \in Regs, Cancel(q, x)
        PROVE  \A r \in Regs : reg'[r].in => reg[r].in
    <3>1. /\ Canceled(x) \in [Regs -> RegRow]
          /\ \A r \in Regs : Canceled(x)[r].in => reg[r].in
      BY <2>0 DEF Canceled, TypeOK, RegRow
    <3> QED BY <2>3, <2>4, <3>1 DEF Cancel
  <2>5. ASSUME NEW q \in Reqs, Rebalance(q, reg, req[q].class)
        PROVE  \A r \in Regs : reg'[r].in => reg[r].in
    BY <2>0, <2>3, <2>5 DEF TypeOK
  <2> QED BY <1>1, <2>1, <2>2, <2>4, <2>5, RegistrationSteps
<1>2. Init => CheckinInv
  BY DEF Init, CheckinInv, Idle
<1>3. WaitlistInv({}) /\ CheckinInv /\ [Next]_vars => CheckinInv' /\ [A]_vars
  BY <1>1, CheckinInvStep DEF WaitlistInv
<1>4. OnlyConfirmedCheckedIn <=> [][A]_vars
  BY DEF OnlyConfirmedCheckedIn
<1> HIDE DEF A
<1> QED BY <1>2, <1>3, <1>4, WaitlistInvAlways, PTL DEF Spec

-----------------------------------------------------------------------------
(* Rows in order.                                                          *)

\* The sequence q has the members of R, oldest first.
Ordered(q, R) ==
    /\ q \in [1..Cardinality(R) -> R]
    /\ \A i, j \in 1..Cardinality(R) : i < j => q[i] < q[j]

\* How many members of R are not younger than x.
UpTo(R, x) == {y \in R : y <= x}

\* The places of the members of R are 1, 2, 3, ...
LEMMA Places ==
    ASSUME NEW R, IsFiniteSet(R), R \subseteq Int
    PROVE  /\ Cardinality(R) \in Nat /\ IsFiniteSet(1..Cardinality(R))
           /\ Cardinality(1..Cardinality(R)) = Cardinality(R)
           /\ \A x \in R : Cardinality(UpTo(R, x)) \in 1..Cardinality(R)
           /\ \A x, y \in R : x < y => Cardinality(UpTo(R, x)) < Cardinality(UpTo(R, y))
<1>0. \A x \in R : x \in Int
  OBVIOUS
<1>1. /\ Cardinality(R) \in Nat /\ IsFiniteSet(1..Cardinality(R))
      /\ Cardinality(1..Cardinality(R)) = Cardinality(R)
  BY FS_CardinalityType, FS_Interval
<1>2. ASSUME NEW x \in R
      PROVE  /\ IsFiniteSet(UpTo(R, x)) /\ Cardinality(UpTo(R, x)) \in Nat
             /\ Cardinality(UpTo(R, x)) \in 1..Cardinality(R)
  <2>1. UpTo(R, x) \in SUBSET R /\ x \in UpTo(R, x)
    BY <1>0 DEF UpTo
  <2>2. /\ IsFiniteSet(UpTo(R, x)) /\ Cardinality(UpTo(R, x)) \in Nat
        /\ Cardinality(UpTo(R, x)) <= Cardinality(R)
    BY <2>1, FS_Subset, FS_CardinalityType
  <2>3. Cardinality(UpTo(R, x)) # 0
    BY <2>1, <2>2, FS_EmptySet
  <2> QED BY <1>1, <2>2, <2>3
<1>3. ASSUME NEW x \in R, NEW y \in R, x < y
      PROVE  Cardinality(UpTo(R, x)) < Cardinality(UpTo(R, y))
  <2>1. ASSUME NEW z \in UpTo(R, x)
        PROVE  z \in UpTo(R, y)
    <3>1. z \in R /\ z <= x
      BY <2>1 DEF UpTo
    <3>2. z \in Int /\ x \in Int /\ y \in Int
      BY <1>0, <3>1
    <3>3. z <= y
      BY <1>3, <3>1, <3>2
    <3> QED BY <3>1, <3>3 DEF UpTo
  <2>2. y \in UpTo(R, y) /\ y \notin UpTo(R, x)
    BY <1>0, <1>3 DEF UpTo
  <2>3. /\ Cardinality(UpTo(R, x)) <= Cardinality(UpTo(R, y))
        /\ Cardinality(UpTo(R, x)) # Cardinality(UpTo(R, y))
    BY <1>2, <2>1, <2>2, FS_Subset
  <2> QED BY <1>2, <2>3
<1> QED BY <1>1, <1>2, <1>3

\* What is in order has every member of R, in its place.
LEMMA InPlace ==
    ASSUME NEW R, IsFiniteSet(R), R \subseteq Int, NEW q, Ordered(q, R)
    PROVE  /\ \A x \in R : \E i \in 1..Cardinality(R) : q[i] = x
           /\ \A i \in 1..Cardinality(R) : i = Cardinality(UpTo(R, q[i]))
<1> DEFINE N == Cardinality(R)
<1>0. N \in Nat /\ IsFiniteSet(1..N) /\ Cardinality(1..N) = N /\ \A x \in R : x \in Int
  BY Places
<1>1. /\ q \in [1..N -> R]
      /\ \A i, j \in 1..N : i < j => q[i] < q[j]
  BY DEF Ordered
<1> HIDE DEF N
<1>2. q \in Injection(1..N, R)
  <2>1. ASSUME NEW i \in 1..N, NEW j \in 1..N, q[i] = q[j]
        PROVE  i = j
    <3>0. q[i] \in R /\ q[j] \in R
      BY <1>1
    <3>1. i \in Int /\ j \in Int
      BY <1>0
    <3>1a. q[i] \in Int /\ q[j] \in Int
      BY <1>0, <3>0
    <3>2. ~(i < j) /\ ~(j < i)
      BY <1>1, <2>1, <3>1a
    <3> QED BY <3>1, <3>2
  <2> QED BY <1>1, <2>1 DEF Injection, IsInjective
<1>3. q \in Surjection(1..N, R)
  BY <1>0, <1>2, FS_Injection DEF N
<1>4. \A x \in R : \E i \in 1..N : q[i] = x
  BY <1>3 DEF Surjection
<1>5. ASSUME NEW i \in 1..N
      PROVE  i = Cardinality(UpTo(R, q[i]))
  <2> DEFINE U == UpTo(R, q[i])
             f == [k \in 1..i |-> q[k]]
  <2>1. \A k \in 1..N : q[k] \in U <=> k \in 1..i
    <3>1. ASSUME NEW k \in 1..N
          PROVE  q[k] <= q[i] <=> k <= i
      <4>0. q[k] \in R /\ q[i] \in R
        BY <1>1
      <4>1. i \in Int /\ k \in Int
        BY <1>0
      <4>2. q[k] \in Int /\ q[i] \in Int
        BY <1>0, <4>0
      <4>3. k < i => q[k] < q[i]
        BY <1>1
      <4>4. i < k => q[i] < q[k]
        BY <1>1
      <4> QED BY <4>1, <4>2, <4>3, <4>4
    <3> QED BY <1>0, <1>1, <3>1 DEF UpTo
  <2>2. \A k \in 1..i : k \in 1..N
    BY <1>0
  <2>3. \A x \in U : \E k \in 1..i : q[k] = x
    BY <1>4, <2>1 DEF UpTo
  <2> HIDE DEF U
  <2>4. f \in Bijection(1..i, U)
    <3>1. f \in [1..i -> U]
      BY <2>1, <2>2
    <3>2. f \in Injection(1..i, U)
      BY <1>2, <2>2, <3>1 DEF Injection, IsInjective
    <3>3. f \in Surjection(1..i, U)
      BY <2>3, <3>1 DEF Surjection
    <3> QED BY <3>2, <3>3 DEF Bijection
  <2>5. IsFiniteSet(1..i) /\ Cardinality(1..i) = i
    BY <1>0, FS_Interval
  <2> QED BY <2>4, <2>5, FS_Bijection DEF U, ExistsBijection
<1> QED BY <1>4, <1>5 DEF N

\* There is one order, and OldestFirst finds it.
LEMMA OldestFirstOrdered ==
    ASSUME NEW R, IsFiniteSet(R), R \subseteq Int
    PROVE  Ordered(OldestFirst(R), R)
<1> DEFINE N == Cardinality(R)
           place == [x \in R |-> Cardinality(UpTo(R, x))]
           queue == [i \in 1..N |-> CHOOSE x \in R : place[x] = i]
<1>0. N \in Nat /\ IsFiniteSet(1..N) /\ Cardinality(1..N) = N /\ \A x \in R : x \in Int
  BY Places
<1>1. /\ place \in [R -> 1..N]
      /\ \A x, y \in R : x < y => place[x] < place[y]
  BY Places
<1> HIDE DEF place, N
<1>2. place \in Injection(R, 1..N)
  <2>1. ASSUME NEW x \in R, NEW y \in R, place[x] = place[y]
        PROVE  x = y
    <3>1. x \in Int /\ y \in Int /\ place[x] \in Int
      BY <1>0, <1>1
    <3>2. ~(x < y) /\ ~(y < x)
      BY <1>1, <2>1, <3>1
    <3> QED BY <3>1, <3>2
  <2> QED BY <1>1, <2>1 DEF Injection, IsInjective
<1>3. place \in Surjection(R, 1..N)
  BY <1>0, <1>2, FS_Injection DEF N
<1>4. \A i \in 1..N : \E x \in R : place[x] = i
  BY <1>3 DEF Surjection
<1>5. \A i \in 1..N : queue[i] \in R /\ place[queue[i]] = i
  BY <1>4
<1>6. queue \in [1..N -> R]
  BY <1>5
<1> HIDE DEF queue
<1>7. ASSUME NEW i \in 1..N, NEW j \in 1..N, i < j
      PROVE  queue[i] < queue[j]
  <2>0. queue[i] \in R /\ queue[j] \in R
    BY <1>5
  <2>1. i \in Int /\ j \in Int
    BY <1>0
  <2>2. queue[i] \in Int /\ queue[j] \in Int
    BY <1>0, <2>0
  <2>3. place[queue[i]] = i /\ place[queue[j]] = j
    BY <1>5
  <2>4. queue[j] # queue[i]
    BY <1>7, <2>1, <2>3
  <2>5. ~(queue[j] < queue[i])
    <3>1. queue[j] < queue[i] => j < i
      BY <1>1, <2>0, <2>3
    <3> QED BY <1>7, <2>1, <3>1
  <2> QED BY <2>2, <2>4, <2>5
<1>8. \E q \in [1..Cardinality(R) -> R] :
        \A i, j \in 1..Cardinality(R) : i < j => q[i] < q[j]
  BY <1>6, <1>7 DEF N
<1> QED BY <1>8 DEF OldestFirst, Ordered

-----------------------------------------------------------------------------
(* Lines.                                                                  *)

\* A row has one place in every order.
LEMMA OneOrder ==
    ASSUME NEW R, IsFiniteSet(R), R \subseteq Int, NEW p, Ordered(p, R), NEW q, Ordered(q, R)
    PROVE  p = q
<1> DEFINE N == Cardinality(R)
<1>1. /\ p \in [1..N -> R] /\ q \in [1..N -> R]
  BY DEF Ordered
<1>2. ASSUME NEW i \in 1..N
      PROVE  p[i] = q[i]
  <2>1. i = Cardinality(UpTo(R, p[i])) /\ i = Cardinality(UpTo(R, q[i]))
    BY InPlace
  <2>2. p[i] \in R /\ q[i] \in R
    BY <1>1
  <2>3. ~(p[i] < q[i]) /\ ~(q[i] < p[i])
    <3>1. Cardinality(UpTo(R, p[i])) \in Int
      BY <2>2, FS_Subset, FS_CardinalityType DEF UpTo
    <3>2. p[i] < q[i] => Cardinality(UpTo(R, p[i])) < Cardinality(UpTo(R, q[i]))
      BY <2>2, Places
    <3>3. q[i] < p[i] => Cardinality(UpTo(R, q[i])) < Cardinality(UpTo(R, p[i]))
      BY <2>2, Places
    <3> QED BY <2>1, <3>1, <3>2, <3>3
  <2>4. p[i] \in Int /\ q[i] \in Int
    BY <2>2
  <2> QED BY <2>3, <2>4
<1> HIDE DEF N
<1>3. p = [i \in 1..N |-> p[i]] /\ q = [i \in 1..N |-> q[i]]
  BY <1>1
<1>4. [i \in 1..N |-> p[i]] = [i \in 1..N |-> q[i]]
  BY <1>2
<1> QED BY <1>3, <1>4

\* What is in order is a sequence.
LEMMA OrderedSeq ==
    ASSUME NEW R, IsFiniteSet(R), NEW q, Ordered(q, R)
    PROVE  q \in Seq(R) /\ Len(q) = Cardinality(R) /\ DOMAIN q = 1..Cardinality(R)
<1>1. Cardinality(R) \in Nat /\ q \in [1..Cardinality(R) -> R]
  BY FS_CardinalityType DEF Ordered
<1>2. q \in Seq(R)
  BY <1>1, SeqDef
<1>3. DOMAIN q = 1..Cardinality(R) /\ DOMAIN q = 1..Len(q) /\ Len(q) \in Nat
  BY <1>1, <1>2, LenProperties
<1>4. Len(q) = Cardinality(R)
  <2>1. Len(q) # 0 => Len(q) <= Cardinality(R)
    <3>1. Len(q) # 0 => Len(q) \in 1..Len(q)
      BY <1>3
    <3> QED BY <1>1, <1>3, <3>1
  <2>2. Cardinality(R) # 0 => Cardinality(R) <= Len(q)
    <3>1. Cardinality(R) # 0 => Cardinality(R) \in 1..Cardinality(R)
      BY <1>1
    <3> QED BY <1>1, <1>3, <3>1
  <2> QED BY <1>1, <1>3, <2>1, <2>2
<1> QED BY <1>2, <1>3, <1>4

\* The youngest goes to the end of the line.
LEMMA AppendYoungest ==
    ASSUME NEW R, IsFiniteSet(R), R \subseteq Int, NEW q, Ordered(q, R),
           NEW t \in Int, \A r \in R : r < t
    PROVE  Ordered(Append(q, t), R \cup {t})
<1> DEFINE N == Cardinality(R)
           M == Cardinality(R \cup {t})
           a == Append(q, t)
<1>1. q \in Seq(R) /\ Len(q) = N /\ N \in Nat /\ q \in [1..N -> R]
  BY OrderedSeq, FS_CardinalityType DEF Ordered
<1>2. t \notin R /\ M = N + 1
  BY FS_AddElement
<1>3. \A i, j \in 1..N : i < j => q[i] < q[j]
  BY DEF Ordered
<1> HIDE DEF N, M
<1>4. /\ a \in Seq(R \cup {t}) /\ Len(a) = N + 1 /\ DOMAIN a = 1..(N + 1)
      /\ \A i \in 1..(N + 1) : a[i] = IF i = N + 1 THEN t ELSE q[i]
  BY <1>1
<1> HIDE DEF a
<1>5. a \in [1..(N + 1) -> R \cup {t}]
  BY <1>4, LenProperties
<1>6. ASSUME NEW i \in 1..(N + 1), NEW j \in 1..(N + 1), i < j
      PROVE  a[i] < a[j]
  <2>1. i \in 1..N /\ i # N + 1
    BY <1>1, <1>6
  <2>2. a[i] = q[i] /\ q[i] \in R
    BY <1>1, <1>4, <2>1
  <2>3. CASE j = N + 1
    BY <1>4, <2>2, <2>3
  <2>4. CASE j # N + 1
    BY <1>1, <1>3, <1>4, <1>6, <2>1, <2>2, <2>4
  <2> QED BY <2>3, <2>4
<1> QED BY <1>2, <1>5, <1>6 DEF Ordered, M, a

\* Whoever leaves the line leaves it in order.
LEMMA RemoveOrdered ==
    ASSUME NEW R, IsFiniteSet(R), R \subseteq Int, NEW q, Ordered(q, R),
           NEW i \in 1..Cardinality(R)
    PROVE  Ordered(W!RemoveAt(q, i), R \ {q[i]})
<1> DEFINE N == Cardinality(R)
           S == R \ {q[i]}
           a == W!RemoveAt(q, i)
<1>1. q \in Seq(R) /\ Len(q) = N /\ N \in Nat /\ q \in [1..N -> R] /\ q[i] \in R
  BY OrderedSeq, FS_CardinalityType DEF Ordered
<1>2. Cardinality(S) = N - 1
  BY <1>1, FS_RemoveElement
<1>3. \A k, j \in 1..N : k < j => q[k] < q[j]
  BY DEF Ordered
<1> HIDE DEF N, S
<1>4. i \in Int /\ 1 <= i /\ i <= N
  BY <1>1 DEF N
<1> DEFINE u == SubSeq(q, 1, i - 1)
           v == SubSeq(q, i + 1, N)
<1>5. /\ u \in Seq(R) /\ Len(u) = i - 1
      /\ \A k \in 1..(i - 1) : u[k] = q[k]
  <2>1. \A k \in 1..(i - 1) : q[k] \in R
    BY <1>1, <1>4
  <2>2. /\ u \in Seq(R) /\ Len(u) = IF 1 <= i - 1 THEN (i - 1) - 1 + 1 ELSE 0
        /\ \A k \in 1..((i - 1) - 1 + 1) : u[k] = q[1 + k - 1]
    BY <1>4, <2>1, SubSeqProperties
  <2> HIDE DEF u
  <2> QED BY <1>4, <2>2
<1>6. /\ v \in Seq(R) /\ Len(v) = N - i
      /\ \A k \in 1..(N - i) : v[k] = q[i + k]
  <2>1. \A k \in (i + 1)..N : q[k] \in R
    BY <1>1, <1>4
  <2>2. /\ v \in Seq(R) /\ Len(v) = IF i + 1 <= N THEN N - (i + 1) + 1 ELSE 0
        /\ \A k \in 1..(N - (i + 1) + 1) : v[k] = q[(i + 1) + k - 1]
    BY <1>1, <1>4, <2>1, SubSeqProperties
  <2> HIDE DEF v
  <2>3. \A k \in 1..(N - i) : (i + 1) + k - 1 = i + k /\ k \in 1..(N - (i + 1) + 1)
    BY <1>1, <1>4
  <2>4. \A k \in 1..(N - i) : v[k] = q[i + k]
    BY <2>2, <2>3
  <2> QED BY <1>1, <1>4, <2>2, <2>4
<1>7. a = u \o v
  BY <1>1 DEF W!RemoveAt
<1> HIDE DEF u, v, a
<1>8. /\ a \in Seq(R) /\ Len(a) = N - 1
      /\ \A k \in 1..(N - 1) : a[k] = IF k < i THEN q[k] ELSE q[k + 1]
  <2>1. /\ a \in Seq(R) /\ Len(a) = (i - 1) + (N - i)
        /\ \A k \in 1..((i - 1) + (N - i)) : a[k] = IF k <= i - 1 THEN u[k] ELSE v[k - (i - 1)]
    BY <1>5, <1>6, <1>7, ConcatProperties
  <2>2. (i - 1) + (N - i) = N - 1
    BY <1>1, <1>4
  <2>3. ASSUME NEW k \in 1..(N - 1)
        PROVE  a[k] = IF k < i THEN q[k] ELSE q[k + 1]
    <3>1. CASE k < i
      <4>1. k \in 1..(i - 1) /\ k <= i - 1
        BY <1>1, <1>4, <3>1
      <4> QED BY <1>5, <2>1, <2>2, <3>1, <4>1
    <3>2. CASE ~(k < i)
      <4>1. k - (i - 1) \in 1..(N - i) /\ ~(k <= i - 1) /\ i + (k - (i - 1)) = k + 1
        BY <1>1, <1>4, <3>2
      <4> QED BY <1>6, <2>1, <2>2, <3>2, <4>1
    <3> QED BY <3>1, <3>2
  <2> QED BY <2>1, <2>2, <2>3
<1>9. ASSUME NEW k \in 1..(N - 1)
      PROVE  /\ a[k] \in S
             /\ \A j \in 1..(N - 1) : k < j => a[k] < a[j]
  <2>1. k \in 1..N /\ k + 1 \in 1..N /\ k \in Int
    BY <1>1
  <2>2. \A j \in 1..N : j # i => q[j] \in S
    <3>1. ASSUME NEW j \in 1..N, j # i
          PROVE  q[j] # q[i]
      <4>1. j < i \/ i < j
        BY <1>1, <1>4, <3>1
      <4>2. q[j] < q[i] \/ q[i] < q[j]
        BY <1>3, <4>1 DEF N
      <4>3. q[j] \in Int /\ q[i] \in Int
        BY <1>1
      <4> QED BY <4>2, <4>3
    <3> QED BY <1>1, <3>1 DEF S
  <2>3. a[k] \in S
    <3>1. CASE k < i
      BY <1>4, <1>8, <2>1, <2>2, <3>1
    <3>2. CASE ~(k < i)
      <4>1. k + 1 # i
        BY <1>4, <2>1, <3>2
      <4> QED BY <1>8, <2>1, <2>2, <3>2, <4>1
    <3> QED BY <3>1, <3>2
  <2>4. ASSUME NEW j \in 1..(N - 1), k < j
        PROVE  a[k] < a[j]
    <3>1. j \in 1..N /\ j + 1 \in 1..N /\ j \in Int
      BY <1>1
    <3>2. CASE j < i
      BY <1>3, <1>4, <1>8, <2>1, <2>4, <3>1, <3>2
    <3>3. CASE k < i /\ ~(j < i)
      <4>1. k < j + 1
        BY <2>1, <2>4, <3>1
      <4> QED BY <1>3, <1>8, <2>1, <3>1, <3>3, <4>1
    <3>4. CASE ~(k < i) /\ ~(j < i)
      <4>1. k + 1 < j + 1
        BY <2>1, <2>4, <3>1
      <4> QED BY <1>3, <1>8, <2>1, <3>1, <3>4, <4>1
    <3>5. k < i \/ ~(j < i) \/ j < i
      OBVIOUS
    <3> QED BY <3>2, <3>3, <3>4
  <2> QED BY <2>3, <2>4
<1>10. a \in [1..(N - 1) -> S]
  <2>1. a \in [1..(N - 1) -> R]
    BY <1>8, LenProperties
  <2> QED BY <1>9, <2>1
<1> QED BY <1>2, <1>9, <1>10 DEF Ordered, S, a

\* The head of the line are the oldest, and the rest stays in order.
LEMMA TakeOldest ==
    ASSUME NEW R, IsFiniteSet(R), R \subseteq Int, NEW q, Ordered(q, R),
           NEW P \in SUBSET R, \A r \in P, s \in R \ P : r < s
    PROVE  /\ {q[i] : i \in 1..Cardinality(P)} = P
           /\ Ordered(SubSeq(q, Cardinality(P) + 1, Cardinality(R)), R \ P)
<1> DEFINE N == Cardinality(R)
           k == Cardinality(P)
<1>1. /\ IsFiniteSet(P) /\ k \in Nat /\ N \in Nat /\ k <= N
      /\ q \in [1..N -> R]
      /\ \A i, j \in 1..N : i < j => q[i] < q[j]
  BY FS_Subset, FS_CardinalityType DEF Ordered
<1>1a. /\ \A x \in R : \E i \in 1..N : q[i] = x
       /\ \A i \in 1..N : i = Cardinality(UpTo(R, q[i]))
  BY InPlace
<1>2. Cardinality(R \ P) = N - k
  <2>1. R \cap P = P
    OBVIOUS
  <2> QED BY <2>1, FS_Difference
<1>3. ASSUME NEW i \in 1..N
      PROVE  q[i] \in P <=> i <= k
  <2> DEFINE U == UpTo(R, q[i])
  <2>1. q[i] \in R /\ i = Cardinality(U) /\ U \in SUBSET R
    <3>1. U \in SUBSET R
      BY DEF UpTo
    <3> QED BY <1>1, <1>1a, <3>1
  <2>2. IsFiniteSet(U) /\ i \in Nat
    BY <1>1, <2>1, FS_Subset
  <2>3. \A y \in R : y \in Int
    OBVIOUS
  <2>4. ASSUME q[i] \in P
        PROVE  i <= k
    <3>1. ASSUME NEW y \in U
          PROVE  y \in P
      <4>1. y \in R /\ y <= q[i] /\ y \in Int /\ q[i] \in Int
        BY <2>1, <2>3 DEF UpTo
      <4>2. ~(q[i] < y)
        BY <4>1
      <4> QED BY <2>4, <4>1, <4>2
    <3> HIDE DEF U
    <3>2. U \in SUBSET P
      BY <3>1
    <3> QED BY <1>1, <2>1, <3>2, FS_Subset
  <2>5. ASSUME q[i] \notin P
        PROVE  ~(i <= k)
    <3>1. ASSUME NEW y \in P \cup {q[i]}
          PROVE  y \in U
      <4>1. y \in R /\ y \in Int /\ q[i] \in Int
        BY <2>1, <2>3
      <4>2. y < q[i] \/ y = q[i]
        BY <2>1, <2>5
      <4>3. y <= q[i]
        BY <4>1, <4>2
      <4> QED BY <4>1, <4>3 DEF UpTo
    <3> HIDE DEF U
    <3>2. P \cup {q[i]} \in SUBSET U
      BY <3>1
    <3>3. Cardinality(P \cup {q[i]}) = k + 1
      BY <1>1, <2>5, FS_AddElement
    <3>4. k + 1 <= i
      BY <2>1, <2>2, <3>2, <3>3, FS_Subset
    <3> QED BY <1>1, <2>2, <3>4
  <2> QED BY <2>4, <2>5
<1>4. {q[i] : i \in 1..k} = P
  <2>1. \A i \in 1..k : i \in 1..N /\ i <= k
    BY <1>1
  <2>2. \A i \in 1..k : q[i] \in P
    BY <1>3, <2>1
  <2>3. ASSUME NEW x \in P
        PROVE  \E i \in 1..k : q[i] = x
    <3>1. PICK i \in 1..N : q[i] = x
      BY <1>1a
    <3>2. i <= k
      BY <1>3, <3>1
    <3>3. i \in 1..k
      BY <1>1, <3>2
    <3> QED BY <3>1, <3>3
  <2> HIDE DEF k
  <2> QED BY <2>2, <2>3
<1> DEFINE v == SubSeq(q, k + 1, N)
<1> HIDE DEF N, k
<1>5. /\ v \in Seq(R) /\ Len(v) = N - k
      /\ \A i \in 1..(N - k) : v[i] = q[k + i]
  <2>1. \A i \in (k + 1)..N : q[i] \in R
    BY <1>1
  <2>2. /\ v \in Seq(R) /\ Len(v) = IF k + 1 <= N THEN N - (k + 1) + 1 ELSE 0
        /\ \A i \in 1..(N - (k + 1) + 1) : v[i] = q[(k + 1) + i - 1]
    BY <1>1, <2>1, SubSeqProperties
  <2> HIDE DEF v
  <2>3. \A i \in 1..(N - k) : (k + 1) + i - 1 = k + i /\ i \in 1..(N - (k + 1) + 1)
    BY <1>1
  <2>4. \A i \in 1..(N - k) : v[i] = q[k + i]
    BY <2>2, <2>3
  <2> QED BY <1>1, <2>2, <2>4
<1> HIDE DEF v
<1>6. ASSUME NEW i \in 1..(N - k)
      PROVE  /\ v[i] \in R \ P
             /\ \A j \in 1..(N - k) : i < j => v[i] < v[j]
  <2>1. \A j \in 1..(N - k) : k + j \in 1..N /\ ~(k + j <= k) /\ j \in Int
    BY <1>1
  <2>2. \A j \in 1..(N - k) : i < j => k + i < k + j
    BY <1>1, <2>1
  <2> QED BY <1>1, <1>3, <1>5, <2>1, <2>2
<1>7. v \in [1..(N - k) -> R \ P]
  <2>1. v \in [1..(N - k) -> R]
    BY <1>5, LenProperties
  <2> QED BY <1>6, <2>1
<1>8. Ordered(v, R \ P)
  BY <1>2, <1>6, <1>7 DEF Ordered
<1> QED BY <1>4, <1>8 DEF v, N, k

\* The k oldest of R, as the one member of a set.
Oldest(k, R) == {P \in SUBSET R : Cardinality(P) = k /\ \A r \in P, s \in R \ P : r < s}

LEMMA OldestUnique ==
    ASSUME NEW R, IsFiniteSet(R), R \subseteq Int, NEW k,
           NEW P \in Oldest(k, R), NEW Q \in Oldest(k, R)
    PROVE  P = Q
<1>1. /\ P \in SUBSET R /\ Q \in SUBSET R /\ Cardinality(P) = k /\ Cardinality(Q) = k
      /\ IsFiniteSet(P) /\ IsFiniteSet(Q)
  BY FS_Subset DEF Oldest
<1>2. P \subseteq Q \/ Q \subseteq P
  <2>1. ASSUME NEW x \in P \ Q, NEW y \in Q \ P
        PROVE  FALSE
    <3>1. x < y /\ y < x
      BY <1>1 DEF Oldest
    <3>2. x \in Int /\ y \in Int
      BY <1>1
    <3> QED BY <3>1, <3>2
  <2> QED BY <2>1
<1> QED BY <1>1, <1>2, FS_Subset

LEMMA OldestExist ==
    ASSUME NEW R, IsFiniteSet(R), R \subseteq Int, NEW k \in Nat, k <= Cardinality(R)
    PROVE  Oldest(k, R) # {}
<1> DEFINE N == Cardinality(R)
<1>1. PICK q : Ordered(q, R)
  BY OldestFirstOrdered
<1>2. /\ N \in Nat /\ q \in [1..N -> R] /\ (\A x \in R : x \in Int) /\ k <= N
      /\ \A i, j \in 1..N : i < j => q[i] < q[j]
      /\ \A x \in R : \E i \in 1..N : q[i] = x
  BY <1>1, InPlace, FS_CardinalityType DEF Ordered
<1> HIDE DEF N
<1> DEFINE P == {q[i] : i \in 1..k}
           f == [i \in 1..k |-> q[i]]
<1>3. \A i \in 1..k : i \in 1..N
  BY <1>2
<1>4. P \in SUBSET R
  BY <1>2, <1>3
<1>5. Cardinality(P) = k
  <2>1. f \in [1..k -> P]
    OBVIOUS
  <2>2. ASSUME NEW i \in 1..k, NEW j \in 1..k, f[i] = f[j]
        PROVE  i = j
    <3>1. i \in 1..N /\ j \in 1..N /\ i \in Int /\ j \in Int
      BY <1>2, <1>3
    <3>2. q[i] \in R /\ q[j] \in R
      BY <1>2, <3>1
    <3>3. q[i] \in Int /\ q[j] \in Int /\ q[i] = q[j]
      BY <1>2, <2>2, <3>2
    <3>4. ~(i < j) /\ ~(j < i)
      BY <1>2, <3>1, <3>3
    <3> QED BY <3>1, <3>4
  <2>3. \A x \in P : \E i \in 1..k : f[i] = x
    OBVIOUS
  <2> HIDE DEF P, f
  <2>4. f \in Injection(1..k, P)
    BY <2>1, <2>2 DEF Injection, IsInjective
  <2>5. f \in Surjection(1..k, P)
    BY <2>1, <2>3 DEF Surjection
  <2>6. ExistsBijection(1..k, P)
    BY <2>4, <2>5 DEF Bijection, ExistsBijection
  <2>7. IsFiniteSet(1..k) /\ Cardinality(1..k) = k
    BY FS_Interval
  <2> QED BY <2>6, <2>7, FS_Bijection
<1>6. ASSUME NEW r \in P, NEW s \in R \ P
      PROVE  r < s
  <2>1. PICK i \in 1..k : r = q[i]
    OBVIOUS
  <2>2. PICK j \in 1..N : s = q[j]
    BY <1>2
  <2>3. j \notin 1..k
    BY <2>2
  <2>4. i \in 1..N /\ i < j
    BY <1>2, <1>3, <2>3
  <2> QED BY <1>2, <2>1, <2>2, <2>4
<1> HIDE DEF P
<1>7. P \in Oldest(k, R)
  BY <1>4, <1>5, <1>6 DEF Oldest
<1> QED BY <1>7

-----------------------------------------------------------------------------
(* Enrollment implements Waitlist.                                         *)

\* How many of those who wait for class c can sit.
CanMove(c) == W!CanSit(class[c].cap, Cardinality(Taken(reg, c)), Cardinality(Waiting(reg, c)))

\* What a request owes is to seat the oldest who wait, as many as there is room for.
DebtsDue ==
    \A c \in Classes : IF Live(c) THEN Promised(c) \in Oldest(CanMove(c), Waiting(reg, c))
                      ELSE Promised(c) = {}

\* What the only request relies on, in state s, of the tables ct (classes) and rt
\* (registrations): the class it has read is there and has the capacity it had, the
\* seat it has worked out is the right one, and nobody is in the class it is about to
\* delete.
LiveIn(ct, c) == c \in Classes /\ ct[c].row = "live"

Relies(s, ct, rt) ==
    /\ s.pc \in {"dup", "date", "day"} /\ s.op = "submit" =>
          LiveIn(ct, s.class) /\ s.cap = ct[s.class].cap
    /\ s.pc = "count" => LiveIn(ct, s.class) /\ s.cap = ct[s.class].cap
    /\ s.pc = "insert" =>
          /\ LiveIn(ct, s.class)
          /\ s.seat = SeatFor(Cardinality(Taken(rt, s.class)), ct[s.class].cap)
    /\ s.pc \in {"save", "roster", "drop"} => LiveIn(ct, s.class)
    /\ s.pc = "drop" => Taken(rt, s.class) = {} /\ Waiting(rt, s.class) = {}

\* Whoever has a place has it in a class that exists.
HoldersLive == \A r \in Regs : reg[r].status \in Holding => Live(reg[r].class)

LineInv ==
    /\ lost = {}
    /\ HoldersLive
    /\ \A q \in Reqs : Relies(req[q], class, reg)

\* A table that says Oldest of the members of Waiting: what one recompute promotes.
LEMMA PromotionsAreOldest ==
    ASSUME TypeInv, NEW t, NEW c \in Classes
    PROVE  Promotions(t, c) = Oldest(W!CanSit(class[c].cap, Cardinality(Taken(t, c)),
                                              Cardinality(Waiting(t, c))), Waiting(t, c))
<1> DEFINE n == class[c].cap
           s == Cardinality(Taken(t, c))
           l == Cardinality(Waiting(t, c))
           k == W!CanSit(n, s, l)
<1>1. n \in Nat /\ s \in Nat /\ l \in Nat
  BY RegsFinite, BoundsAssumption DEF TypeInv, TypeOK, ClassRow, Taken, Waiting
<1>2. Slots(t, c) = IF n > s THEN n - s ELSE 0
  BY DEF Slots
<1>3. k = IF n <= s THEN 0 ELSE IF n - s < l THEN n - s ELSE l
  BY DEF W!CanSit
<1>4. ASSUME NEW P \in SUBSET Waiting(t, c)
      PROVE  /\ Cardinality(P) <= Slots(t, c)
             /\ P # Waiting(t, c) => Cardinality(P) = Slots(t, c)
             <=> Cardinality(P) = k
  <2>1. /\ Cardinality(P) \in Nat /\ Cardinality(P) <= l
        /\ Cardinality(P) = l => P = Waiting(t, c)
    BY RegsFinite, FS_Subset DEF Waiting
  <2>2. P = Waiting(t, c) => Cardinality(P) = l
    OBVIOUS
  <2> HIDE DEF n, s, l, k
  <2> QED BY <1>1, <1>2, <1>3, <2>1, <2>2
<1> HIDE DEF k
<1>5. ASSUME NEW P
      PROVE  P \in Promotions(t, c) <=> P \in Oldest(k, Waiting(t, c))
  BY <1>4 DEF Promotions, Oldest
<1> QED BY <1>5 DEF k, Promotions, Oldest

\* A recompute always has somebody to promote, be it nobody.
LEMMA PromotionsExist ==
    ASSUME TypeInv, NEW t, NEW c \in Classes
    PROVE  Promotions(t, c) # {}
<1> DEFINE n == class[c].cap
           s == Cardinality(Taken(t, c))
           l == Cardinality(Waiting(t, c))
           k == W!CanSit(n, s, l)
<1>1. n \in Nat /\ s \in Nat /\ l \in Nat
  BY RegsFinite, BoundsAssumption DEF TypeInv, TypeOK, ClassRow, Taken, Waiting
<1>2. k = IF n <= s THEN 0 ELSE IF n - s < l THEN n - s ELSE l
  BY DEF W!CanSit
<1>3. k \in Nat /\ k <= l
  <2> HIDE DEF n, s, l, k
  <2> QED BY <1>1, <1>2
<1>4. IsFiniteSet(Waiting(t, c)) /\ Waiting(t, c) \subseteq Int
  BY RegsFinite DEF Waiting, Regs
<1> HIDE DEF k
<1>5. Oldest(k, Waiting(t, c)) # {}
  BY <1>3, <1>4, OldestExist
<1> QED BY <1>5, PromotionsAreOldest DEF k

\* Debts are what recomputes will do, if no class with a free seat beside a waiting
\* child has been forgotten.
LEMMA DebtsAreDue == WaitlistInv({}) /\ lost = {} => DebtsDue
<1> SUFFICES ASSUME TypeInv, Noticed({}), lost = {}, NEW c \in Classes
             PROVE  IF Live(c) THEN Promised(c) \in Oldest(CanMove(c), Waiting(reg, c))
                    ELSE Promised(c) = {}
  BY DEF WaitlistInv, RowsInv, DebtsDue
<1>1. CASE ~Live(c)
  BY <1>1 DEF Promised
<1>2. CASE Live(c) /\ Owing(c) # {}
  <2>1. Promised(c) \in Promotions(reg, c)
    BY <1>2, PromotionsExist DEF Promised
  <2> QED BY <1>2, <2>1, PromotionsAreOldest DEF CanMove
<1>3. CASE Live(c) /\ Owing(c) = {}
  <2>1. Promised(c) = {} /\ ~Stranded(c)
    BY <1>3 DEF Promised, Noticed
  <2>2. /\ class[c].cap \in Nat /\ Cardinality(Taken(reg, c)) \in Nat
        /\ Cardinality(Waiting(reg, c)) \in Nat
        /\ Waiting(reg, c) = {} => Cardinality(Waiting(reg, c)) = 0
    BY RegsFinite, FS_EmptySet, BoundsAssumption DEF TypeInv, TypeOK, ClassRow, Taken, Waiting
  <2>3. CanMove(c) = 0
    <3>1. Waiting(reg, c) = {} \/ class[c].cap <= Cardinality(Taken(reg, c))
      BY <1>3, <2>1, <2>2 DEF Stranded
    <3> QED BY <2>2, <3>1 DEF CanMove, W!CanSit
  <2> QED BY <1>3, <2>1, <2>3, FS_EmptySet DEF Oldest
<1> QED BY <1>1, <1>2, <1>3

\* Whoever has a place after a step had it before, or gets it by that step.
LEMMA HoldersKept ==
    ASSUME Alone, RowsInv, CheckinInv, Next, NEW r \in Regs, reg'[r].status \in Holding
    PROVE  \/ reg[r].status \in Holding /\ reg'[r].class = reg[r].class
           \/ \E q \in Reqs : Insert(q) /\ reg'[r].class = req[q].class
<1>0. /\ TypeInv /\ TypeOK /\ RowsInserted /\ Memory
      /\ \A q \in Reqs : req[q] \in ReqState /\ Knows(req[q], class, reg)
  BY DEF RowsInv, TypeInv, TypeOK, Memory
<1> DEFINE Kept == reg[r].status \in Holding /\ reg'[r].class = reg[r].class
<1>1. CASE reg' = reg
  BY <1>1
<1>2. ASSUME NEW q \in Reqs, Insert(q)
      PROVE  Kept \/ reg'[r].class = req[q].class
  BY <1>0, <1>2 DEF Insert, TypeOK
<1>3. ASSUME NEW q \in Reqs, Delete(q)
      PROVE  Kept
  BY <1>0, <1>3 DEF Delete, TypeOK, RegRow, Holding
<1>4. ASSUME NEW q \in Reqs, Mark(q)
      PROVE  Kept
  <2>1. reg[req[q].reg].status = "confirmed" /\ req[q].reg \in Regs
    BY <1>0, <1>4 DEF CheckinInv, Mark, At, Knows
  <2> QED BY <1>0, <1>4, <2>1 DEF Mark, TypeOK, RegRow, Holding
<1>5. ASSUME NEW q \in Reqs, NEW t \in [Regs -> RegRow], NEW c \in Classes, Rebalance(q, t, c),
             /\ t[r].status \in Holding => reg[r].status \in Holding
             /\ t[r].class = reg[r].class
      PROVE  Kept
  BY <1>0, <1>5, RebalanceEffect DEF Waiting, Holding
<1>6. ASSUME NEW q \in Reqs, NEW x \in Regs, Cancel(q, x)
      PROVE  Kept
  <2>1. /\ Canceled(x) \in [Regs -> RegRow]
        /\ Canceled(x)[r].status \in Holding => reg[r].status \in Holding
        /\ Canceled(x)[r].class = reg[r].class
    BY <1>0 DEF Canceled, TypeOK, RegRow, Holding
  <2> QED BY <1>5, <1>6, <2>1 DEF Cancel, Live
<1>7. ASSUME NEW q \in Reqs, Live(req[q].class), Rebalance(q, reg, req[q].class)
      PROVE  Kept
  BY <1>0, <1>5, <1>7 DEF Live, TypeOK
<1> QED BY <1>1, <1>2, <1>3, <1>4, <1>6, <1>7, RegistrationSteps

LEMMA HoldersLiveStep ==
    ASSUME Alone, RowsInv, CheckinInv, LineInv, Next
    PROVE  HoldersLive'
<1>0. TypeInv /\ TypeOK /\ HoldersLive
  BY DEF RowsInv, TypeInv, LineInv
<1>1. ASSUME NEW r \in Regs, reg'[r].status \in Holding
      PROVE  Live(reg'[r].class)
  <2>1. CASE reg[r].status \in Holding /\ reg'[r].class = reg[r].class
    BY <1>0, <2>1 DEF HoldersLive
  <2>2. ASSUME NEW q \in Reqs, Insert(q), reg'[r].class = req[q].class
        PROVE  Live(reg'[r].class)
    BY <2>2 DEF LineInv, Relies, LiveIn, Live, Insert, At
  <2> QED BY <1>1, <2>1, <2>2, HoldersKept
<1>2. CASE class' = class
  BY <1>1, <1>2 DEF HoldersLive, Live
<1>3. ASSUME NEW e, NEW n, NEW d, NEW late, SaveClass(e, n, d, late)
      PROVE  HoldersLive'
  <2>1. \A c \in Classes : Live(c) => class'[c].row = "live"
    BY <1>0, <1>3 DEF SaveClass, TypeOK, Live
  <2> QED BY <1>1, <2>1 DEF HoldersLive, Live
<1>4. ASSUME NEW q \in Reqs, Drop(q)
      PROVE  HoldersLive'
  <2>1. /\ reg' = reg /\ Taken(reg, req[q].class) = {} /\ Waiting(reg, req[q].class) = {}
        /\ \A c \in Classes : c # req[q].class => class'[c] = class[c]
    BY <1>0, <1>4 DEF Drop, TypeOK, LineInv, Relies, At
  <2>2. ASSUME NEW r \in Regs, reg[r].status \in Holding
        PROVE  reg[r].class # req[q].class
    BY <2>1, <2>2 DEF Taken, Waiting, Holding
  <2> QED BY <1>1, <2>1, <2>2 DEF HoldersLive, Live
<1> QED BY <1>2, <1>3, <1>4, ClassSteps

\* A request that holds nothing it read has nothing to rely on.
LEMMA NothingToRely ==
    ASSUME NEW s, NEW ct, NEW rt,
           s.pc \in {"idle", "class", "delete", "guard", "mark", "recompute", "notify"}
    PROVE  Relies(s, ct, rt)
  BY DEF Relies, LiveIn, Live

LEMMA ReliesStep ==
    ASSUME RowsInv, LineInv, NEW q \in Reqs, Step(q)
    PROVE  Relies(req'[q], class', reg')
<1>0. /\ TypeOK /\ req[q] \in ReqState /\ Relies(req[q], class, reg) /\ Consistent(req[q])
      /\ \A ct, rt : Relies(Idle, ct, rt)
  <2>1. Idle.pc = "idle"
    BY DEF Idle
  <2> QED BY <2>1, NothingToRely DEF RowsInv, TypeInv, TypeOK, LineInv, OpsConsistent
<1>1. ASSUME NEW s, Become(q, s)
      PROVE  req'[q] = s
  BY <1>0, <1>1 DEF Become, TypeOK
<1>2. ASSUME NEW s, Relies(s, class, reg), Become(q, s) \/ Become(q, Idle), class' = class, reg' = reg
      PROVE  Relies(req'[q], class', reg')
  <2>1. CASE req'[q] = s
    BY <1>2, <2>1
  <2>2. CASE req'[q] = Idle
    BY <1>0, <2>2
  <2> QED BY <1>1, <1>2, <2>1, <2>2
<1>3. CASE CheckDuplicate(q)
  <2> DEFINE s == [req[q] EXCEPT !.pc = "date"]
  <2>1. s.pc = "date" /\ s.op = req[q].op /\ s.class = req[q].class /\ s.cap = req[q].cap
    BY <1>0 DEF ReqState
  <2>2. class' = class /\ reg' = reg /\ (Become(q, s) \/ Become(q, Idle))
    BY <1>3 DEF CheckDuplicate
  <2> HIDE DEF s
  <2>3. Relies(s, class, reg)
    BY <1>0, <1>3, <2>1 DEF Relies, LiveIn, Live, CheckDuplicate, At
  <2> QED BY <1>2, <2>2, <2>3
<1>4. CASE LoadDate(q)
  <2> DEFINE s == [req[q] EXCEPT !.pc = "day", !.day = class[req[q].class].day]
  <2>1. s.pc = "day" /\ s.op = req[q].op /\ s.class = req[q].class /\ s.cap = req[q].cap
    BY <1>0 DEF ReqState
  <2>2. class' = class /\ reg' = reg /\ (Become(q, s) \/ Become(q, Idle))
    BY <1>4 DEF LoadDate
  <2> HIDE DEF s
  <2>3. Relies(s, class, reg)
    BY <1>0, <1>4, <2>1 DEF Relies, LiveIn, Live, LoadDate, At
  <2> QED BY <1>2, <2>2, <2>3
<1>5. CASE CheckSameDay(q)
  <2> DEFINE s == [req[q] EXCEPT !.day = None,
                           !.pc = IF req[q].op = "submit" THEN "count" ELSE "class"]
  <2>1. /\ s.pc = (IF req[q].op = "submit" THEN "count" ELSE "class")
        /\ s.op = req[q].op /\ s.class = req[q].class /\ s.cap = req[q].cap
    BY <1>0 DEF ReqState
  <2>2. class' = class /\ reg' = reg /\ (Become(q, s) \/ Become(q, Idle))
    BY <1>5 DEF CheckSameDay
  <2> HIDE DEF s
  <2>3. Relies(s, class, reg)
    BY <1>0, <1>5, <2>1 DEF Relies, LiveIn, Live, CheckSameDay, At
  <2> QED BY <1>2, <2>2, <2>3
<1>6. CASE LoadClass(q)
  <2> DEFINE s == [req[q] EXCEPT !.pc = "count", !.cap = class[req[q].class].cap]
  <2>1. s.pc = "count" /\ s.class = req[q].class /\ s.cap = class[req[q].class].cap
    BY <1>0 DEF ReqState
  <2>2. /\ class' = class /\ reg' = reg
        /\ (Live(req[q].class) /\ Become(q, s)) \/ Become(q, Idle)
    BY <1>6 DEF LoadClass
  <2> HIDE DEF s
  <2>3. Live(req[q].class) => Relies(s, class, reg)
    BY <2>1 DEF Relies, LiveIn, Live
  <2>4. CASE Live(req[q].class) /\ Become(q, s)
    BY <1>2, <2>2, <2>3, <2>4
  <2> QED BY <1>0, <1>2, <2>2, <2>4
<1>7. CASE CountConfirmed(q)
  <2> DEFINE n == Cardinality(Taken(reg, req[q].class))
             seat == SeatFor(n, req[q].cap)
             s == [req[q] EXCEPT !.pc = "insert", !.cap = 0, !.seat = seat]
  <2>1. s.pc = "insert" /\ s.class = req[q].class /\ s.seat = seat
    BY <1>0 DEF ReqState
  <2>2. class' = class /\ reg' = reg /\ Become(q, s)
    BY <1>7 DEF CountConfirmed
  <2> HIDE DEF s
  <2>3. Live(req[q].class) /\ req[q].cap = class[req[q].class].cap
    BY <1>0, <1>7 DEF Relies, LiveIn, Live, CountConfirmed, At
  <2>4. Relies(s, class, reg)
    BY <2>1, <2>3 DEF Relies, LiveIn, Live
  <2> QED BY <1>2, <2>2, <2>4
<1>8. CASE CountRoster(q)
  <2> DEFINE s == [req[q] EXCEPT !.pc = "drop"]
  <2>1. s.pc = "drop" /\ s.class = req[q].class
    BY <1>0 DEF ReqState
  <2>2. /\ class' = class /\ reg' = reg
        /\ (Roster(req[q].class) = {} /\ Become(q, s)) \/ Become(q, Idle)
    BY <1>8 DEF CountRoster
  <2> HIDE DEF s
  <2>3. Roster(req[q].class) = {} => Relies(s, class, reg)
    <3>1. Roster(req[q].class) = {} =>
             Taken(reg, req[q].class) = {} /\ Waiting(reg, req[q].class) = {}
      BY DEF Roster, Exists, Taken, Waiting
    <3> QED BY <1>0, <1>8, <2>1, <3>1 DEF Relies, CountRoster, At
  <2>4. CASE Roster(req[q].class) = {} /\ Become(q, s)
    BY <1>2, <2>2, <2>3, <2>4
  <2> QED BY <1>0, <1>2, <2>2, <2>4
<1>9. CASE Guard(q)
  <2> DEFINE s == [req[q] EXCEPT !.pc = "mark", !.class = None]
  <2>1. s.pc = "mark"
    BY <1>0 DEF ReqState
  <2>2. Become(q, s) \/ Become(q, Idle)
    BY <1>9 DEF Guard
  <2> HIDE DEF s
  <2> QED BY <1>0, <1>1, <2>1, <2>2, NothingToRely
<1>10. CASE \/ TurnedAway(q) \/ Insert(q) \/ Delete(q) \/ Save(q) \/ Drop(q) \/ Mark(q)
            \/ Recompute(q) \/ Notify(q)
  <2>1. \/ Become(q, Idle)
        \/ Become(q, RecomputeOwed(req[q].class))
        \/ \E P : Become(q, Announcing(P))
    BY <1>10 DEF TurnedAway, Insert, Delete, Save, Drop, Mark, Recompute, Rebalance, Notify
  <2>2. /\ RecomputeOwed(req[q].class).pc = "recompute"
        /\ \A P : Announcing(P).pc \in {"idle", "notify"}
    BY DEF RecomputeOwed, Announcing, Idle
  <2> QED BY <1>0, <1>1, <2>1, <2>2, NothingToRely
<1> QED BY <1>3, <1>4, <1>5, <1>6, <1>7, <1>8, <1>9, <1>10 DEF Step

LEMMA ReliesArrival ==
    ASSUME RowsInv, LineInv, NEW q \in Reqs, Arrival(q)
    PROVE  Relies(req'[q], class', reg')
<1>0. TypeOK
  BY DEF RowsInv, TypeInv
<1>1. ASSUME NEW s, Become(q, s)
      PROVE  req'[q] = s
  BY <1>0, <1>1 DEF Become, TypeOK
<1>2. ASSUME NEW k \in Children, NEW c \in Classes, Submit(q, k, c)
      PROVE  Relies(req'[q], class', reg')
  <2> DEFINE s == [Idle EXCEPT !.op = "submit", !.pc = "dup", !.class = c,
                               !.child = k, !.cap = class[c].cap]
  <2>1. s.pc = "dup" /\ s.class = c /\ s.cap = class[c].cap
    BY DEF Idle
  <2>2. Become(q, s) /\ Live(c) /\ class' = class /\ reg' = reg
    BY <1>2 DEF Submit
  <2> HIDE DEF s
  <2>3. Relies(s, class, reg)
    BY <2>1, <2>2 DEF Relies, LiveIn, Live
  <2> QED BY <1>1, <2>2, <2>3
<1>3. ASSUME NEW k \in Children, NEW c \in Classes, Confirm(q, k, c)
      PROVE  Relies(req'[q], class', reg')
  <2> DEFINE s == [Idle EXCEPT !.op = "confirm", !.pc = "dup", !.class = c, !.child = k]
  <2>1. s.pc = "dup" /\ s.op = "confirm"
    BY DEF Idle
  <2>2. Become(q, s) /\ class' = class /\ reg' = reg
    BY <1>3 DEF Confirm
  <2> HIDE DEF s
  <2>3. Relies(s, class, reg)
    BY <2>1 DEF Relies, LiveIn, Live
  <2> QED BY <1>1, <2>2, <2>3
<1>4. ASSUME NEW r \in Regs, Cancel(q, r) \/ ReadForDelete(q, r) \/ ReadForCheckin(q, r)
      PROVE  Relies(req'[q], class', reg')
  <2>1. \/ \E P : Become(q, Announcing(P))
        \/ Become(q, [Idle EXCEPT !.pc = "delete", !.reg = r, !.class = reg[r].class])
        \/ Become(q, [Idle EXCEPT !.pc = "guard", !.reg = r, !.seat = reg[r].status,
                                  !.class = reg[r].class])
    BY <1>4 DEF Cancel, Rebalance, ReadForDelete, ReadForCheckin
  <2>2. req'[q].pc \in {"idle", "notify", "delete", "guard"}
    <3>1. ASSUME NEW P, Become(q, Announcing(P))
          PROVE  req'[q].pc \in {"idle", "notify"}
      <4>1. req'[q] = Announcing(P)
        BY <1>1, <3>1
      <4> QED BY <4>1 DEF Announcing, Idle
    <3>2. ASSUME NEW s, Become(q, s), s.pc \in {"delete", "guard"}
          PROVE  req'[q].pc \in {"delete", "guard"}
      BY <1>1, <3>2
    <3> QED BY <2>1, <3>1, <3>2 DEF Idle
  <2> QED BY <2>2, NothingToRely
<1>5. ASSUME NEW c \in Classes, ReadForUpdate(q, c) \/ ReadForDrop(q, c)
      PROVE  Relies(req'[q], class', reg')
  <2>1. /\ class' = class /\ reg' = reg /\ Live(c)
        /\ \/ req'[q] = [Idle EXCEPT !.pc = "save", !.class = c]
           \/ req'[q] = [Idle EXCEPT !.pc = "roster", !.class = c]
    BY <1>1, <1>5 DEF ReadForUpdate, ReadForDrop
  <2>2. req'[q].pc \in {"save", "roster"} /\ req'[q].class = c
    BY <2>1 DEF Idle
  <2>3. PICK s : s = req'[q]
    OBVIOUS
  <2>4. Relies(s, class, reg)
    BY <2>1, <2>2, <2>3 DEF Relies, LiveIn, Live
  <2> QED BY <2>1, <2>3, <2>4
<1> QED BY <1>2, <1>3, <1>4, <1>5 DEF Arrival

\* A class that is created was nobody's.
LEMMA ReliesCreate ==
    ASSUME RowsInv, LineInv, NEW c \in Classes, CreateClass(c), NEW q \in Reqs
    PROVE  Relies(req'[q], class', reg')
<1>0. TypeOK /\ Relies(req[q], class, reg)
  BY DEF RowsInv, TypeInv, LineInv
<1>1. /\ req' = req /\ reg' = reg /\ ~Live(c)
      /\ \A d \in Classes : d # c => class'[d] = class[d]
  BY <1>0 DEF CreateClass, SaveClass, TypeOK, Live
<1>2. \A d \in Classes : Live(d) => Live(d)' /\ class'[d] = class[d]
  BY <1>1 DEF Live
<1>3. PICK s : s = req[q]
  OBVIOUS
<1>4. Relies(s, class', reg')
  BY <1>0, <1>1, <1>2, <1>3 DEF Relies, LiveIn, Live
<1> QED BY <1>1, <1>3, <1>4

LEMMA LineInvStep ==
    ASSUME Alone, MaxCrashes = 0, RowsInv, CheckinInv, LineInv, [Next]_vars
    PROVE  LineInv'
<1>1. CASE UNCHANGED vars
  BY <1>1 DEF vars, LineInv, HoldersLive, Live
<1>2. ASSUME Next
      PROVE  ~Crash /\ lost' = {}
  <2>1. crashes = 0
    BY DEF RowsInv, TypeInv, TypeOK
  <2>2. ~Crash
    BY <2>1 DEF Crash
  <2>3. ASSUME NEW q \in Reqs, Step(q) \/ Arrival(q)
        PROVE  lost' \subseteq lost
    BY <2>3 DEF Step, Arrival, CheckDuplicate, LoadDate, CheckSameDay, LoadClass, TurnedAway,
       CountConfirmed, Insert, Delete, Save, CountRoster, Drop, Guard, Mark, Recompute, Notify,
       Submit, Confirm, Cancel, ReadForDelete, ReadForCheckin, ReadForUpdate, ReadForDrop,
       Rebalance
  <2> QED BY <1>2, <2>2, <2>3 DEF Next, CreateClass, LineInv
<1>3. ASSUME Next, NEW q \in Reqs
      PROVE  Relies(req'[q], class', reg')
  BY <1>2, <1>3, ReliesStep, ReliesArrival, ReliesCreate DEF Next, Alone
<1> QED BY <1>1, <1>2, <1>3, HoldersLiveStep DEF LineInv

LEMMA LineInvAlways ==
    ASSUME Alone, MaxCrashes = 0
    PROVE  Spec => [](CheckinInv /\ LineInv)
<1>1. Init => CheckinInv /\ LineInv
  BY NothingToRely DEF Init, CheckinInv, LineInv, HoldersLive, Holding, Idle
<1>2. WaitlistInv({}) /\ (CheckinInv /\ LineInv) /\ [Next]_vars => (CheckinInv /\ LineInv)'
  BY CheckinInvStep, LineInvStep DEF WaitlistInv
<1> QED BY <1>1, <1>2, WaitlistInvAlways, PTL DEF Spec

\* To Waitlist, class d is as it was.
Unmoved(d) == /\ SeatsOf'[d] = SeatsOf[d]
              /\ SeatedOf'[d] = SeatedOf[d]
              /\ LineOf'[d] = LineOf[d]

LEMMA AllUnmoved ==
    ASSUME \A d \in Classes : Unmoved(d)
    PROVE  UNCHANGED W!vars
<1>1. SeatsOf' = SeatsOf
  BY DEF Unmoved, SeatsOf
<1>2. SeatedOf' = SeatedOf
  BY DEF Unmoved, SeatedOf
<1>3. LineOf' = LineOf
  BY DEF Unmoved, LineOf
<1> QED BY <1>1, <1>2, <1>3 DEF W!vars

\* A class whose seats, holders and waitlist stay owes what it owed.
LEMMA SameTables ==
    ASSUME DebtsDue, DebtsDue', NEW d \in Classes,
           class'[d].row = class[d].row, class'[d].cap = class[d].cap,
           Taken(reg', d) = Taken(reg, d), Waiting(reg', d) = Waiting(reg, d)
    PROVE  Unmoved(d)
<1>1. Live(d)' <=> Live(d)
  BY DEF Live
<1>2. Promised(d)' = Promised(d)
  <2>1. CASE ~Live(d)
    BY <1>1, <2>1 DEF DebtsDue
  <2>2. CASE Live(d)
    <3>1. CanMove(d)' = CanMove(d)
      BY DEF CanMove, W!CanSit
    <3>2. /\ Promised(d) \in Oldest(CanMove(d), Waiting(reg, d))
          /\ Promised(d)' \in Oldest(CanMove(d), Waiting(reg, d))
      BY <1>1, <2>2, <3>1 DEF DebtsDue
    <3>3. IsFiniteSet(Waiting(reg, d)) /\ Waiting(reg, d) \subseteq Int
      BY RegsFinite DEF Waiting, Regs
    <3> QED BY <3>2, <3>3, OldestUnique
  <2> QED BY <2>1, <2>2
<1> QED BY <1>1, <1>2 DEF Unmoved, SeatsOf, SeatedOf, LineOf

\* Between two requests, and before the only request has written, nothing is owed.
LEMMA NothingPromised ==
    ASSUME Alone, NEW q \in Reqs, req[q].pc # "recompute", NEW c
    PROVE  Promised(c) = {}
BY DEF Promised, Owing, At, Alone

LEMMA NothingPromisedThen ==
    ASSUME Alone, NEW q \in Reqs, req'[q].pc # "recompute", NEW c
    PROVE  Promised(c)' = {}
BY DEF Promised, Owing, At, Alone

\* Waitlist counts as Enrollment does.
LEMMA SameCount == \A S : W!Cardinality(S) = Cardinality(S)
BY Zenon DEF W!Cardinality, Cardinality

\* A step after which the P oldest of R have joined S in class c, and the others of R
\* wait, is one step of Waitlist.
LEMMA SettleStep ==
    ASSUME NEW c \in Classes, NEW n, NEW S, NEW R \in SUBSET Regs,
           NEW P \in Oldest(W!CanSit(n, Cardinality(S), Cardinality(R)), R),
           Live(c)', class'[c].cap = n,
           Taken(reg', c) \cup Promised(c)' = S \cup P,
           Waiting(reg', c) \ Promised(c)' = R \ P,
           \A d \in Classes \ {c} : Unmoved(d)
    PROVE  W!Settle(c, n, S, OldestFirst(R))
<1>1. IsFiniteSet(R) /\ R \subseteq Int
  BY RegsFinite DEF Regs
<1>2. /\ P \in SUBSET R /\ \A r \in P, s \in R \ P : r < s
      /\ Cardinality(P) = W!CanSit(n, Cardinality(S), Cardinality(R))
  BY DEF Oldest
<1>3. PICK Q : Q = OldestFirst(R)
  OBVIOUS
<1>4. Ordered(Q, R)
  BY <1>1, <1>3, OldestFirstOrdered
<1>5. Len(Q) = Cardinality(R)
  BY <1>1, <1>4, OrderedSeq
<1>6. /\ {Q[i] : i \in 1..Cardinality(P)} = P
      /\ Ordered(SubSeq(Q, Cardinality(P) + 1, Cardinality(R)), R \ P)
  BY <1>1, <1>2, <1>4, TakeOldest
<1>7. SubSeq(Q, Cardinality(P) + 1, Cardinality(R)) = OldestFirst(R \ P)
  <2>1. IsFiniteSet(R \ P) /\ R \ P \subseteq Int
    BY <1>1, FS_Subset
  <2>2. Ordered(OldestFirst(R \ P), R \ P)
    BY <2>1, OldestFirstOrdered
  <2> QED BY <1>6, <2>1, <2>2, OneOrder
<1>8. SeatsOf' = [SeatsOf EXCEPT ![c] = n]
  <2>1. SeatsOf'[c] = n
    BY DEF SeatsOf
  <2> QED BY <2>1 DEF Unmoved, SeatsOf
<1>9. SeatedOf' = [SeatedOf EXCEPT ![c] = S \cup P]
  <2>1. SeatedOf'[c] = S \cup P
    BY DEF SeatedOf
  <2> QED BY <2>1 DEF Unmoved, SeatedOf
<1>10. LineOf' = [LineOf EXCEPT ![c] = OldestFirst(R \ P)]
  <2>1. LineOf'[c] = OldestFirst(R \ P)
    BY DEF LineOf
  <2> QED BY <2>1 DEF Unmoved, LineOf
<1>11. PICK m : m = Cardinality(S) /\ m = W!Cardinality(S)
  BY SameCount
<1>12. PICK l : l = Len(Q)
  OBVIOUS
<1>13. W!CanSit(n, m, l) = Cardinality(P)
  BY <1>2, <1>5, <1>11, <1>12
<1>14. {Q[i] : i \in 1..W!CanSit(n, m, l)} = P
  BY <1>6, <1>13
<1>15. SubSeq(Q, W!CanSit(n, m, l) + 1, l) = OldestFirst(R \ P)
  BY <1>5, <1>7, <1>12, <1>13
<1>16. W!Settle(c, n, S, Q)
  BY <1>8, <1>9, <1>10, <1>11, <1>12, <1>14, <1>15 DEF W!Settle
<1> QED BY <1>3, <1>16

\* What Waitlist sees of a class that owes nothing.
LEMMA NothingOwed ==
    ASSUME NEW c \in Classes, Promised(c) = {}
    PROVE  /\ SeatedOf[c] = Taken(reg, c)
           /\ LineOf[c] = OldestFirst(Waiting(reg, c))
           /\ Ordered(LineOf[c], Waiting(reg, c))
           /\ W!InLine(c) = Waiting(reg, c)
           /\ W!Holders(c) = Taken(reg, c) \cup Waiting(reg, c)
<1>1. PICK R : R = Waiting(reg, c)
  OBVIOUS
<1>2. IsFiniteSet(R) /\ R \subseteq Int
  BY <1>1, RegsFinite DEF Waiting, Regs
<1>3. R \ {} = R
  OBVIOUS
<1>4. SeatedOf[c] = Taken(reg, c) /\ LineOf[c] = OldestFirst(R)
  BY <1>1, <1>3 DEF SeatedOf, LineOf
<1>5. Ordered(LineOf[c], R)
  BY <1>2, <1>4, OldestFirstOrdered
<1>6. PICK Q : Q = LineOf[c]
  OBVIOUS
<1>7. /\ \A x \in R : \E i \in DOMAIN Q : Q[i] = x
      /\ \A i \in DOMAIN Q : Q[i] \in R
  <2>1. Ordered(Q, R) /\ DOMAIN Q = 1..Cardinality(R)
    BY <1>2, <1>5, <1>6, OrderedSeq
  <2>2. \A x \in R : \E i \in 1..Cardinality(R) : Q[i] = x
    BY <1>2, <2>1, InPlace
  <2>3. Q \in [1..Cardinality(R) -> R]
    BY <2>1 DEF Ordered
  <2> QED BY <2>1, <2>2, <2>3
<1>8. {Q[i] : i \in DOMAIN Q} = R
  BY <1>7
<1>9. W!InLine(c) = R
  BY <1>6, <1>8 DEF W!InLine
<1> QED BY <1>1, <1>4, <1>5, <1>9 DEF W!Holders

\* A class that is live is offered, with as many seats as its capacity says.
LEMMA LiveIsOffered ==
    ASSUME TypeInv, NEW c \in Classes
    PROVE  /\ Live(c) => SeatsOf[c] = class[c].cap /\ c \in W!Offered
           /\ ~Live(c) => SeatsOf[c] = NotOffered /\ c \notin W!Offered
           /\ class[c].cap \in Nat
<1>1. class[c].cap \in Nat
  BY BoundsAssumption DEF TypeInv, TypeOK, ClassRow
<1>2. SeatsOf[c] = IF Live(c) THEN class[c].cap ELSE NotOffered
  BY DEF SeatsOf
<1> QED BY <1>1, <1>2 DEF W!Offered, NotOffered

\* Registering: the new row joins the end of the line, and sits down at once exactly
\* if nobody waits and a seat is free.
LEMMA InsertJoins ==
    ASSUME Alone, RowsInv, LineInv, DebtsDue, DebtsDue', NEW q \in Reqs, Insert(q)
    PROVE  W!Next
<1>c. PICK c : c = req[q].class
  OBVIOUS
<1>t. PICK t : t = nextReg
  OBVIOUS
<1>T. PICK T : T = Taken(reg, c)
  OBVIOUS
<1>R. PICK R : R = Waiting(reg, c)
  OBVIOUS
<1>n. PICK n : n = class[c].cap
  OBVIOUS
<1> DEFINE new == [status |-> req[q].seat, child |-> req[q].child, class |-> c, in |-> FALSE]
<1>0. /\ TypeInv /\ TypeOK /\ RowsInserted
      /\ c \in Classes /\ Live(c) /\ req[q].seat = SeatFor(Cardinality(T), n)
      /\ class' = class /\ req[q].pc = "insert"
  BY <1>c, <1>T, <1>n DEF RowsInv, TypeInv, LineInv, Relies, LiveIn, Live, Insert, At
<1>1. t \in Regs /\ t \in Int
  <2>1. nextReg' \in 1..MaxRegs + 1 /\ t \in 1..MaxRegs + 1 /\ nextReg' = t + 1
    BY <1>0, <1>t, InsertType DEF TypeInv, TypeOK, Insert
  <2> QED BY <2>1, BoundsAssumption DEF Regs
<1>2. \A r \in Regs : reg[r].status # "none" => r < t
  BY <1>0, <1>t DEF RowsInserted
<1>3. reg[t].status = "none"
  BY <1>1, <1>2
<1>4. \A r \in Regs : reg'[r] = IF r = t THEN new ELSE reg[r]
  BY <1>c, <1>t, <1>0, <1>1 DEF Insert, TypeOK
<1>5. new.status = req[q].seat /\ new.class = c
  OBVIOUS
<1> HIDE DEF new
<1>6. \A d \in Classes \ {c} : Unmoved(d)
  <2>1. ASSUME NEW d \in Classes \ {c}
        PROVE  Taken(reg', d) = Taken(reg, d) /\ Waiting(reg', d) = Waiting(reg, d)
    BY <1>3, <1>4, <1>5 DEF Taken, Waiting
  <2> QED BY <1>0, <2>1, SameTables
<1>7. \A d : Promised(d) = {}
  BY <1>0, NothingPromised
<1>8. /\ IsFiniteSet(T) /\ Cardinality(T) \in Nat /\ IsFiniteSet(R) /\ Cardinality(R) \in Nat
      /\ R \subseteq Int /\ n \in Nat /\ \A r \in R : r < t
      /\ R \cup {t} \in SUBSET Regs
  BY <1>T, <1>R, <1>n, <1>0, <1>1, <1>2, RegsFinite, LiveIsOffered DEF Taken, Waiting, Regs
<1>9. Append(OldestFirst(R), t) = OldestFirst(R \cup {t})
  <2>1. IsFiniteSet(R \cup {t}) /\ R \cup {t} \subseteq Int
    BY <1>1, <1>8, FS_AddElement
  <2>2. PICK Q : Q = OldestFirst(R)
    OBVIOUS
  <2>3. Ordered(Q, R)
    BY <1>8, <2>2, OldestFirstOrdered
  <2>4. Ordered(Append(Q, t), R \cup {t})
    BY <1>1, <1>8, <2>3, AppendYoungest
  <2>5. Ordered(OldestFirst(R \cup {t}), R \cup {t})
    BY <2>1, OldestFirstOrdered
  <2> QED BY <2>1, <2>2, <2>4, <2>5, OneOrder
<1>10. Live(c)' /\ class'[c].cap = n
  BY <1>n, <1>0 DEF Live
<1>11. W!Settle(c, n, T, OldestFirst(R \cup {t}))
  <2>1. CASE Cardinality(T) < n
    <3>1. req[q].seat = "confirmed"
      BY <1>0, <2>1 DEF SeatFor
    <3>2. CanMove(c) = 0
      <4>1. Promised(c) \in Oldest(CanMove(c), R)
        BY <1>R, <1>0 DEF DebtsDue
      <4> QED BY <1>7, <4>1, FS_EmptySet DEF Oldest
    <3>3. Cardinality(R) = 0
      BY <1>T, <1>R, <1>n, <1>8, <2>1, <3>2 DEF CanMove, W!CanSit
    <3>4. R = {}
      BY <1>8, <3>3, FS_EmptySet
    <3>5. Taken(reg', c) = T \cup {t} /\ Waiting(reg', c) = R
      BY <1>T, <1>R, <1>1, <1>3, <1>4, <1>5, <3>1 DEF Taken, Waiting
    <3>6. Promised(c)' = {}
      <4>1. Promised(c)' \in SUBSET Waiting(reg', c)
        BY <1>0, <1>10 DEF DebtsDue, Oldest
      <4> QED BY <3>4, <3>5, <4>1
    <3> DEFINE P == {t}
    <3>7. P \in Oldest(W!CanSit(n, Cardinality(T), Cardinality(P)), P)
      <4>1. Cardinality(P) = 1
        BY FS_Singleton
      <4>2. W!CanSit(n, Cardinality(T), 1) = 1
        BY <1>8, <2>1 DEF W!CanSit
      <4> QED BY <4>1, <4>2 DEF Oldest
    <3>8. /\ Taken(reg', c) \cup Promised(c)' = T \cup P
          /\ Waiting(reg', c) \ Promised(c)' = P \ P
      BY <3>4, <3>5, <3>6
    <3>9. P \in SUBSET Regs /\ R \cup {t} = P
      BY <1>1, <3>4
    <3> HIDE DEF P
    <3> QED BY <1>0, <1>6, <1>10, <3>7, <3>8, <3>9, SettleStep
  <2>2. CASE ~(Cardinality(T) < n)
    <3>1. req[q].seat = "waitlisted"
      BY <1>0, <2>2 DEF SeatFor
    <3>2. Taken(reg', c) = T /\ Waiting(reg', c) = R \cup {t}
      BY <1>T, <1>R, <1>1, <1>3, <1>4, <1>5, <3>1 DEF Taken, Waiting
    <3>3. PICK P : P = Promised(c)'
      OBVIOUS
    <3>4. P \in Oldest(W!CanSit(n, Cardinality(T), Cardinality(R \cup {t})), R \cup {t})
      <4>1. P \in Oldest(CanMove(c)', Waiting(reg', c))
        BY <1>0, <1>10, <3>3 DEF DebtsDue
      <4>2. CanMove(c)' = W!CanSit(n, Cardinality(T), Cardinality(R \cup {t}))
        BY <1>n, <1>0, <3>2 DEF CanMove, W!CanSit
      <4> QED BY <3>2, <4>1, <4>2
    <3> QED BY <1>0, <1>6, <1>8, <1>10, <3>2, <3>3, <3>4, SettleStep
  <2> QED BY <2>1, <2>2
<1>12. \A d \in Classes : t \notin W!Holders(d)
  <2>1. ASSUME NEW d \in Classes
        PROVE  W!Holders(d) = Taken(reg, d) \cup Waiting(reg, d)
    BY <1>7, NothingOwed
  <2> QED BY <1>3, <2>1 DEF Taken, Waiting
<1>13. SeatsOf[c] = n /\ SeatedOf[c] = T /\ LineOf[c] = OldestFirst(R) /\ c \in W!Offered
  BY <1>T, <1>R, <1>n, <1>0, <1>7, NothingOwed, LiveIsOffered
<1>14. W!Join(c, t)
  BY <1>9, <1>11, <1>12, <1>13 DEF W!Join
<1> QED BY <1>0, <1>1, <1>14 DEF W!Next

\* Whoever leaves frees a seat or a place in the line, and the line moves up.
LEMMA LeaveStep ==
    ASSUME TypeInv, DebtsDue, DebtsDue', NEW c \in Classes, NEW x \in Regs,
           reg[x].status \in Holding, reg[x].class = c, Live(c), class' = class,
           Promised(c) = {},
           NEW P \in Oldest(W!CanSit(class[c].cap, Cardinality(Taken(reg, c) \ {x}),
                                     Cardinality(Waiting(reg, c) \ {x})),
                            Waiting(reg, c) \ {x}),
           Taken(reg', c) \cup Promised(c)' = (Taken(reg, c) \ {x}) \cup P,
           Waiting(reg', c) \ Promised(c)' = (Waiting(reg, c) \ {x}) \ P,
           \A d \in Classes \ {c} : /\ Taken(reg', d) = Taken(reg, d)
                                    /\ Waiting(reg', d) = Waiting(reg, d)
    PROVE  W!Next
<1> DEFINE T == Taken(reg, c)
           R == Waiting(reg, c)
           n == class[c].cap
<1>1. \A d \in Classes \ {c} : Unmoved(d)
  BY SameTables
<1>2. Live(c)' /\ class'[c].cap = n
  BY DEF Live
<1>3. R \in SUBSET Regs /\ R \ {x} \in SUBSET Regs /\ R \subseteq Int
  BY DEF Waiting, Regs
<1>4. IsFiniteSet(R)
  BY <1>3, RegsFinite
<1>5. /\ SeatsOf[c] = n /\ c \in W!Offered
      /\ SeatedOf[c] = T /\ LineOf[c] = OldestFirst(R)
  BY LiveIsOffered, NothingOwed
<1>6. (x \in T /\ x \notin R) \/ (x \in R /\ x \notin T)
  BY DEF Taken, Waiting, Holding
<1> HIDE DEF T, R, n
<1>7. W!Settle(c, n, T \ {x}, OldestFirst(R \ {x}))
  BY <1>1, <1>2, <1>3, SettleStep DEF T, R, n
<1>8. CASE x \in T /\ x \notin R
  <2>1. R \ {x} = R
    BY <1>8
  <2>2. W!Leave(c, x)
    BY <1>5, <1>7, <1>8, <2>1 DEF W!Leave
  <2> QED BY <2>2 DEF W!Next
<1>9. CASE x \in R /\ x \notin T
  <2>1. T \ {x} = T
    BY <1>9
  <2>2. PICK Q : Q = OldestFirst(R)
    OBVIOUS
  <2>3. Ordered(Q, R)
    BY <1>3, <1>4, <2>2, OldestFirstOrdered
  <2>4. PICK i \in 1..Cardinality(R) : Q[i] = x
    BY <1>3, <1>4, <1>9, <2>3, InPlace
  <2>5. Ordered(W!RemoveAt(Q, i), R \ {x})
    BY <1>3, <1>4, <2>3, <2>4, RemoveOrdered
  <2>6. W!RemoveAt(Q, i) = OldestFirst(R \ {x})
    <3>1. IsFiniteSet(R \ {x}) /\ R \ {x} \subseteq Int
      BY <1>3, <1>4, FS_Subset
    <3>2. Ordered(OldestFirst(R \ {x}), R \ {x})
      BY <3>1, OldestFirstOrdered
    <3> QED BY <2>5, <3>1, <3>2, OneOrder
  <2>7. i \in DOMAIN Q
    BY <1>4, <2>3, OrderedSeq
  <2>8. W!Settle(c, n, T, W!RemoveAt(Q, i))
    BY <1>7, <2>1, <2>6
  <2>9. W!Leave(c, x)
    BY <1>5, <2>2, <2>4, <2>7, <2>8 DEF W!Leave
  <2> QED BY <2>9 DEF W!Next
<1> QED BY <1>6, <1>8, <1>9

\* Nothing that Waitlist sees depends on requests alone.
LEMMA NothingMoves ==
    ASSUME DebtsDue, DebtsDue', class' = class,
           \A d \in Classes : /\ Taken(reg', d) = Taken(reg, d)
                              /\ Waiting(reg', d) = Waiting(reg, d)
    PROVE  UNCHANGED W!vars
BY SameTables, AllUnmoved

LEMMA SameRows ==
    ASSUME DebtsDue, DebtsDue', class' = class,
           \A r \in Regs : reg'[r].status = reg[r].status /\ reg'[r].class = reg[r].class
    PROVE  UNCHANGED W!vars
<1>1. \A d \in Classes : Taken(reg', d) = Taken(reg, d) /\ Waiting(reg', d) = Waiting(reg, d)
  BY DEF Taken, Waiting
<1> QED BY <1>1, NothingMoves

\* The recompute pays what is owed: to Waitlist it was paid when the debt was made.
LEMMA RecomputeHidden ==
    ASSUME Alone, TypeInv, TypeInv', DebtsDue, DebtsDue', NEW q \in Reqs, Recompute(q)
    PROVE  UNCHANGED W!vars
<1>c. PICK c : c = req[q].class
  OBVIOUS
<1>0. TypeOK /\ TypeOK' /\ class' = class /\ At(q, "recompute")
  BY DEF TypeInv, Recompute
<1>1. CASE Live(c) /\ Rebalance(q, reg, c)
  <2>0. c \in Classes /\ reg \in [Regs -> RegRow]
    BY <1>0, <1>1 DEF Live, TypeOK
  <2>1. PICK P \in Promotions(reg, c) :
           /\ Become(q, Announcing(P))
           /\ Taken(reg', c) = Taken(reg, c) \cup P
           /\ Waiting(reg', c) = Waiting(reg, c) \ P
           /\ \A d \in Classes \ {c} : /\ Taken(reg', d) = Taken(reg, d)
                                       /\ Waiting(reg', d) = Waiting(reg, d)
    BY <1>1, <2>0, RebalanceEffect
  <2>2. Promised(c) = P
    <3>1. Promised(c) \in Oldest(CanMove(c), Waiting(reg, c))
      BY <1>1, <2>0 DEF DebtsDue
    <3>2. P \in Oldest(CanMove(c), Waiting(reg, c))
      BY <2>0, PromotionsAreOldest DEF CanMove
    <3>3. IsFiniteSet(Waiting(reg, c)) /\ Waiting(reg, c) \subseteq Int
      BY RegsFinite DEF Waiting, Regs
    <3> QED BY <3>1, <3>2, <3>3, OldestUnique
  <2>3. Promised(c)' = {}
    <3>1. req'[q] = Announcing(P)
      BY <1>0, <2>1 DEF Become, TypeOK
    <3>2. Announcing(P).pc # "recompute"
      BY DEF Announcing, Idle
    <3> QED BY <3>1, <3>2, NothingPromisedThen
  <2>4. Unmoved(c)
    <3>1. Live(c)' /\ class'[c].cap = class[c].cap
      BY <1>0, <1>1 DEF Live
    <3>2. SeatsOf'[c] = SeatsOf[c]
      BY <1>1, <2>0, <3>1 DEF SeatsOf
    <3>3. SeatedOf[c] = Taken(reg, c) \cup P /\ SeatedOf'[c] = Taken(reg, c) \cup P
      BY <2>0, <2>1, <2>2, <2>3 DEF SeatedOf
    <3>4. LineOf[c] = OldestFirst(Waiting(reg, c) \ P)
      BY <2>0, <2>2 DEF LineOf
    <3>5. LineOf'[c] = OldestFirst(Waiting(reg, c) \ P)
      <4>1. (Waiting(reg, c) \ P) \ {} = Waiting(reg, c) \ P
        OBVIOUS
      <4>2. LineOf'[c] = OldestFirst((Waiting(reg, c) \ P) \ {})
        BY <2>0, <2>1, <2>3 DEF LineOf
      <4> QED BY <4>1, <4>2
    <3> QED BY <3>2, <3>3, <3>4, <3>5 DEF Unmoved
  <2> QED BY <1>0, <2>1, <2>4, SameTables, AllUnmoved
<1>2. CASE reg' = reg
  BY <1>0, <1>2, SameRows
<1> QED BY <1>c, <1>1, <1>2 DEF Recompute

\* Deleting a registration that holds a place is leaving; another one is nobody's.
LEMMA DeleteLeaves ==
    ASSUME Alone, RowsInv, LineInv, DebtsDue, DebtsDue', NEW q \in Reqs, Delete(q)
    PROVE  W!Next \/ UNCHANGED W!vars
<1>c. PICK c : c = req[q].class
  OBVIOUS
<1>x. PICK x : x = req[q].reg
  OBVIOUS
<1>0. /\ TypeInv /\ TypeOK /\ class' = class /\ req[q].pc = "delete"
      /\ x \in Regs /\ reg[x].class = c /\ reg[x].status # "none"
  BY <1>c, <1>x DEF RowsInv, TypeInv, Memory, Knows, Delete, At
<1>1. \A r \in Regs : /\ reg'[r].class = reg[r].class
                      /\ reg'[r].status = IF r = x THEN "deleted" ELSE reg[r].status
  BY <1>0, <1>x DEF Delete, TypeOK, RegRow
<1>2. CASE reg[x].status \in Holding
  <2>1. Live(c) /\ c \in Classes
    BY <1>0, <1>2 DEF LineInv, HoldersLive, Live
  <2>2. /\ Taken(reg', c) = Taken(reg, c) \ {x}
        /\ Waiting(reg', c) = Waiting(reg, c) \ {x}
        /\ \A d \in Classes \ {c} : /\ Taken(reg', d) = Taken(reg, d)
                                    /\ Waiting(reg', d) = Waiting(reg, d)
    BY <1>0, <1>1 DEF Taken, Waiting
  <2>3. Promised(c) = {}
    BY <1>0, NothingPromised
  <2>4. PICK P : P = Promised(c)'
    OBVIOUS
  <2>5. P \in Oldest(W!CanSit(class[c].cap, Cardinality(Taken(reg, c) \ {x}),
                              Cardinality(Waiting(reg, c) \ {x})),
                     Waiting(reg, c) \ {x})
    <3>1. Live(c)'
      BY <1>0, <2>1 DEF Live
    <3>2. P \in Oldest(CanMove(c)', Waiting(reg', c))
      BY <2>1, <2>4, <3>1 DEF DebtsDue
    <3>3. CanMove(c)' = W!CanSit(class[c].cap, Cardinality(Taken(reg, c) \ {x}),
                                 Cardinality(Waiting(reg, c) \ {x}))
      BY <1>0, <2>2 DEF CanMove, W!CanSit
    <3> QED BY <2>2, <3>2, <3>3
  <2>6. /\ Taken(reg', c) \cup Promised(c)' = (Taken(reg, c) \ {x}) \cup P
        /\ Waiting(reg', c) \ Promised(c)' = (Waiting(reg, c) \ {x}) \ P
    BY <2>2, <2>4
  <2> QED BY <1>0, <1>2, <2>1, <2>2, <2>3, <2>5, <2>6, LeaveStep
<1>3. CASE reg[x].status \notin Holding
  <2>1. \A d \in Classes : Taken(reg', d) = Taken(reg, d) /\ Waiting(reg', d) = Waiting(reg, d)
    BY <1>0, <1>1, <1>3 DEF Taken, Waiting, Holding
  <2> QED BY <1>0, <2>1, NothingMoves
<1> QED BY <1>2, <1>3

\* Canceling a registration that holds a place is leaving; canceling it again is nothing.
LEMMA CancelLeaves ==
    ASSUME Alone, RowsInv, LineInv, DebtsDue, DebtsDue', NEW q \in Reqs, NEW x \in Regs,
           Cancel(q, x)
    PROVE  W!Next \/ UNCHANGED W!vars
<1>c. PICK c : c = reg[x].class
  OBVIOUS
<1>t. PICK t : t = Canceled(x)
  OBVIOUS
<1>0. /\ TypeInv /\ TypeOK /\ class' = class /\ req[q].pc = "idle"
      /\ Live(c) /\ c \in Classes /\ reg[x].status \in {"confirmed", "waitlisted", "canceled"}
      /\ Rebalance(q, t, c)
  BY <1>c, <1>t DEF RowsInv, TypeInv, TypeOK, RegRow, Cancel, Free, Exists, Live
<1>1. t \in [Regs -> RegRow]
  BY <1>t, <1>0 DEF Canceled, TypeOK, RegRow
<1>2. \A r \in Regs : /\ t[r].class = reg[r].class
                      /\ t[r].status = IF r = x THEN "canceled" ELSE reg[r].status
  BY <1>t, <1>0 DEF Canceled, TypeOK, RegRow
<1>3. PICK P \in Promotions(t, c) :
         /\ Become(q, Announcing(P))
         /\ Taken(reg', c) = Taken(t, c) \cup P
         /\ Waiting(reg', c) = Waiting(t, c) \ P
         /\ \A d \in Classes \ {c} : /\ Taken(reg', d) = Taken(t, d)
                                     /\ Waiting(reg', d) = Waiting(t, d)
  BY <1>0, <1>1, RebalanceEffect
<1>4. P \in Oldest(W!CanSit(class[c].cap, Cardinality(Taken(t, c)), Cardinality(Waiting(t, c))),
                   Waiting(t, c))
  BY <1>0, PromotionsAreOldest
<1>5. \A d \in Classes \ {c} : Taken(t, d) = Taken(reg, d) /\ Waiting(t, d) = Waiting(reg, d)
  BY <1>c, <1>2 DEF Taken, Waiting
<1>6. Promised(c) = {}
  BY <1>0, NothingPromised
<1>7. Promised(c)' = {}
  <2>1. req'[q] = Announcing(P)
    BY <1>0, <1>3 DEF Become, TypeOK
  <2>2. Announcing(P).pc # "recompute"
    BY DEF Announcing, Idle
  <2> QED BY <2>1, <2>2, NothingPromisedThen
<1>8. CASE reg[x].status \in Holding
  <2>1. Taken(t, c) = Taken(reg, c) \ {x} /\ Waiting(t, c) = Waiting(reg, c) \ {x}
    BY <1>2 DEF Taken, Waiting
  <2>2. P \in Oldest(W!CanSit(class[c].cap, Cardinality(Taken(reg, c) \ {x}),
                              Cardinality(Waiting(reg, c) \ {x})),
                     Waiting(reg, c) \ {x})
    BY <1>4, <2>1
  <2>3. /\ Taken(reg', c) \cup Promised(c)' = (Taken(reg, c) \ {x}) \cup P
        /\ Waiting(reg', c) \ Promised(c)' = (Waiting(reg, c) \ {x}) \ P
    BY <1>3, <1>7, <2>1
  <2>4. \A d \in Classes \ {c} : /\ Taken(reg', d) = Taken(reg, d)
                                 /\ Waiting(reg', d) = Waiting(reg, d)
    BY <1>3, <1>5
  <2> QED BY <1>c, <1>0, <1>6, <1>8, <2>2, <2>3, <2>4, LeaveStep
<1>9. CASE reg[x].status = "canceled"
  <2>1. Taken(t, c) = Taken(reg, c) /\ Waiting(t, c) = Waiting(reg, c)
    BY <1>2, <1>9 DEF Taken, Waiting
  <2>2. {} \in Oldest(CanMove(c), Waiting(reg, c))
    BY <1>0, <1>6 DEF DebtsDue
  <2>3. P \in Oldest(CanMove(c), Waiting(reg, c))
    BY <1>4, <2>1 DEF CanMove
  <2>4. IsFiniteSet(Waiting(reg, c)) /\ Waiting(reg, c) \subseteq Int
    BY RegsFinite DEF Waiting, Regs
  <2>5. P = {}
    BY <2>2, <2>3, <2>4, OldestUnique
  <2>6. \A d \in Classes : Taken(reg', d) = Taken(reg, d) /\ Waiting(reg', d) = Waiting(reg, d)
    BY <1>3, <1>5, <2>1, <2>5
  <2> QED BY <1>0, <2>6, NothingMoves
<1> QED BY <1>0, <1>8, <1>9 DEF Holding

\* Saving the form of a class gives it another number of seats.
LEMMA SaveResizes ==
    ASSUME Alone, RowsInv, LineInv, DebtsDue, DebtsDue', NEW q \in Reqs, Save(q)
    PROVE  W!Next
<1>c. PICK c : c = req[q].class
  OBVIOUS
<1>T. PICK T : T = Taken(reg, c)
  OBVIOUS
<1>R. PICK R : R = Waiting(reg, c)
  OBVIOUS
<1>0. /\ TypeInv /\ TypeOK /\ reg' = reg /\ req[q].pc = "save"
      /\ c \in Classes /\ Live(c)
  BY <1>c DEF RowsInv, TypeInv, LineInv, Relies, LiveIn, Live, Save, At
<1>1. PICK m \in CapacityInput, y \in Days, late \in Evenings : SaveClass(c, m, y, late)
  BY <1>c DEF Save
<1>2. Live(c)' /\ class'[c].cap = m
  BY <1>0, <1>1 DEF SaveClass, Live, TypeOK
<1>3. \A d \in Classes \ {c} : class'[d] = class[d]
  BY <1>0, <1>1 DEF SaveClass, TypeOK
<1>4. \A d \in Classes \ {c} : Unmoved(d)
  BY <1>0, <1>3, SameTables
<1>5. Promised(c) = {}
  BY <1>0, NothingPromised
<1>6. SeatedOf[c] = T /\ LineOf[c] = OldestFirst(R) /\ c \in W!Offered
  BY <1>T, <1>R, <1>0, <1>5, NothingOwed, LiveIsOffered
<1>7. PICK P : P = Promised(c)'
  OBVIOUS
<1>8. P \in Oldest(W!CanSit(m, Cardinality(T), Cardinality(R)), R)
  <2>1. P \in Oldest(CanMove(c)', Waiting(reg', c))
    BY <1>0, <1>2, <1>7 DEF DebtsDue
  <2>2. CanMove(c)' = W!CanSit(m, Cardinality(T), Cardinality(R))
    BY <1>T, <1>R, <1>0, <1>2 DEF CanMove, W!CanSit
  <2> QED BY <1>R, <1>0, <2>1, <2>2
<1>9. /\ Taken(reg', c) \cup Promised(c)' = T \cup P
      /\ Waiting(reg', c) \ Promised(c)' = R \ P
  BY <1>T, <1>R, <1>0, <1>7
<1>10. R \in SUBSET Regs
  BY <1>R DEF Waiting
<1>11. W!Settle(c, m, T, OldestFirst(R))
  BY <1>0, <1>2, <1>4, <1>8, <1>9, <1>10, SettleStep
<1>12. SeatsOf'[c] = m /\ m \in Nat
  BY <1>0, <1>1, <1>2, BoundsAssumption DEF SeatsOf, CapacityInput
<1>13. W!Resize(c)
  BY <1>6, <1>11, <1>12 DEF W!Resize
<1> QED BY <1>0, <1>13 DEF W!Next

LEMMA EmptyLine == OldestFirst({}) = <<>>
<1>1. IsFiniteSet({}) /\ Cardinality({}) = 0 /\ {} \subseteq Int
  BY FS_EmptySet
<1>2. Ordered(OldestFirst({}), {})
  BY <1>1, OldestFirstOrdered
<1>3. OldestFirst({}) \in Seq({}) /\ Len(OldestFirst({})) = 0
  BY <1>1, <1>2, OrderedSeq
<1> QED BY <1>3, EmptySeq

\* A class that is created opens, with nobody in it.
LEMMA CreateOpens ==
    ASSUME RowsInv, LineInv, DebtsDue, DebtsDue', NEW c \in Classes, CreateClass(c)
    PROVE  W!Next
<1>0. TypeInv /\ TypeOK /\ reg' = reg /\ ~Live(c) /\ class[c].row = "unused"
  BY DEF RowsInv, TypeInv, CreateClass, Live
<1>1. PICK m \in CapacityInput, y \in Days : SaveClass(c, m, y, FALSE)
  BY DEF CreateClass
<1>2. Live(c)' /\ class'[c].cap = m
  BY <1>0, <1>1 DEF SaveClass, Live, TypeOK
<1>3. \A d \in Classes \ {c} : class'[d] = class[d]
  BY <1>0, <1>1 DEF SaveClass, TypeOK
<1>4. \A d \in Classes \ {c} : Unmoved(d)
  BY <1>0, <1>3, SameTables
<1>5. Taken(reg, c) = {} /\ Waiting(reg, c) = {}
  BY <1>0 DEF RowsInv, RowsInserted, Taken, Waiting
<1>6. c \notin W!Offered
  BY <1>0, LiveIsOffered
<1>7. PICK P : P = Promised(c)'
  OBVIOUS
<1>8. P \in Oldest(W!CanSit(m, Cardinality({}), Cardinality({})), {})
  <2>1. P \in Oldest(CanMove(c)', Waiting(reg', c))
    BY <1>2, <1>7 DEF DebtsDue
  <2>2. CanMove(c)' = W!CanSit(m, Cardinality({}), Cardinality({}))
    BY <1>0, <1>2, <1>5 DEF CanMove, W!CanSit
  <2> QED BY <1>0, <1>5, <2>1, <2>2
<1>9. /\ Taken(reg', c) \cup Promised(c)' = {} \cup P
      /\ Waiting(reg', c) \ Promised(c)' = {} \ P
  BY <1>0, <1>5, <1>7
<1>10. W!Settle(c, m, {}, OldestFirst({}))
  <2>1. PICK S : S = {}
    OBVIOUS
  <2>2. W!Settle(c, m, S, OldestFirst(S))
    BY <1>2, <1>4, <1>8, <1>9, <2>1, SettleStep
  <2> QED BY <2>1, <2>2
<1>11. SeatsOf'[c] = m /\ m \in Nat
  BY <1>1, <1>2, BoundsAssumption DEF SeatsOf, CapacityInput
<1>12. W!Open(c)
  BY <1>6, <1>10, <1>11, EmptyLine DEF W!Open
<1> QED BY <1>12 DEF W!Next

\* A class is deleted when nobody is in it.
LEMMA DropCloses ==
    ASSUME Alone, RowsInv, LineInv, NEW q \in Reqs, Drop(q)
    PROVE  W!Next
<1>c. PICK c : c = req[q].class
  OBVIOUS
<1>0. /\ TypeInv /\ TypeOK /\ reg' = reg /\ req[q].pc = "drop"
      /\ c \in Classes /\ Live(c) /\ Taken(reg, c) = {} /\ Waiting(reg, c) = {}
  BY <1>c DEF RowsInv, TypeInv, LineInv, Relies, LiveIn, Live, Drop, At
<1>1. /\ \A d \in Classes \ {c} : class'[d] = class[d]
      /\ class'[c].row = "deleted"
  BY <1>c, <1>0 DEF Drop, TypeOK, ClassRow
<1>2. req'[q].pc # "recompute"
  BY <1>0 DEF Drop, Become, Idle, TypeOK
<1>3. \A d : Promised(d) = {} /\ Promised(d)' = {}
  BY <1>0, <1>2, NothingPromised, NothingPromisedThen
<1>4. c \in W!Offered /\ W!Holders(c) = {}
  BY <1>0, <1>3, LiveIsOffered, NothingOwed
<1>5. SeatsOf' = [SeatsOf EXCEPT ![c] = NotOffered]
  <2>1. SeatsOf'[c] = NotOffered
    BY <1>0, <1>1 DEF SeatsOf, Live
  <2>2. \A d \in Classes \ {c} : SeatsOf'[d] = SeatsOf[d]
    BY <1>1 DEF SeatsOf, Live
  <2> QED BY <2>1, <2>2 DEF SeatsOf
<1>6. SeatedOf' = SeatedOf
  BY <1>0, <1>3 DEF SeatedOf
<1>7. LineOf' = LineOf
  BY <1>0, <1>3 DEF LineOf
<1>8. W!Close(c)
  BY <1>4, <1>5, <1>6, <1>7 DEF W!Close
<1> QED BY <1>0, <1>8 DEF W!Next

\* Alone and without crashes, every step of Enrollment is a step of Waitlist, or none.
LEMMA NextIsServing ==
    ASSUME Alone, MaxCrashes = 0, RowsInv, RowsInv', CheckinInv, LineInv, DebtsDue, DebtsDue',
           [Next]_vars
    PROVE  [W!Next]_(W!vars)
<1>0. TypeInv /\ TypeInv' /\ TypeOK
  BY DEF RowsInv, TypeInv
<1>1. CASE UNCHANGED vars
  BY <1>1, SameRows DEF vars
<1>2. ASSUME NEW q \in Reqs, Step(q)
      PROVE  [W!Next]_(W!vars)
  <2>1. CASE Mark(q)
    <3>1. \A r \in Regs : reg'[r].status = reg[r].status /\ reg'[r].class = reg[r].class
      BY <1>0, <2>1 DEF RowsInv, Memory, Knows, CheckinInv, Mark, At, TypeOK, RegRow
    <3> QED BY <2>1, <3>1, SameRows DEF Mark
  <2>2. CASE \/ CheckDuplicate(q) \/ LoadDate(q) \/ CheckSameDay(q) \/ LoadClass(q)
             \/ TurnedAway(q) \/ CountConfirmed(q) \/ CountRoster(q) \/ Guard(q) \/ Notify(q)
    <3>1. class' = class /\ reg' = reg
      BY <2>2 DEF CheckDuplicate, LoadDate, CheckSameDay, LoadClass, TurnedAway,
         CountConfirmed, CountRoster, Guard, Notify
    <3> QED BY <3>1, SameRows
  <2> QED BY <1>0, <1>2, <2>1, <2>2, InsertJoins, DeleteLeaves, SaveResizes, DropCloses,
             RecomputeHidden DEF Step
<1>3. ASSUME NEW q \in Reqs, Arrival(q)
      PROVE  [W!Next]_(W!vars)
  <2>1. CASE \E r \in Regs : Cancel(q, r)
    BY <2>1, CancelLeaves
  <2>2. CASE ~\E r \in Regs : Cancel(q, r)
    <3>1. class' = class /\ reg' = reg
      BY <1>3, <2>2 DEF Arrival, Submit, Confirm, ReadForDelete, ReadForCheckin, ReadForUpdate,
         ReadForDrop
    <3> QED BY <3>1, SameRows
  <2> QED BY <2>1, <2>2
<1>4. ~Crash
  BY <1>0 DEF Crash, TypeOK
<1> QED BY <1>1, <1>2, <1>3, <1>4, CreateOpens DEF Next

LEMMA InitIsEmpty == Init => W!Init
<1> SUFFICES ASSUME Init
             PROVE  W!Init
  OBVIOUS
<1>1. \A c \in Classes : ~Live(c)
  BY DEF Init, Live
<1>2. \A c \in Classes : Taken(reg, c) = {} /\ Waiting(reg, c) = {}
  BY DEF Init, Taken, Waiting
<1>3. \A c \in Classes : Promised(c) = {}
  BY <1>1 DEF Promised
<1>4. SeatsOf = [c \in Classes |-> NotOffered]
  BY <1>1 DEF SeatsOf
<1>5. SeatedOf = [c \in Classes |-> {}]
  BY <1>2, <1>3 DEF SeatedOf
<1>6. LineOf = [c \in Classes |-> <<>>]
  <2>1. \A c \in Classes : Waiting(reg, c) \ Promised(c) = {}
    BY <1>2
  <2>2. \A c \in Classes : OldestFirst(Waiting(reg, c) \ Promised(c)) = <<>>
    BY <2>1, EmptyLine
  <2> QED BY <2>2 DEF LineOf
<1> QED BY <1>4, <1>5, <1>6 DEF W!Init

\* As long as one request runs at a time and the process does not die, the seats of a
\* class are given out first come, first served, and SelectClassSubmit, CancelByCode,
\* AdminRegDelete, AdminUpdateClass and AdminDeleteClass each look like one step: every
\* behaviour of Enrollment is, through the mapping of EnrollmentWaitlist, one of Waitlist.
THEOREM ServedInOrder ==
    ASSUME Alone, MaxCrashes = 0
    PROVE  Spec => FirstComeFirstServed
<1>1. WaitlistInv({}) /\ LineInv => DebtsDue
  BY DebtsAreDue DEF LineInv
<1>2. /\ WaitlistInv({}) /\ CheckinInv /\ LineInv /\ DebtsDue
      /\ WaitlistInv({})' /\ DebtsDue'
      /\ [Next]_vars
      => [W!Next]_(W!vars)
  BY NextIsServing DEF WaitlistInv
<1> QED BY <1>1, <1>2, InitIsEmpty, WaitlistInvAlways, LineInvAlways, PTL
        DEF Spec, FirstComeFirstServed, W!Spec
=============================================================================

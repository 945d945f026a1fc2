---------------------------- MODULE QuestionsProofs ----------------------------
(***************************************************************************)
(* Theorems about Questions for every set of browsers and options, and     *)
(* every bound.                                                            *)
(***************************************************************************)
EXTENDS Questions, FiniteSetTheorems, TLAPS

-----------------------------------------------------------------------------
(* Type correctness.                                                       *)

\* A handler that takes rows has one left, and one that has found a question has
\* the row it is in.
Fits(s) ==
    LET left == Cardinality(s.rows) + s.added
    IN  /\ s \in ReqState
        /\ s.boxes <= left
        /\ s.pc \in {"rows", "write"} => left > 0
        /\ s.pc = "write" => s.rows # {}

RequestsOK == req \in [Reqs -> ReqState] /\ \A q \in Reqs : Fits(req[q])

\* The ids that the requests under way may still take.
IdsReserved ==
    /\ nextQ - 1 + Cardinality(Pending) <= MaxQuestions
    /\ nextReg + Cardinality(Registering) <= MaxRegs + 1

TablesOK ==
    /\ class \in Rows
    /\ question \in [Ids -> Question] /\ nextQ \in Nat \ {0}
    /\ reg \in [Regs -> Registration] /\ nextReg \in Nat \ {0}
    /\ caught \in [Reqs -> SUBSET Ids] /\ newer \in [Regs -> SUBSET Ids]

TypeInv == TablesOK /\ RequestsOK /\ IdsReserved

\* What a step does to the request, and to the ids that are left.
Moves(q, s) ==
    /\ Fits(s) /\ Become(q, s)
    /\ \/ nextQ' = nextQ /\ (s.added <= req[q].added \/ RoomFor(s.added))
       \/ nextQ' = nextQ + 1 /\ s.added < req[q].added
    /\ \/ nextReg' = nextReg /\ (s.pc \in {"ask", "class", "insert"} => q \in Registering \/ RoomForReg)
       \/ nextReg' = nextReg + 1 /\ q \in Registering /\ s.pc \notin {"ask", "class", "insert"}

\* The sizes of finite sets of ids.
LEMMA RowsCount ==
    ASSUME NEW S \in SUBSET Ids
    PROVE  /\ IsFiniteSet(S) /\ Cardinality(S) \in Nat
           /\ Cardinality(S) = 0 <=> S = {}
           /\ \A k \in S : Cardinality(S \ {k}) = Cardinality(S) - 1
<1>1. IsFiniteSet(Ids)
  BY BoundsAssumption, FS_Interval DEF Ids
<1>2. IsFiniteSet(S)
  BY <1>1, FS_Subset
<1> QED BY <1>2, FS_CardinalityType, FS_EmptySet, FS_RemoveElement

LEMMA IdleFits == Fits(Idle) /\ Idle.pc = "idle" /\ Idle.added = 0
<1>1. 0 \in 0..MaxNew /\ {} \in SUBSET Ids
  BY BoundsAssumption
<1>2. Idle \in ReqState
  BY <1>1 DEF Idle, ReqState, Unanswered
<1>3. Idle.pc = "idle" /\ Idle.added = 0 /\ Idle.boxes = 0 /\ Idle.rows = {}
  BY DEF Idle
<1> QED BY <1>1, <1>2, <1>3, RowsCount DEF Fits

LEMMA PendingCount ==
    IsFiniteSet(Pending) /\ Cardinality(Pending) \in Nat
<1>1. IsFiniteSet(1..MaxNew)
  BY BoundsAssumption, FS_Interval
<1>2. IsFiniteSet(Reqs \X (1..MaxNew))
  BY <1>1, ReqsAssumption, FS_Product
<1>3. Pending \in SUBSET (Reqs \X (1..MaxNew))
  BY DEF Pending
<1> QED BY <1>2, <1>3, FS_Subset, FS_CardinalityType

LEMMA PendingMoves ==
    ASSUME req \in [Reqs -> ReqState], NEW q \in Reqs, NEW s \in ReqState, Become(q, s)
    PROVE  /\ Cardinality(Pending) \in Nat /\ Cardinality(Pending') \in Nat
           /\ Cardinality(Pending') <= Cardinality(Pending) + s.added
           /\ s.added <= req[q].added => Cardinality(Pending') <= Cardinality(Pending)
           /\ s.added < req[q].added => Cardinality(Pending') <= Cardinality(Pending) - 1
<1> DEFINE P == Pending
           Q == Pending'
           a == req[q].added
           n == s.added
           T == {q} \X (1..n)
<1>0. a \in 0..MaxNew /\ n \in 0..MaxNew
  BY DEF ReqState
<1>1. IsFiniteSet(Reqs \X (1..MaxNew))
  <2>1. IsFiniteSet(1..MaxNew)
    BY BoundsAssumption, FS_Interval
  <2> QED BY <2>1, ReqsAssumption, FS_Product
<1>2. \A e \in Reqs \X (1..MaxNew) :
         /\ e \in P <=> e[2] <= req[e[1]].added
         /\ e \in Q <=> e[2] <= req'[e[1]].added
  BY DEF Pending
<1>3. P \in SUBSET (Reqs \X (1..MaxNew)) /\ Q \in SUBSET (Reqs \X (1..MaxNew))
  BY DEF Pending
<1>4. \A p \in Reqs : req'[p].added = IF p = q THEN n ELSE req[p].added
  BY DEF Become
<1> HIDE DEF P, Q
<1>5. /\ IsFiniteSet(P) /\ IsFiniteSet(Q)
      /\ Cardinality(P) \in Nat /\ Cardinality(Q) \in Nat
  BY <1>1, <1>3, FS_Subset, FS_CardinalityType
<1>6. IsFiniteSet(T) /\ Cardinality(T) = n
  <2>0. n \in Nat
    BY <1>0, BoundsAssumption
  <2> HIDE DEF n
  <2>1. IsFiniteSet(1..n) /\ Cardinality(1..n) = n
    BY <2>0, FS_Interval
  <2>2. IsFiniteSet({q}) /\ Cardinality({q}) = 1
    BY FS_Singleton
  <2>3. IsFiniteSet(T) /\ Cardinality(T) = Cardinality({q}) * Cardinality(1..n)
    <3>1. ASSUME NEW C, NEW D, IsFiniteSet(C), IsFiniteSet(D)
          PROVE  /\ IsFiniteSet(C \X D)
                 /\ Cardinality(C \X D) = Cardinality(C) * Cardinality(D)
      BY <3>1, FS_Product
    <3> QED BY <2>1, <2>2, <3>1
  <2> QED BY <2>0, <2>1, <2>2, <2>3
<1>7. Cardinality(Q) <= Cardinality(P) + n
  <2>1. Q \in SUBSET (P \cup T)
    <3>1. ASSUME NEW e \in Q
          PROVE  e \in P \cup T
      <4>1. e \in Reqs \X (1..MaxNew) /\ e[1] \in Reqs /\ e[2] \in 1..MaxNew /\ e = <<e[1], e[2]>>
        BY <1>3
      <4>2. CASE e[1] = q
        <5>1. e[2] <= n /\ e[2] \in 1..n
          BY <1>0, <1>2, <1>4, <4>1, <4>2, BoundsAssumption
        <5> QED BY <4>1, <4>2, <5>1
      <4>3. CASE e[1] # q
        BY <1>2, <1>4, <4>1, <4>3
      <4> QED BY <4>2, <4>3
    <3> QED BY <3>1
  <2> HIDE DEF T
  <2>2. /\ IsFiniteSet(P \cup T)
        /\ Cardinality(P \cup T) = Cardinality(P) + Cardinality(T) - Cardinality(P \cap T)
    BY <1>5, <1>6, FS_Union
  <2>3. P \cap T \in SUBSET P /\ Cardinality(P \cap T) \in Nat
    BY <1>5, FS_Subset, FS_CardinalityType
  <2>4. Cardinality(Q) <= Cardinality(P \cup T)
    BY <2>1, <2>2, FS_Subset
  <2>5. Cardinality(P \cup T) \in Nat
    BY <2>2, FS_CardinalityType
  <2> QED BY <1>0, <1>5, <1>6, <2>2, <2>3, <2>4, <2>5, BoundsAssumption
<1>8. ASSUME n <= a
      PROVE  Cardinality(Q) <= Cardinality(P) /\ Q \in SUBSET P
  <2>1. ASSUME NEW e \in Q
        PROVE  e \in P
    <3>1. e \in Reqs \X (1..MaxNew) /\ e[1] \in Reqs /\ e[2] \in 1..MaxNew
      BY <1>3
    <3>2. e[2] <= (IF e[1] = q THEN n ELSE req[e[1]].added)
      BY <1>2, <1>4, <3>1
    <3>3. e[2] <= req[e[1]].added
      BY <1>0, <1>8, <3>1, <3>2, BoundsAssumption
    <3> QED BY <1>2, <3>1, <3>3
  <2> QED BY <1>5, <2>1, FS_Subset
<1>9. ASSUME n < a
      PROVE  Cardinality(Q) <= Cardinality(P) - 1
  <2> DEFINE x == <<q, a>>
  <2>1. x \in Reqs \X (1..MaxNew) /\ x[1] = q /\ x[2] = a
    BY <1>0, <1>9, BoundsAssumption
  <2>2. x \in P
    BY <1>0, <1>2, <2>1, BoundsAssumption
  <2>3. x \notin Q
    BY <1>0, <1>2, <1>4, <1>9, <2>1, BoundsAssumption
  <2>4. n <= a
    BY <1>0, <1>9, BoundsAssumption
  <2>5. Q \in SUBSET (P \ {x})
    BY <1>8, <2>3, <2>4
  <2>6. IsFiniteSet(P \ {x}) /\ Cardinality(P \ {x}) = Cardinality(P) - 1
    BY <1>5, <2>2, FS_RemoveElement
  <2> QED BY <2>5, <2>6, FS_Subset
<1> QED BY <1>5, <1>7, <1>8, <1>9 DEF P, Q

LEMMA RegisteringMoves ==
    ASSUME req \in [Reqs -> ReqState], NEW q \in Reqs, NEW s \in ReqState, Become(q, s)
    PROVE  /\ Cardinality(Registering) \in Nat /\ Cardinality(Registering') \in Nat
           /\ Cardinality(Registering') <= Cardinality(Registering) + 1
           /\ (s.pc \in {"ask", "class", "insert"} => q \in Registering) =>
                  Cardinality(Registering') <= Cardinality(Registering)
           /\ q \in Registering /\ s.pc \notin {"ask", "class", "insert"} =>
                  Cardinality(Registering') <= Cardinality(Registering) - 1
<1> DEFINE P == Registering
           Q == Registering'
           R == s.pc \in {"ask", "class", "insert"}
<1>1. /\ P \in SUBSET Reqs /\ Q \in SUBSET Reqs
      /\ \A p \in Reqs : p \in Q <=> IF p = q THEN R ELSE p \in P
  BY DEF Registering, Become
<1> HIDE DEF P, Q, R
<1>2. /\ IsFiniteSet(P) /\ IsFiniteSet(Q) /\ IsFiniteSet(P \ {q}) /\ IsFiniteSet(P \cup {q})
      /\ Cardinality(P) \in Nat /\ Cardinality(Q) \in Nat
  BY <1>1, ReqsAssumption, FS_Subset, FS_CardinalityType, FS_AddElement, FS_RemoveElement
<1>3. Cardinality(Q) <= Cardinality(P) + 1
  <2>1. Q \in SUBSET (P \cup {q})
    BY <1>1
  <2>2. Cardinality(Q) <= Cardinality(P \cup {q})
    BY <1>2, <2>1, FS_Subset
  <2>3. Cardinality(P \cup {q}) \in {Cardinality(P), Cardinality(P) + 1}
    BY <1>2, FS_AddElement
  <2> QED BY <1>2, <2>2, <2>3
<1>4. (R => q \in P) => Cardinality(Q) <= Cardinality(P)
  BY <1>1, <1>2, FS_Subset
<1>5. ASSUME q \in P, ~R
      PROVE  Cardinality(Q) <= Cardinality(P) - 1
  <2>1. Q \in SUBSET (P \ {q})
    BY <1>1, <1>5
  <2> QED BY <1>2, <1>5, <2>1, FS_Subset, FS_RemoveElement
<1> QED BY <1>2, <1>3, <1>4, <1>5 DEF P, Q, R

LEMMA MovesKeep ==
    ASSUME TypeInv, NEW q \in Reqs, NEW s, Moves(q, s)
    PROVE  RequestsOK' /\ IdsReserved'
<1>0. /\ req \in [Reqs -> ReqState] /\ s \in ReqState /\ Fits(s) /\ Become(q, s)
      /\ nextQ \in Nat \ {0} /\ nextReg \in Nat \ {0} /\ s.added \in Nat
      /\ MaxQuestions \in Nat /\ MaxRegs \in Nat
  BY BoundsAssumption DEF TypeInv, RequestsOK, TablesOK, Moves, Fits, ReqState
<1>1. RequestsOK'
  BY <1>0 DEF TypeInv, RequestsOK, Become
<1>2. nextQ' - 1 + Cardinality(Pending') <= MaxQuestions
  BY <1>0, PendingMoves DEF Moves, RoomFor, TypeInv, IdsReserved
<1>3. nextReg' + Cardinality(Registering') <= MaxRegs + 1
  BY <1>0, RegisteringMoves DEF Moves, RoomForReg, TypeInv, IdsReserved
<1> QED BY <1>1, <1>2, <1>3 DEF IdsReserved

\* A finite set of numbers that is not empty has a least one.
LEMMA Least ==
    ASSUME NEW S, IsFiniteSet(S), S # {}, S \subseteq Int
    PROVE  \E m \in S : \A x \in S : m <= x
<1> DEFINE below == [x \in S |-> {y \in S : y < x}]
           T == {below[x] : x \in S}
<1>0. /\ \A x \in S : below[x] \in SUBSET S
      /\ \A x, y \in S : y \in below[x] <=> y < x
  OBVIOUS
<1> HIDE DEF below
<1>1. IsWellFoundedOn(StrictSubsetOrdering(S), FiniteSubsetsOf(S))
  BY FS_StrictSubsetOrderingWellFounded
<1>2. T \subseteq FiniteSubsetsOf(S) /\ T # {}
  <2>1. FiniteSubsetsOf(S) = SUBSET S
    BY FS_FiniteSubsetsOfFinite
  <2>2. PICK x : x \in S
    OBVIOUS
  <2>3. below[x] \in T
    BY <2>2
  <2>4. T \subseteq SUBSET S
    BY <1>0
  <2> QED BY <2>1, <2>3, <2>4
<1>3. PICK B \in T : \A C \in T : <<C, B>> \notin StrictSubsetOrdering(S)
  BY <1>1, <1>2, WFMin
<1>4. PICK m \in S : B = below[m]
  OBVIOUS
<1>5. ASSUME NEW x \in S, x < m
      PROVE  FALSE
  <2>0. x \in Int /\ m \in Int /\ \A y \in S : y \in Int
    OBVIOUS
  <2>1. x \in below[m] /\ x \notin below[x]
    BY <1>0, <1>5, <2>0
  <2>2. ASSUME NEW y \in below[x]
        PROVE  y \in below[m]
    <3>1. y \in S /\ y < x
      BY <1>0
    <3>2. y < m
      BY <1>5, <2>0, <3>1
    <3> QED BY <1>0, <3>1, <3>2
  <2>3. <<below[x], B>> \in StrictSubsetOrdering(S)
    BY <1>0, <1>4, <2>1, <2>2 DEF StrictSubsetOrdering
  <2> QED BY <1>3, <2>3
<1>6. ASSUME NEW x \in S
      PROVE  m <= x
  <2>1. x \in Int /\ m \in Int
    OBVIOUS
  <2>2. ~(x < m)
    BY <1>5
  <2> QED BY <2>1, <2>2
<1> QED BY <1>6

\* The first row is one of those that are left.
LEMMA IdIsRow ==
    ASSUME NEW q, req[q].rows # {}, req[q].rows \in SUBSET Ids
    PROVE  Id(q) \in req[q].rows
<1>1. PICK S : S = req[q].rows
  OBVIOUS
<1>2. IsFiniteSet(S) /\ S # {} /\ \A k \in S : k \in Int
  BY <1>1, RowsCount DEF Ids
<1>3. S \subseteq Int
  BY <1>2
<1>4. \E k \in S : \A j \in S : k <= j
  BY <1>2, <1>3, Least
<1> QED BY <1>1, <1>4 DEF Id

\* A row that was added is counted.
LEMMA PendingRow ==
    ASSUME NEW q \in Reqs, Fits(req[q]), req[q].pc = "rows", req[q].rows = {}
    PROVE  Pending # {}
<1>1. req[q].added \in 0..MaxNew /\ Cardinality(req[q].rows) + req[q].added > 0
  BY DEF Fits, ReqState
<1>2. Cardinality(req[q].rows) = 0
  BY FS_EmptySet
<1>3. req[q].added \in 1..MaxNew /\ req[q].added <= req[q].added
  BY <1>1, <1>2, BoundsAssumption
<1>4. <<q, req[q].added>> \in Pending
  BY <1>3 DEF Pending
<1> QED BY <1>4

\* The row that is taken is the first, and one row less is left.
Takes(q, s) ==
    /\ Fits(s) /\ Become(q, s) /\ s.pc \in {"idle", "rows"}
    /\ s.added <= req[q].added
    /\ req[q].rows = {} => s.added < req[q].added

LEMMA NextRowMoves ==
    ASSUME RequestsOK, NEW q \in Reqs, NextRow(q), req[q].pc \in {"rows", "write"}
    PROVE  \E s : Takes(q, s)
<1> DEFINE r == req[q]
           t == Rest(q)
           s == [Rest(q) EXCEPT !.boxes = IF @ = 0 THEN 0 ELSE @ - 1]
           left == Cardinality(r.rows) + r.added
<1>1. /\ r \in ReqState /\ r.boxes <= left /\ left > 0
      /\ r.added \in 0..MaxNew /\ r.boxes \in Nat /\ r.rows \in SUBSET Ids
      /\ left = Left(q)
  BY DEF RequestsOK, Fits, Left, ReqState
<1>2. /\ Cardinality(r.rows) \in Nat /\ r.added \in Nat
      /\ Cardinality(r.rows) = 0 <=> r.rows = {}
  BY <1>1, RowsCount, BoundsAssumption
<1>3. CASE left = 1
  <2>1. Become(q, Idle)
    BY <1>1, <1>3 DEF NextRow, Done
  <2>2. 0 <= r.added /\ (r.rows = {} => 0 < r.added)
    BY <1>2, <1>3
  <2> QED BY <2>1, <2>2, IdleFits DEF Takes
<1>4. CASE left # 1
  <2>1. Become(q, s)
    BY <1>1, <1>4 DEF NextRow
  <2>2. CASE r.rows = {}
    <3>1. t = [r EXCEPT !.pc = "rows", !.added = @ - 1]
      BY <2>2 DEF Rest
    <3>2. /\ t \in [pc : {"rows"}, answer : [Ids -> Answers \cup {Unasked}], rows : SUBSET Ids,
                    added : {r.added - 1}, boxes : Nat, edit : BOOLEAN]
          /\ t.rows = r.rows /\ t.added = r.added - 1 /\ t.boxes = r.boxes
      BY <1>1, <3>1 DEF ReqState
    <3>3. r.added - 1 \in 0..MaxNew /\ r.added - 1 < r.added /\ r.added - 1 > 0
      BY <1>1, <1>2, <1>4, <2>2, BoundsAssumption
    <3> HIDE DEF t
    <3>4. /\ s \in ReqState /\ s.pc = "rows" /\ s.rows = r.rows /\ s.added = r.added - 1
          /\ s.boxes = IF r.boxes = 0 THEN 0 ELSE r.boxes - 1
      BY <1>1, <3>2, <3>3 DEF ReqState, t
    <3> HIDE DEF s, r
    <3>5. Fits(s)
      BY <1>1, <1>2, <2>2, <3>3, <3>4 DEF Fits
    <3>6. s.added <= r.added /\ s.added < r.added
      BY <1>2, <3>4
    <3> QED BY <2>1, <3>4, <3>5, <3>6 DEF s, r, Takes
  <2>3. CASE r.rows # {}
    <3> DEFINE R == r.rows \ {Id(q)}
    <3>0. Id(q) \in r.rows
      BY <1>1, <2>3, IdIsRow
    <3>1. t = [r EXCEPT !.pc = "rows", !.rows = R]
      BY <2>3 DEF Rest
    <3>2. R \in SUBSET Ids /\ Cardinality(R) = Cardinality(r.rows) - 1
      BY <1>1, <3>0, RowsCount
    <3> HIDE DEF R
    <3>3. /\ t \in [pc : {"rows"}, answer : [Ids -> Answers \cup {Unasked}], rows : {R},
                    added : 0..MaxNew, boxes : Nat, edit : BOOLEAN]
          /\ t.rows = R /\ t.added = r.added /\ t.boxes = r.boxes
      BY <1>1, <3>1 DEF ReqState
    <3> HIDE DEF t
    <3>4. /\ s \in ReqState /\ s.pc = "rows" /\ s.rows = R /\ s.added = r.added
          /\ s.boxes = IF r.boxes = 0 THEN 0 ELSE r.boxes - 1
      BY <1>1, <3>2, <3>3 DEF ReqState, t
    <3> HIDE DEF s, r
    <3>5. Fits(s)
      BY <1>1, <1>2, <1>4, <3>2, <3>4 DEF Fits
    <3>6. s.added <= r.added
      BY <1>2, <3>4
    <3> QED BY <2>1, <2>3, <3>4, <3>5, <3>6 DEF s, r, Takes
  <2> QED BY <2>2, <2>3
<1> QED BY <1>3, <1>4

\* A request that goes on, or is done, with the rows it has.
LEMMA GoMoves ==
    ASSUME RequestsOK, NEW q \in Reqs, NEW pc,
           pc \in {"ask", "insert", "rows", "write", "count", "dropall", "dropclass"},
           Go(q, pc),
           pc \in {"rows", "write"} => Left(q) > 0,
           pc = "write" => req[q].rows # {},
           pc \in {"ask", "insert"} => q \in Registering \/ RoomForReg,
           nextQ' = nextQ, nextReg' = nextReg
    PROVE  \E s : Moves(q, s)
<1> DEFINE r == req[q]
           s == [r EXCEPT !.pc = pc]
<1>1. /\ r \in ReqState /\ Fits(r) /\ r.added \in Int
  BY BoundsAssumption DEF RequestsOK, ReqState
<1>2. /\ s \in ReqState /\ s.pc = pc /\ s.rows = r.rows /\ s.added = r.added
      /\ s.boxes = r.boxes
  BY <1>1 DEF ReqState
<1>3. Become(q, s)
  BY DEF Go
<1> HIDE DEF s, r
<1>4. Fits(s)
  BY <1>1, <1>2 DEF Fits, Left, r
<1>5. s.added <= r.added
  BY <1>1, <1>2
<1> QED BY <1>2, <1>3, <1>4, <1>5 DEF Moves, r

LEMMA DoneMoves ==
    ASSUME RequestsOK, NEW q \in Reqs, Done(q), nextQ' = nextQ,
           nextReg' = nextReg \/ (nextReg' = nextReg + 1 /\ q \in Registering)
    PROVE  \E s : Moves(q, s)
<1>1. req[q].added \in Nat
  BY BoundsAssumption DEF RequestsOK, ReqState
<1>2. Moves(q, Idle)
  BY <1>1, IdleFits DEF Done, Moves
<1> QED BY <1>2

\* What every step does to the request.
LEMMA StepMoves ==
    ASSUME TypeInv, NEW q \in Reqs, Register(q) \/ EditClass(q)
    PROVE  \E s : Moves(q, s)
<1>0. RequestsOK /\ req[q] \in ReqState /\ Fits(req[q])
  BY DEF TypeInv, RequestsOK
<1>1. CASE Select(q)
  BY <1>0, <1>1, GoMoves DEF Select, tables
<1>2. CASE Ask(q)
  BY <1>0, <1>2, GoMoves, DoneMoves DEF Ask, tables, At, Registering
<1>3. CASE LoadClass(q)
  BY <1>0, <1>3, GoMoves, DoneMoves DEF LoadClass, tables, At, Registering
<1>4. CASE Insert(q)
  BY <1>0, <1>4, DoneMoves DEF Insert, At, Registering
<1>5. ASSUME NEW form \in [Ids -> Answers \cup {Unasked}], Confirm(q, form)
      PROVE  \E s : Moves(q, s)
  <2> DEFINE s == [Idle EXCEPT !.pc = "class", !.answer = form]
  <2>1. /\ s \in ReqState /\ s.pc = "class" /\ s.rows = Idle.rows /\ s.added = Idle.added
        /\ s.boxes = Idle.boxes
    BY IdleFits DEF Fits, ReqState
  <2>2. Become(q, s) /\ RoomForReg /\ nextQ' = nextQ /\ nextReg' = nextReg
    BY <1>5 DEF Confirm, tables
  <2> HIDE DEF s
  <2>3. Fits(s)
    BY <2>1, IdleFits DEF Fits
  <2>4. s.added <= req[q].added
    BY <1>0, <2>1, IdleFits, BoundsAssumption DEF ReqState
  <2> QED BY <2>2, <2>3, <2>4 DEF Moves
<1>6. ASSUME NEW n \in 0..MaxNew, CreateClass(q, n)
      PROVE  \E s : Moves(q, s)
  <2>1. CASE n = 0
    BY <1>0, <1>6, <2>1, DoneMoves DEF CreateClass, history
  <2>2. CASE n # 0
    <3> DEFINE s == [Idle EXCEPT !.pc = "rows", !.added = n]
    <3>1. /\ s \in ReqState /\ s.pc = "rows" /\ s.rows = Idle.rows /\ s.added = n
          /\ s.boxes = Idle.boxes
      BY IdleFits DEF Fits, ReqState
    <3>2. Become(q, s) /\ RoomFor(n) /\ nextQ' = nextQ /\ nextReg' = nextReg
      BY <1>6, <2>2 DEF CreateClass, history
    <3>3. Idle.rows = {} /\ Idle.boxes = 0 /\ n \in Nat /\ n > 0
      BY <2>2, BoundsAssumption DEF Idle
    <3> HIDE DEF s
    <3>4. Fits(s)
      BY <3>1, <3>3, RowsCount, FS_EmptySet DEF Fits
    <3> QED BY <3>1, <3>2, <3>4 DEF Moves
  <2> QED BY <2>1, <2>2
<1>7. ASSUME NEW n \in 0..MaxNew, NEW shown \in SUBSET (1 .. nextQ - 1),
             NEW boxes \in 0 .. MaxQuestions + n, Submit(q, shown, n, boxes)
      PROVE  \E s : Moves(q, s)
  <2> DEFINE s == [Idle EXCEPT !.pc = "save", !.rows = shown, !.added = n, !.boxes = boxes,
                              !.edit = TRUE]
  <2>0. shown \in SUBSET Ids /\ boxes \in Nat
    <3>1. nextQ \in Nat /\ Cardinality(Pending) \in Nat /\ nextQ - 1 + Cardinality(Pending) <= MaxQuestions
      BY <1>0, PendingCount DEF TypeInv, TablesOK, IdsReserved
    <3>2. nextQ - 1 <= MaxQuestions
      BY <3>1, BoundsAssumption
    <3>3. boxes \in Nat
      BY BoundsAssumption
    <3>4. \A k \in shown : k \in Ids
      BY <3>1, <3>2, BoundsAssumption DEF Ids
    <3> QED BY <3>3, <3>4
  <2>1. /\ s \in ReqState /\ s.pc = "save" /\ s.rows = shown /\ s.added = n
        /\ s.boxes = boxes
    BY <2>0, IdleFits DEF Fits, ReqState
  <2>2. /\ Become(q, s) /\ RoomFor(n) /\ nextQ' = nextQ /\ nextReg' = nextReg
        /\ boxes <= Cardinality(shown) + n
    BY <1>7 DEF Submit, tables
  <2> HIDE DEF s
  <2>3. Fits(s)
    BY <2>1, <2>2 DEF Fits
  <2> QED BY <2>1, <2>2, <2>3 DEF Moves
<1>8. CASE SaveClass(q)
  <2>1. Left(q) # 0 => Left(q) > 0
    <3>1. Cardinality(req[q].rows) \in Nat /\ req[q].added \in Nat
      BY <1>0, RowsCount, BoundsAssumption DEF ReqState
    <3> QED BY <3>1 DEF Left
  <2> QED BY <1>0, <1>8, <2>1, GoMoves, DoneMoves DEF SaveClass, history
<1>9. ASSUME At(q, "rows") \/ At(q, "write"), NextRow(q), nextReg' = nextReg,
             nextQ' = nextQ \/ (nextQ' = nextQ + 1 /\ req[q].rows = {})
      PROVE  \E s : Moves(q, s)
  <2>1. PICK s : Takes(q, s)
    <3>1. req[q].pc \in {"rows", "write"}
      BY <1>9 DEF At
    <3> QED BY <1>0, <1>9, <3>1, NextRowMoves
  <2>2. s.pc \notin {"ask", "class", "insert"}
    BY <2>1 DEF Takes
  <2>3. Moves(q, s)
    BY <1>9, <2>1, <2>2 DEF Moves, Takes
  <2> QED BY <2>3
<1>10. CASE FindQuestion(q)
  <2>1. CASE question[Id(q)].row = "live"
    BY <1>0, <1>10, <2>1, GoMoves DEF FindQuestion, At, Fits, Left, tables
  <2>2. CASE question[Id(q)].row # "live"
    BY <1>9, <1>10, <2>2 DEF FindQuestion, tables, history
  <2> QED BY <2>1, <2>2
<1>11. CASE DropQuestion(q)
  BY <1>9, <1>11 DEF DropQuestion, history
<1>12. ASSUME NEW required, NEW choices, SaveQuestion(q, required, choices)
       PROVE  \E s : Moves(q, s)
  BY <1>9, <1>12 DEF SaveQuestion, history
<1>13. ASSUME NEW required, NEW choices, AddQuestion(q, required, choices)
       PROVE  \E s : Moves(q, s)
  BY <1>9, <1>13 DEF AddQuestion, history
<1>14. CASE FindClass(q)
  BY <1>0, <1>14, GoMoves DEF FindClass, tables
<1>15. CASE CountRoster(q)
  BY <1>0, <1>15, GoMoves, DoneMoves DEF CountRoster, tables, history
<1>16. CASE DropQuestions(q)
  BY <1>0, <1>16, GoMoves DEF DropQuestions, history
<1>17. CASE DropClass(q)
  BY <1>0, <1>17, DoneMoves DEF DropClass, history
<1> QED BY <1>1, <1>2, <1>3, <1>4, <1>5, <1>6, <1>7, <1>8, <1>10, <1>11, <1>12, <1>13,
           <1>14, <1>15, <1>16, <1>17 DEF Register, EditClass

\* What is written to the tables, and to the history of the questions.
LEMMA PutKeeps ==
    ASSUME TablesOK, NEW k \in Ids, NEW row \in Question, Put(k, row)
    PROVE  /\ question' \in [Ids -> Question]
           /\ caught' \in [Reqs -> SUBSET Ids] /\ newer' \in [Regs -> SUBSET Ids]
<1>1. question' \in [Ids -> Question]
  BY DEF Put, TablesOK
<1>2. caught' \in [Reqs -> SUBSET Ids]
  <2>1. CASE question[k] = row
    BY <2>1 DEF Put, TablesOK, history
  <2>2. CASE question[k] # row
    <3>1. \A q \in Reqs : caught[q] \cup {k} \in SUBSET Ids
      BY DEF TablesOK
    <3> QED BY <2>2, <3>1 DEF Put
  <2> QED BY <2>1, <2>2
<1>3. newer' \in [Regs -> SUBSET Ids]
  <2>1. CASE question[k] = row
    BY <2>1 DEF Put, TablesOK, history
  <2>2. CASE question[k] # row
    <3>1. \A r \in Regs : newer[r] \cup {k} \in SUBSET Ids
      BY DEF TablesOK
    <3> QED BY <2>2, <3>1 DEF Put
  <2> QED BY <2>1, <2>2
<1> QED BY <1>1, <1>2, <1>3

\* An id is left for a row that was added.
LEMMA IdForRow ==
    ASSUME TypeInv, NEW q \in Reqs, req[q].pc = "rows", req[q].rows = {}
    PROVE  nextQ \in Ids
<1>1. Cardinality(Pending) \in Nat /\ Cardinality(Pending) # 0
  BY PendingRow, PendingCount, FS_EmptySet DEF TypeInv, RequestsOK
<1>2. nextQ \in Nat \ {0} /\ nextQ - 1 + Cardinality(Pending) <= MaxQuestions
  BY DEF TypeInv, TablesOK, IdsReserved
<1> QED BY <1>1, <1>2, BoundsAssumption DEF Ids

LEMMA StepTables ==
    ASSUME TypeInv, NEW q \in Reqs, Register(q) \/ EditClass(q)
    PROVE  TablesOK'
<1>0. /\ TablesOK /\ RequestsOK /\ req[q] \in ReqState /\ Fits(req[q])
      /\ \A b \in Rows : b \in {"none", "live", "deleted"}
  BY DEF TypeInv, RequestsOK, Rows
<1>1. ASSUME UNCHANGED tables, caught' \in [Reqs -> SUBSET Ids], newer' = newer
      PROVE  TablesOK'
  BY <1>0, <1>1 DEF TablesOK, tables
<1>2. CASE UNCHANGED <<tables, history>>
  BY <1>0, <1>1, <1>2 DEF TablesOK, history
<1>3. CASE LoadClass(q)
  <2>1. caught' \in [Reqs -> SUBSET Ids]
    BY <1>0, <1>3 DEF LoadClass, TablesOK
  <2> QED BY <1>1, <1>3, <2>1 DEF LoadClass
<1>4. CASE Insert(q)
  <2>1. reg' \in [Regs -> Registration]
    <3>1. \A r \in Regs : [reg[r] EXCEPT !.row = TRUE, !.answer = req[q].answer] \in Registration
      BY <1>0, ZenonT(40) DEF TablesOK, Registration, ReqState
    <3> QED BY <1>0, <1>4, <3>1 DEF Insert, TablesOK
  <2>2. caught' \in [Reqs -> SUBSET Ids] /\ newer' \in [Regs -> SUBSET Ids]
    BY <1>0, <1>4 DEF Insert, TablesOK
  <2> QED BY <1>0, <1>4, <2>1, <2>2 DEF Insert, TablesOK
<1>5. ASSUME class' \in Rows, UNCHANGED <<question, nextQ, reg, nextReg, history>>
      PROVE  TablesOK'
  BY <1>0, <1>5 DEF TablesOK, history
<1>6. ASSUME NEW n, CreateClass(q, n)
      PROVE  TablesOK'
  BY <1>5, <1>6 DEF CreateClass, Rows
<1>7. CASE SaveClass(q) \/ DropClass(q)
  BY <1>5, <1>7 DEF SaveClass, DropClass, Rows
<1>8. Deleted \in Question
  BY DEF Deleted, NoQuestion, Question, Rows
<1>9. CASE DropQuestion(q)
  <2>1. question' \in [Ids -> Question]
    BY <1>0, <1>8, <1>9 DEF DropQuestion, TablesOK
  <2> QED BY <1>0, <1>9, <2>1 DEF DropQuestion, TablesOK, history
<1>10. CASE DropQuestions(q)
  <2>1. question' \in [Ids -> Question]
    BY <1>0, <1>8, <1>10 DEF DropQuestions, TablesOK
  <2> QED BY <1>0, <1>10, <2>1 DEF DropQuestions, TablesOK, history
<1>11. ASSUME NEW required \in BOOLEAN, NEW choices \in Options \cup {{}}
       PROVE  Asking(required, choices) \in Question
  BY DEF Asking, Question, Rows
<1>12. ASSUME NEW required \in BOOLEAN, NEW choices \in Options \cup {{}},
              SaveQuestion(q, required, choices)
       PROVE  TablesOK'
  <2>1. Id(q) \in Ids
    <3>1. req[q].rows # {} /\ req[q].rows \in SUBSET Ids
      BY <1>0, <1>12 DEF SaveQuestion, At, Fits, ReqState
    <3> QED BY <3>1, IdIsRow
  <2>2. /\ question' \in [Ids -> Question]
        /\ caught' \in [Reqs -> SUBSET Ids] /\ newer' \in [Regs -> SUBSET Ids]
    BY <1>0, <1>11, <1>12, <2>1, PutKeeps DEF SaveQuestion
  <2> QED BY <1>0, <1>12, <2>2 DEF SaveQuestion, TablesOK
<1>13. ASSUME NEW required \in BOOLEAN, NEW choices \in Options \cup {{}},
              AddQuestion(q, required, choices)
       PROVE  TablesOK'
  <2>1. CASE Deletes(q)
    BY <1>0, <1>13, <2>1 DEF AddQuestion, TablesOK, history
  <2>2. CASE ~Deletes(q)
    <3>1. nextQ \in Ids
      BY <1>13, IdForRow DEF AddQuestion, At
    <3>2. /\ question' \in [Ids -> Question]
          /\ caught' \in [Reqs -> SUBSET Ids] /\ newer' \in [Regs -> SUBSET Ids]
      BY <1>0, <1>11, <1>13, <2>2, <3>1, PutKeeps DEF AddQuestion
    <3> QED BY <1>0, <1>13, <2>2, <3>2 DEF AddQuestion, TablesOK
  <2> QED BY <2>1, <2>2
<1>14. \/ UNCHANGED <<tables, history>>
       \/ LoadClass(q) \/ Insert(q) \/ SaveClass(q) \/ DropClass(q)
       \/ DropQuestion(q) \/ DropQuestions(q)
       \/ \E n \in 0..MaxNew : CreateClass(q, n)
       \/ \E required \in BOOLEAN, choices \in Options \cup {{}} :
             SaveQuestion(q, required, choices) \/ AddQuestion(q, required, choices)
  BY DEF Register, EditClass, Select, Ask, Confirm, Submit, FindQuestion, FindClass, CountRoster
<1> QED BY <1>2, <1>3, <1>4, <1>6, <1>7, <1>9, <1>10, <1>12, <1>13, <1>14

LEMMA TypeInvInit == Init => TypeInv
<1> SUFFICES ASSUME Init PROVE TypeInv
  OBVIOUS
<1>1. RequestsOK
  <2>1. Idle \in ReqState
    BY IdleFits DEF Fits
  <2> QED BY <2>1, IdleFits DEF Init, RequestsOK
<1>2. TablesOK
  <2>1. NoQuestion \in Question /\ [row |-> FALSE, answer |-> Unanswered] \in Registration
    BY DEF NoQuestion, Question, Rows, Registration, Unanswered
  <2> QED BY <2>1 DEF Init, TablesOK, Rows
<1>3. Pending = {} /\ Registering = {}
  BY IdleFits DEF Init, Pending, Registering
<1> QED BY <1>1, <1>2, <1>3, FS_EmptySet, BoundsAssumption DEF TypeInv, IdsReserved, Init

LEMMA TypeInvStep == TypeInv /\ [Next]_vars => TypeInv'
<1>1. ASSUME TypeInv, UNCHANGED vars
      PROVE  TypeInv'
  BY <1>1 DEF vars, tables, history, TypeInv, TablesOK, RequestsOK, IdsReserved, Fits, Pending,
     Registering
<1>2. ASSUME TypeInv, NEW q \in Reqs, Register(q) \/ EditClass(q)
      PROVE  TypeInv'
  BY <1>2, StepMoves, StepTables, MovesKeep DEF TypeInv
<1> QED BY <1>1, <1>2 DEF Next

LEMMA TypeInvAlways == Spec => []TypeInv
BY TypeInvInit, TypeInvStep, PTL DEF Spec

\* Every row and local variable is well formed, whatever forms are sent at once: no
\* form deletes more rows than it has, and no id is taken twice or out of bounds.
THEOREM TypeCorrect == Spec => []TypeOK
<1>1. TypeInv => TypeOK
  <2> SUFFICES ASSUME TypeInv PROVE TypeOK
    OBVIOUS
  <2>1. /\ nextQ \in 1 .. MaxQuestions + 1 /\ nextReg \in 1 .. MaxRegs + 1
    <3>1. /\ Cardinality(Pending) \in Nat /\ Cardinality(Registering) \in Nat
          /\ nextQ \in Nat \ {0} /\ nextReg \in Nat \ {0}
      BY PendingCount, ReqsAssumption, FS_Subset, FS_CardinalityType
         DEF Registering, TypeInv, TablesOK
    <3> QED BY <3>1, BoundsAssumption DEF TypeInv, IdsReserved
  <2> QED BY <2>1 DEF TypeInv, TablesOK, RequestsOK, Fits, Left, TypeOK
<1> QED BY <1>1, TypeInvAlways, PTL

-----------------------------------------------------------------------------
(* The answers.                                                            *)

\* The answer a fits the question k.
FitsQuestion(k, a) == a # Unasked /\ Accepted(k, a)

\* A request that is about to store answers has judged them by the questions that
\* have not changed since.
AnswersInHand ==
    \A q \in Reqs : req[q].pc \in {"class", "insert"} =>
        \A k \in Asked \ caught[q] : FitsQuestion(k, req[q].answer[k])

AnswersInv == AnswersInHand /\ AnswersFit

\* A request of its own, and no change to what is asked, or less asked.
LEMMA AnswersLast ==
    ASSUME AnswersInv, TypeInv, NEW q \in Reqs, NEW s, Become(q, s),
           \A k \in Asked' : k \in Asked /\ question'[k] = question[k],
           UNCHANGED <<reg, history>>,
           s.pc \in {"class", "insert"} =>
               \A k \in Asked \ caught[q] : FitsQuestion(k, s.answer[k])
    PROVE  AnswersInv'
<1>0. req \in [Reqs -> ReqState]
  BY DEF TypeInv, RequestsOK
<1>1. ASSUME NEW k \in Asked', NEW a, FitsQuestion(k, a)
      PROVE  FitsQuestion(k, a)'
  BY <1>1 DEF FitsQuestion, Accepted, Chosen
<1>2. AnswersInHand'
  <2> SUFFICES ASSUME NEW p \in Reqs, req'[p].pc \in {"class", "insert"},
                      NEW k \in Asked', k \notin caught'[p]
               PROVE  FitsQuestion(k, req[p].answer[k])'
    BY DEF AnswersInHand
  <2>1. k \in Asked \ caught[p]
    BY DEF history
  <2>2. req'[p] = IF p = q THEN s ELSE req[p]
    BY <1>0 DEF Become
  <2>3. FitsQuestion(k, req'[p].answer[k])
    BY <2>1, <2>2 DEF AnswersInv, AnswersInHand
  <2> QED BY <1>1, <2>3
<1>3. AnswersFit'
  <2> SUFFICES ASSUME NEW r \in Regs, NEW k \in Asked', reg'[r].row, k \notin newer'[r]
               PROVE  FitsQuestion(k, reg[r].answer[k])'
    BY DEF AnswersFit, FitsQuestion
  <2>1. k \in Asked /\ reg[r].row /\ k \notin newer[r] /\ reg' = reg
    BY DEF history
  <2>2. FitsQuestion(k, reg[r].answer[k])
    BY <2>1 DEF AnswersInv, AnswersFit, FitsQuestion
  <2> QED BY <1>1, <2>1, <2>2
<1> QED BY <1>2, <1>3 DEF AnswersInv

\* A question that changes is noted with every request that is registering, and
\* every registration; one that does not changes nothing.
LEMMA AnswersAfterPut ==
    ASSUME AnswersInv, TypeInv, NEW q \in Reqs, NEW s, Become(q, s),
           s.pc \in {"idle", "rows"},
           req[q].pc \in {"rows", "write"},
           NEW k \in Ids, NEW row, Put(k, row), UNCHANGED reg
    PROVE  AnswersInv'
<1>0. req \in [Reqs -> ReqState] /\ TablesOK
  BY DEF TypeInv, RequestsOK
<1>1. CASE question[k] = row
  <2>1. question' = question /\ UNCHANGED history
    BY <1>0, <1>1 DEF Put, TablesOK
  <2>2. \A j \in Asked' : j \in Asked /\ question'[j] = question[j]
    BY <2>1 DEF Asked
  <2> QED BY <2>1, <2>2, AnswersLast
<1>2. CASE question[k] # row
  <2>1. /\ \A j \in Ids : question'[j] = IF j = k THEN row ELSE question[j]
        /\ \A p \in Reqs : caught'[p] = IF req[p].pc \in {"class", "insert"}
                                       THEN caught[p] \cup {k} ELSE {}
        /\ \A r \in Regs : newer'[r] = IF reg[r].row THEN newer[r] \cup {k} ELSE {}
    BY <1>0, <1>2 DEF Put, TablesOK
  <2>2. ASSUME NEW j \in Asked', j # k
        PROVE  /\ j \in Asked
               /\ \A a : FitsQuestion(j, a) => FitsQuestion(j, a)'
    BY <2>1, <2>2 DEF Asked, FitsQuestion, Accepted, Chosen
  <2>3. AnswersInHand'
    <3> SUFFICES ASSUME NEW p \in Reqs, req'[p].pc \in {"class", "insert"},
                        NEW j \in Asked', j \notin caught'[p]
                 PROVE  FitsQuestion(j, req[p].answer[j])'
      BY DEF AnswersInHand
    <3>1. p # q /\ req'[p] = req[p]
      BY <1>0 DEF Become
    <3>2. j # k /\ j \notin caught[p]
      BY <2>1, <3>1
    <3>3. FitsQuestion(j, req[p].answer[j])
      BY <2>2, <3>1, <3>2 DEF AnswersInv, AnswersInHand
    <3> QED BY <2>2, <3>1, <3>2, <3>3
  <2>4. AnswersFit'
    <3> SUFFICES ASSUME NEW r \in Regs, NEW j \in Asked', reg'[r].row, j \notin newer'[r]
                 PROVE  FitsQuestion(j, reg[r].answer[j])'
      BY DEF AnswersFit, FitsQuestion
    <3>1. reg' = reg /\ j # k /\ j \notin newer[r]
      BY <2>1
    <3>2. FitsQuestion(j, reg[r].answer[j])
      BY <2>2, <3>1 DEF AnswersInv, AnswersFit, FitsQuestion
    <3> QED BY <2>2, <3>1, <3>2
  <2> QED BY <2>3, <2>4 DEF AnswersInv
<1> QED BY <1>1, <1>2

\* The request that is done holds no answers, and nothing changes for the others.
LEMMA OthersInHand ==
    ASSUME AnswersInv, TypeInv, NEW q \in Reqs, Done(q), question' = question,
           caught' = [caught EXCEPT ![q] = {}]
    PROVE  AnswersInHand'
<1> SUFFICES ASSUME NEW p \in Reqs, req'[p].pc \in {"class", "insert"},
                    NEW k \in Asked', k \notin caught'[p]
             PROVE  FitsQuestion(k, req[p].answer[k])'
  BY DEF AnswersInHand
<1>1. p # q /\ req'[p] = req[p] /\ caught'[p] = caught[p]
  BY IdleFits DEF TypeInv, TablesOK, RequestsOK, Done, Become
<1>2. k \in Asked /\ question'[k] = question[k]
  BY DEF Asked
<1>3. FitsQuestion(k, req[p].answer[k])
  BY <1>1, <1>2 DEF AnswersInv, AnswersInHand
<1> QED BY <1>1, <1>2, <1>3 DEF FitsQuestion, Accepted, Chosen

LEMMA AnswersStep ==
    ASSUME AnswersInv, TypeInv, NEW q \in Reqs, Register(q) \/ EditClass(q)
    PROVE  AnswersInv'
<1>0. /\ RequestsOK /\ TablesOK /\ req \in [Reqs -> ReqState]
      /\ req[q] \in ReqState /\ Fits(req[q])
  BY DEF TypeInv, RequestsOK
<1>1. ASSUME NEW s, Become(q, s), s.pc \notin {"class", "insert"},
             \A k \in Asked' : k \in Asked /\ question'[k] = question[k],
             UNCHANGED <<reg, history>>
      PROVE  AnswersInv'
  BY <1>1, AnswersLast
<1>2. Idle.pc \notin {"class", "insert"}
  BY IdleFits
<1>3. question' = question => \A k \in Asked' : k \in Asked /\ question'[k] = question[k]
  BY DEF Asked
<1>4. ASSUME Done(q), question' = question, UNCHANGED <<reg, history>>
      PROVE  AnswersInv'
  BY <1>1, <1>2, <1>3, <1>4 DEF Done
<1>5. ASSUME NEW pc, Go(q, pc), pc \notin {"class", "insert"},
             \A k \in Asked' : k \in Asked /\ question'[k] = question[k],
             UNCHANGED <<reg, history>>
      PROVE  AnswersInv'
  <2>1. [req[q] EXCEPT !.pc = pc].pc = pc
    BY <1>0 DEF ReqState
  <2> QED BY <1>1, <1>5, <2>1 DEF Go
<1>6. ASSUME Go(q, "insert"), question' = question, UNCHANGED <<reg, history>>,
             Asked = {} \/ req[q].pc = "class"
      PROVE  AnswersInv'
  <2> DEFINE s == [req[q] EXCEPT !.pc = "insert"]
  <2>1. s.answer = req[q].answer /\ Become(q, s)
    BY <1>0, <1>6 DEF Go, ReqState
  <2> HIDE DEF s
  <2>2. \A k \in Asked \ caught[q] : FitsQuestion(k, s.answer[k])
    BY <1>6, <2>1 DEF AnswersInv, AnswersInHand
  <2> QED BY <1>3, <1>6, <2>1, <2>2, AnswersLast
<1>7. CASE Select(q)
  BY <1>3, <1>5, <1>7 DEF Select, tables
<1>8. CASE Ask(q)
  BY <1>4, <1>6, <1>8 DEF Ask, NoneAsked, tables
<1>9. CASE LoadClass(q)
  <2>1. CASE UNCHANGED caught
    BY <1>4, <1>6, <1>9, <2>1 DEF LoadClass, At, tables, history
  <2>2. CASE Done(q) /\ caught' = [caught EXCEPT ![q] = {}]
    <3>1. AnswersInHand'
      BY <1>9, <2>2, OthersInHand DEF LoadClass, tables
    <3>2. AnswersFit'
      BY <1>9 DEF LoadClass, tables, AnswersInv, AnswersFit, Asked, Accepted, Chosen
    <3> QED BY <3>1, <3>2 DEF AnswersInv
  <2> QED BY <1>9, <2>1, <2>2 DEF LoadClass
<1>10. CASE Insert(q)
  <2>1. /\ Done(q) /\ question' = question /\ caught' = [caught EXCEPT ![q] = {}]
        /\ req[q].pc = "insert" /\ nextReg \in Nat
        /\ \A r \in Regs : r # nextReg => reg'[r] = reg[r] /\ newer'[r] = newer[r]
        /\ nextReg \in Regs => /\ reg'[nextReg].answer = req[q].answer
                              /\ newer'[nextReg] = caught[q]
    BY <1>0, <1>10 DEF Insert, At, TablesOK, Registration
  <2>2. AnswersInHand'
    BY <2>1, OthersInHand
  <2>3. AnswersFit'
    <3> SUFFICES ASSUME NEW r \in Regs, NEW k \in Asked', reg'[r].row, k \notin newer'[r]
                 PROVE  FitsQuestion(k, reg[r].answer[k])'
      BY DEF AnswersFit, FitsQuestion
    <3>1. k \in Asked /\ question'[k] = question[k]
      BY <1>3, <2>1
    <3>2. FitsQuestion(k, reg'[r].answer[k])
      <4>1. CASE r = nextReg
        BY <2>1, <3>1, <4>1 DEF AnswersInv, AnswersInHand
      <4>2. CASE r # nextReg
        BY <2>1, <3>1, <4>2 DEF AnswersInv, AnswersFit, FitsQuestion
      <4> QED BY <4>1, <4>2
    <3> QED BY <3>1, <3>2 DEF FitsQuestion, Accepted, Chosen
  <2> QED BY <2>2, <2>3 DEF AnswersInv
<1>11. ASSUME NEW form \in [Ids -> Answers \cup {Unasked}], Confirm(q, form)
       PROVE  AnswersInv'
  <2> DEFINE s == [Idle EXCEPT !.pc = "class", !.answer = form]
  <2>1. s.answer = form /\ Become(q, s)
    BY <1>11, IdleFits DEF Confirm, Fits, ReqState
  <2> HIDE DEF s
  <2>2. ASSUME NEW k \in Asked
        PROVE  FitsQuestion(k, form[k])
    <3>1. k \in Ids /\ form[k] \in Typed(k) /\ Accepted(k, form[k])
      BY <1>11 DEF Confirm, Asked
    <3>2. Unasked \notin Typed(k)
      <4>1. Unasked \notin {"", "anything"}
        BY DEF Unasked
      <4>2. Unasked \notin Answers
        BY <4>1, OptionsAssumption DEF Answers
      <4> QED BY <4>1, <4>2 DEF Typed
    <3> QED BY <3>1, <3>2 DEF FitsQuestion
  <2>3. question' = question /\ UNCHANGED <<reg, history>>
    BY <1>11 DEF Confirm, tables
  <2> QED BY <1>3, <2>1, <2>2, <2>3, AnswersLast
<1>12. ASSUME NEW n \in 0..MaxNew, CreateClass(q, n)
       PROVE  AnswersInv'
  <2>1. CASE n = 0
    BY <1>4, <1>12, <2>1 DEF CreateClass
  <2>2. CASE n # 0
    <3>1. [Idle EXCEPT !.pc = "rows", !.added = n].pc = "rows"
      BY IdleFits DEF Fits, ReqState
    <3> QED BY <1>1, <1>3, <1>12, <2>2, <3>1 DEF CreateClass
  <2> QED BY <2>1, <2>2
<1>13. ASSUME NEW n, NEW shown, NEW boxes, Submit(q, shown, n, boxes)
       PROVE  AnswersInv'
  <2>1. [Idle EXCEPT !.pc = "save", !.rows = shown, !.added = n, !.boxes = boxes,
                     !.edit = TRUE].pc = "save"
    BY IdleFits DEF Fits, ReqState
  <2> QED BY <1>1, <1>3, <1>13, <2>1 DEF Submit, tables
<1>14. CASE SaveClass(q)
  BY <1>3, <1>4, <1>5, <1>14 DEF SaveClass
<1>15. ASSUME At(q, "rows") \/ At(q, "write"), NextRow(q)
       PROVE  \E s : Become(q, s) /\ s.pc \in {"idle", "rows"}
  <2>1. req[q].pc \in {"rows", "write"}
    BY <1>15 DEF At
  <2> QED BY <1>0, <1>15, <2>1, NextRowMoves DEF Takes
<1>16. ASSUME At(q, "rows") \/ At(q, "write"), NextRow(q),
              \A k \in Asked' : k \in Asked /\ question'[k] = question[k],
              UNCHANGED <<reg, history>>
       PROVE  AnswersInv'
  BY <1>1, <1>15, <1>16
<1>17. CASE FindQuestion(q)
  BY <1>3, <1>5, <1>16, <1>17 DEF FindQuestion, tables
<1>18. CASE DropQuestion(q)
  <2>1. \A k \in Asked' : k \in Asked /\ question'[k] = question[k]
    BY <1>0, <1>18 DEF DropQuestion, TablesOK, Asked, Deleted, NoQuestion
  <2> QED BY <1>16, <1>18, <2>1 DEF DropQuestion
<1>19. ASSUME NEW required \in BOOLEAN, NEW choices \in Options \cup {{}},
              SaveQuestion(q, required, choices)
       PROVE  AnswersInv'
  <2>1. Id(q) \in Ids /\ req[q].pc = "write"
    <3>1. req[q].rows # {} /\ req[q].rows \in SUBSET Ids
      BY <1>0, <1>19 DEF SaveQuestion, At, Fits, ReqState
    <3> QED BY <1>19, <3>1, IdIsRow DEF SaveQuestion, At
  <2>2. PICK s : Become(q, s) /\ s.pc \in {"idle", "rows"}
    BY <1>15, <1>19 DEF SaveQuestion
  <2> QED BY <1>19, <2>1, <2>2, AnswersAfterPut DEF SaveQuestion
<1>20. ASSUME NEW required \in BOOLEAN, NEW choices \in Options \cup {{}},
              AddQuestion(q, required, choices)
       PROVE  AnswersInv'
  <2>1. CASE Deletes(q)
    BY <1>3, <1>16, <1>20, <2>1 DEF AddQuestion
  <2>2. CASE ~Deletes(q)
    <3>1. nextQ \in Ids /\ req[q].pc = "rows"
      BY <1>0, <1>20, IdForRow DEF AddQuestion, At
    <3>2. PICK s : Become(q, s) /\ s.pc \in {"idle", "rows"}
      BY <1>15, <1>20 DEF AddQuestion
    <3> QED BY <1>20, <2>2, <3>1, <3>2, AnswersAfterPut DEF AddQuestion
  <2> QED BY <2>1, <2>2
<1>21. CASE FindClass(q) \/ CountRoster(q)
  BY <1>3, <1>4, <1>5, <1>21 DEF FindClass, CountRoster, tables
<1>22. CASE DropQuestions(q)
  <2>1. \A k \in Asked' : k \in Asked /\ question'[k] = question[k]
    BY <1>22 DEF DropQuestions, Asked, Deleted, NoQuestion
  <2> QED BY <1>5, <1>22, <2>1 DEF DropQuestions
<1>23. CASE DropClass(q)
  BY <1>4, <1>23 DEF DropClass
<1> QED BY <1>7, <1>8, <1>9, <1>10, <1>11, <1>12, <1>13, <1>14, <1>17, <1>18, <1>19, <1>20,
           <1>21, <1>22, <1>23 DEF Register, EditClass

\* Every registration has answered the questions of the class, and as they demand,
\* except those that are newer than it, or changed while it was being made.
THEOREM AnswersAlwaysFit == Spec => []AnswersFit
<1>1. Init => AnswersInv
  <2> SUFFICES ASSUME Init PROVE AnswersInv
    OBVIOUS
  <2>1. \A r \in Regs : ~reg[r].row
    BY DEF Init
  <2>2. \A q \in Reqs : req[q].pc = "idle"
    BY IdleFits DEF Init
  <2> QED BY <2>1, <2>2 DEF AnswersInv, AnswersInHand, AnswersFit
<1>2. ASSUME AnswersInv, UNCHANGED vars
      PROVE  AnswersInv'
  BY <1>2 DEF vars, tables, history, AnswersInv, AnswersInHand, AnswersFit, FitsQuestion,
     Accepted, Chosen, Asked
<1>3. TypeInv /\ AnswersInv /\ [Next]_vars => AnswersInv'
  BY <1>2, AnswersStep DEF Next
<1>4. AnswersInv => AnswersFit
  BY DEF AnswersInv
<1> QED BY <1>1, <1>3, <1>4, TypeInvAlways, PTL DEF Spec
=============================================================================

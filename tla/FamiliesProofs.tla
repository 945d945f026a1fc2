----------------------------- MODULE FamiliesProofs -----------------------------
(***************************************************************************)
(* Theorems about Families for every set of phones and browsers, and every *)
(* bound.                                                                  *)
(***************************************************************************)
EXTENDS Families, FiniteSetTheorems, TLAPS

-----------------------------------------------------------------------------
(* Type correctness.                                                       *)

ParentRow == [row : {"none", "live", "deleted"}, phone : Cookies]
ChildRow == [row : {"none", "live", "deleted"}, parent : 0..MaxParents]

Adds(s) == s.op \in {"onboard", "newchild"}

\* Which locals a goroutine has set between two statements.
LocalsSet(s) ==
    /\ s.pc \in {"create", "save", "child", "lookup"} => s.phone \in Phones
    /\ s.pc \in {"save", "child"} => s.parent \in ParentIds
    /\ s.pc \in {"owner", "savekid", "dropkid"} => s.child \in KidIds
    /\ s.pc = "child" => Adds(s)
    /\ s.pc \notin {"create", "save", "child"} => ~Adds(s)

\* The handlers that create a row are admitted while an id is left for it.
IdsReserved ==
    /\ nextParent + Cardinality(Creating) <= MaxParents + 1
    /\ nextChild + Cardinality(Adding) <= MaxKids + 1

\* A parent that exists has a phone, and one that is in the books.
LivePhones == \A p \in ParentIds : IsParent(p) => parent[p].phone \in known

TypeInv ==
    /\ TypeOK
    /\ \A q \in Reqs : LocalsSet(req[q])
    /\ IdsReserved
    /\ LivePhones

LEMMA IdleState == Idle \in ReqState /\ LocalsSet(Idle) /\ ~Adds(Idle) /\ Idle.pc = "idle"
<1>1. 0 \in 0..MaxParents /\ 0 \in 0..MaxKids
  BY BoundsAssumption
<1> QED BY <1>1 DEF Idle, ReqState, Cookies, LocalsSet, Adds

\* A set of goroutines that q may join or leave.
LEMMA Counting ==
    ASSUME NEW S \in SUBSET Reqs, NEW T \in SUBSET Reqs, NEW q \in Reqs, T \subseteq S \cup {q}
    PROVE  /\ Cardinality(S) \in Nat /\ Cardinality(T) \in Nat
           /\ Cardinality(T) <= Cardinality(S) + 1
           /\ T \subseteq S => Cardinality(T) <= Cardinality(S)
           /\ q \in S /\ q \notin T => Cardinality(T) <= Cardinality(S) - 1
<1>1. IsFiniteSet(S) /\ IsFiniteSet(T) /\ IsFiniteSet(S \cup {q}) /\ IsFiniteSet(S \ {q})
  BY ReqsAssumption, FS_Subset, FS_AddElement, FS_RemoveElement
<1>2. /\ Cardinality(S) \in Nat /\ Cardinality(T) \in Nat
      /\ Cardinality(S \cup {q}) \in Nat /\ Cardinality(S \ {q}) \in Nat
  BY <1>1, FS_CardinalityType
<1>3. Cardinality(S \cup {q}) <= Cardinality(S) + 1
  BY <1>1, <1>2, FS_AddElement
<1>4. Cardinality(T) <= Cardinality(S \cup {q})
  BY <1>1, FS_Subset
<1>5. T \subseteq S => Cardinality(T) <= Cardinality(S)
  BY <1>1, FS_Subset
<1>6. q \in S => Cardinality(S \ {q}) = Cardinality(S) - 1
  BY <1>1, FS_RemoveElement
<1>7. q \notin T => Cardinality(T) <= Cardinality(S \ {q})
  <2> HAVE q \notin T
  <2>1. T \subseteq S \ {q}
    OBVIOUS
  <2> QED BY <1>1, <2>1, FS_Subset
<1> QED BY <1>2, <1>3, <1>4, <1>5, <1>6, <1>7

\* How the two sets of reservations change when q moves on.
LEMMA Reservations ==
    ASSUME TypeInv, NEW q \in Reqs, NEW s \in ReqState, Become(q, s)
    PROVE  /\ Cardinality(Creating) \in Nat /\ Cardinality(Creating') \in Nat
           /\ Cardinality(Creating') <= Cardinality(Creating) + 1
           /\ s.pc # "create" => Cardinality(Creating') <= Cardinality(Creating)
           /\ At(q, "create") /\ s.pc # "create" =>
                 Cardinality(Creating') <= Cardinality(Creating) - 1
           /\ Cardinality(Adding) \in Nat /\ Cardinality(Adding') \in Nat
           /\ Cardinality(Adding') <= Cardinality(Adding) + 1
           /\ ~Adds(s) \/ Adds(req[q]) => Cardinality(Adding') <= Cardinality(Adding)
           /\ Adds(req[q]) /\ ~Adds(s) => Cardinality(Adding') <= Cardinality(Adding) - 1
<1>1. /\ Creating \in SUBSET Reqs /\ Creating' \in SUBSET Reqs
      /\ Adding \in SUBSET Reqs /\ Adding' \in SUBSET Reqs
  BY DEF Creating, Adding
<1>2. req'[q] = s /\ \A r \in Reqs : r # q => req'[r] = req[r]
  BY DEF Become, TypeInv, TypeOK
<1>3. /\ Creating' \subseteq Creating \cup {q}
      /\ s.pc # "create" => Creating' \subseteq Creating /\ q \notin Creating'
      /\ At(q, "create") => q \in Creating
  BY <1>2 DEF Creating, At
<1>4. /\ Adding' \subseteq Adding \cup {q}
      /\ ~Adds(s) => Adding' \subseteq Adding /\ q \notin Adding'
      /\ Adds(req[q]) => q \in Adding /\ Adding' \subseteq Adding
  BY <1>2 DEF Adding, Adds
<1>5. /\ Cardinality(Creating) \in Nat /\ Cardinality(Creating') \in Nat
      /\ Cardinality(Creating') <= Cardinality(Creating) + 1
      /\ s.pc # "create" => Cardinality(Creating') <= Cardinality(Creating)
      /\ At(q, "create") /\ s.pc # "create" =>
                 Cardinality(Creating') <= Cardinality(Creating) - 1
  BY <1>1, <1>3, Counting
<1>6. /\ Cardinality(Adding) \in Nat /\ Cardinality(Adding') \in Nat
      /\ Cardinality(Adding') <= Cardinality(Adding) + 1
      /\ ~Adds(s) \/ Adds(req[q]) => Cardinality(Adding') <= Cardinality(Adding)
      /\ Adds(req[q]) /\ ~Adds(s) => Cardinality(Adding') <= Cardinality(Adding) - 1
  BY <1>1, <1>4, Counting
<1> QED BY <1>5, <1>6

\* A goroutine moves on and uses no id.
LEMMA Moves ==
    ASSUME TypeInv, NEW q \in Reqs, NEW s \in ReqState, Become(q, s), LocalsSet(s),
           s.pc = "create" => RoomForParent,
           Adds(s) => RoomForChild \/ Adds(req[q]),
           parent' \in [ParentIds -> ParentRow], child' \in [KidIds -> ChildRow],
           UNCHANGED <<nextParent, nextChild>>,
           jar' \in [Reqs -> Cookies], known' \subseteq Phones, moved' \subseteq Phones,
           typed' \in [KidIds -> Cookies], LivePhones'
    PROVE  TypeInv'
<1>1. req' \in [Reqs -> ReqState] /\ \A r \in Reqs : LocalsSet(req'[r])
  BY DEF TypeInv, TypeOK, Become
<1>2. nextParent \in Nat /\ nextChild \in Nat
  BY BoundsAssumption DEF TypeInv, TypeOK
<1>3. IdsReserved'
  BY <1>2, Reservations, BoundsAssumption DEF TypeInv, IdsReserved, RoomForParent, RoomForChild
<1> QED BY <1>1, <1>3 DEF TypeInv, TypeOK, ParentRow, ChildRow

\* A goroutine moves on, or not, and writes no table.
LEMMA Reads ==
    ASSUME TypeInv, NEW q \in Reqs, NEW s \in ReqState, Become(q, s), LocalsSet(s),
           s.pc = "create" => RoomForParent,
           Adds(s) => RoomForChild \/ Adds(req[q]),
           UNCHANGED <<tables, history>>, jar' \in [Reqs -> Cookies]
    PROVE  TypeInv'
<1>1. LivePhones'
  BY DEF TypeInv, LivePhones, IsParent, tables, history
<1>2. /\ parent \in [ParentIds -> ParentRow] /\ child \in [KidIds -> ChildRow]
      /\ known \subseteq Phones /\ moved \subseteq Phones /\ typed \in [KidIds -> Cookies]
  BY DEF TypeInv, TypeOK, ParentRow, ChildRow
<1> QED BY <1>1, <1>2, Moves DEF tables, history

LEMMA CookieOnly ==
    ASSUME TypeInv, UNCHANGED <<tables, req, history>>, jar' \in [Reqs -> Cookies]
    PROVE  TypeInv'
  BY DEF TypeInv, TypeOK, tables, history, IdsReserved, Creating, Adding, At, LivePhones, IsParent

\* What a statement that stores a parent does to the table and its history.
LEMMA PutType ==
    ASSUME TypeInv, NEW p \in ParentIds, NEW ph \in Phones, Put(p, ph)
    PROVE  /\ parent' \in [ParentIds -> ParentRow] /\ LivePhones'
           /\ known' \subseteq Phones /\ moved' \subseteq Phones
<1> DEFINE row == [row |-> "live", phone |-> ph]
<1>0. parent \in [ParentIds -> ParentRow] /\ known \subseteq Phones /\ moved \subseteq Phones
  BY DEF TypeInv, TypeOK, ParentRow
<1>1. row \in ParentRow /\ row.phone = ph
  BY DEF ParentRow, Cookies
<1>2. parent' = [parent EXCEPT ![p] = row] /\ known' = known \cup {ph}
  BY DEF Put
<1> HIDE DEF row
<1>3. parent' \in [ParentIds -> ParentRow]
  BY <1>0, <1>1, <1>2
<1>4. LivePhones'
  BY <1>0, <1>1, <1>2 DEF TypeInv, LivePhones, IsParent
<1>5. moved' \subseteq Phones
  <2>1. parent[p].phone \in Cookies
    BY <1>0 DEF ParentRow
  <2> QED BY <1>0, <2>1 DEF Put, Cookies
<1> QED BY <1>0, <1>2, <1>3, <1>4, <1>5

\* A parent or a child that is created has an id.
LEMMA IdsLeft ==
    ASSUME TypeInv, NEW q \in Reqs
    PROVE  /\ nextParent \in Nat /\ nextChild \in Nat
           /\ At(q, "create") => nextParent \in ParentIds
           /\ Adds(req[q]) => nextChild \in KidIds
<1>1. nextParent \in 1..MaxParents + 1 /\ nextChild \in 1..MaxKids + 1
  BY DEF TypeInv, TypeOK
<1>2. Creating \in SUBSET Reqs /\ Adding \in SUBSET Reqs
  BY DEF Creating, Adding
<1>3. /\ {} \in SUBSET Reqs
      /\ Cardinality({}) = 0
  BY FS_EmptySet
<1>4. /\ Cardinality(Creating) \in Nat /\ Cardinality(Adding) \in Nat
      /\ q \in Creating => Cardinality(Creating) >= 1
      /\ q \in Adding => Cardinality(Adding) >= 1
  BY <1>2, <1>3, Counting
<1>5. (At(q, "create") => q \in Creating) /\ (Adds(req[q]) => q \in Adding)
  BY DEF Creating, Adding, Adds
<1> QED BY <1>1, <1>4, <1>5, BoundsAssumption DEF TypeInv, IdsReserved, ParentIds, KidIds

\* The parent of q is stored, and q goes on.
LEMMA StoredType ==
    ASSUME TypeInv, NEW q \in Reqs, At(q, "create") \/ At(q, "save"), NEW p \in ParentIds,
           Put(p, req[q].phone), Stored(q, p),
           \/ nextParent' = nextParent /\ ~At(q, "create")
           \/ nextParent' = nextParent + 1 /\ At(q, "create") /\ p = nextParent,
           UNCHANGED <<child, nextChild, typed>>
    PROVE  TypeInv'
<1>0. /\ req[q] \in ReqState /\ LocalsSet(req[q]) /\ jar \in [Reqs -> Cookies]
      /\ child \in [KidIds -> ChildRow] /\ typed \in [KidIds -> Cookies]
      /\ req[q].phone \in Phones
  BY DEF TypeInv, TypeOK, ChildRow, LocalsSet, At
<1> DEFINE next == [req[q] EXCEPT !.pc = "child", !.parent = p]
<1>1. PICK s \in ReqState : /\ Become(q, s) /\ LocalsSet(s) /\ s.pc # "create"
                            /\ Adds(s) => Adds(req[q])
  <2>1. CASE req[q].op = "onboard"
    <3>0. p \in 0..MaxParents
      BY BoundsAssumption DEF ParentIds
    <3>1. next \in ReqState
      BY <1>0, <3>0 DEF ReqState
    <3>2. LocalsSet(next) /\ next.pc # "create" /\ (Adds(next) => Adds(req[q]))
      BY <1>0, <2>1 DEF LocalsSet, Adds, ReqState
    <3>3. Become(q, next)
      BY <2>1 DEF Stored
    <3> HIDE DEF next
    <3> QED BY <3>1, <3>2, <3>3
  <2>2. CASE req[q].op # "onboard"
    BY <2>2, IdleState DEF Stored
  <2> QED BY <2>1, <2>2
<1>2. jar' \in [Reqs -> Cookies]
  BY <1>0 DEF Stored, SetCookie, Cookies
<1>3. /\ parent' \in [ParentIds -> ParentRow] /\ LivePhones'
      /\ known' \subseteq Phones /\ moved' \subseteq Phones
  BY <1>0, PutType
<1>4. CASE ~At(q, "create")
  BY <1>0, <1>1, <1>2, <1>3, <1>4, Moves
<1>5. CASE At(q, "create")
  <2>1. req' \in [Reqs -> ReqState] /\ \A r \in Reqs : LocalsSet(req'[r])
    BY <1>1 DEF TypeInv, TypeOK, Become
  <2>2. nextParent' \in 1..MaxParents + 1 /\ nextChild' \in 1..MaxKids + 1
    BY <1>5, IdsLeft, BoundsAssumption DEF TypeInv, TypeOK, ParentIds
  <2>3. IdsReserved'
    BY <1>1, <1>5, IdsLeft, Reservations, BoundsAssumption DEF TypeInv, IdsReserved
  <2> QED BY <1>0, <1>2, <1>3, <2>1, <2>2, <2>3 DEF TypeInv, TypeOK, ParentRow, ChildRow
<1> QED BY <1>4, <1>5

LEMMA VisitType ==
    ASSUME TypeInv, NEW q \in Reqs, Visit(q)
    PROVE  TypeInv'
<1>0. /\ jar \in [Reqs -> Cookies] /\ req[q] \in ReqState /\ LocalsSet(req[q])
      /\ \A p \in ParentIds : \A ph : p \in HolderOf(ph) => ph \in known
      /\ known \subseteq Phones /\ None \in Cookies /\ Phones \subseteq Cookies
      /\ ParentIds \subseteq 0..MaxParents /\ KidIds \subseteq 0..MaxKids
  BY BoundsAssumption
     DEF TypeInv, TypeOK, Cookies, HolderOf, LivePhones, IsParent, ParentIds, KidIds
<1>1. ASSUME NEW ph \in Cookies, Remember(q, ph) \/ Forget(q)
      PROVE  TypeInv'
  <2>1. jar' \in [Reqs -> Cookies]
    BY <1>0, <1>1 DEF Remember, Forget, SetCookie
  <2> QED BY <1>1, <2>1, CookieOnly DEF Remember, Forget
<1>2. ASSUME NEW ph \in Phones, Onboard(q, ph)
      PROVE  TypeInv'
  <2> DEFINE form == [Idle EXCEPT !.op = "onboard", !.phone = ph]
             create == [form EXCEPT !.pc = "create"]
  <2>1. jar' = jar /\ UNCHANGED <<tables, history>>
    BY <1>2 DEF Onboard
  <2>2. ASSUME NEW p \in HolderOf(ph), NEW pc \in {"save", "child"},
               Become(q, [form EXCEPT !.pc = pc, !.parent = p])
        PROVE  TypeInv'
    <3> DEFINE s == [form EXCEPT !.pc = pc, !.parent = p]
    <3>0. p \in ParentIds
      BY <2>2 DEF HolderOf
    <3>1. s \in ReqState
      BY <1>0, <3>0, IdleState DEF ReqState
    <3>2. LocalsSet(s) /\ s.pc # "create"
      BY <3>0 DEF Idle, LocalsSet, Adds
    <3>3. Become(q, s) /\ RoomForChild
      BY <1>2, <2>2 DEF Onboard
    <3> HIDE DEF s
    <3> QED BY <1>0, <2>1, <3>1, <3>2, <3>3, Reads
  <2>3. CASE RoomForParent /\ Become(q, create)
    <3>1. create \in ReqState
      BY <1>0, IdleState DEF ReqState
    <3>2. LocalsSet(create)
      BY DEF Idle, LocalsSet, Adds
    <3>3. RoomForChild
      BY <1>2 DEF Onboard
    <3> HIDE DEF create
    <3> QED BY <1>0, <2>1, <2>3, <3>1, <3>2, <3>3, Reads
  <2> QED BY <1>2, <2>2, <2>3 DEF Onboard
<1>3. ASSUME NEW ph \in Phones, NewChild(q, ph)
      PROVE  TypeInv'
  <2>1. PICK p \in HolderOf(ph) :
          Become(q, [Idle EXCEPT !.op = "newchild", !.pc = "child", !.parent = p, !.phone = ph])
    BY <1>3 DEF NewChild
  <2> DEFINE s == [Idle EXCEPT !.op = "newchild", !.pc = "child", !.parent = p, !.phone = ph]
  <2>2. p \in ParentIds
    BY DEF HolderOf
  <2>3. s \in ReqState
    BY <1>0, <2>2, IdleState DEF ReqState
  <2>4. LocalsSet(s) /\ s.pc # "create"
    BY <2>2 DEF Idle, LocalsSet, Adds
  <2>5. RoomForChild /\ UNCHANGED <<tables, jar, history>>
    BY <1>3 DEF NewChild
  <2> HIDE DEF s
  <2> QED BY <1>0, <2>1, <2>3, <2>4, <2>5, Reads DEF s
<1>4. ASSUME NEW ph \in Phones, Profile(q, ph)
      PROVE  TypeInv'
  <2> DEFINE form == [Idle EXCEPT !.op = "profile", !.phone = ph]
             lookup == [form EXCEPT !.pc = "lookup"]
             create == [form EXCEPT !.pc = "create"]
  <2>1. UNCHANGED <<tables, history>>
    BY <1>4 DEF Profile
  <2>2. ASSUME NEW p \in HolderOf(jar[q]), UNCHANGED jar,
               Become(q, [form EXCEPT !.pc = "save", !.parent = p])
        PROVE  TypeInv'
    <3> DEFINE s == [form EXCEPT !.pc = "save", !.parent = p]
    <3>0. p \in ParentIds
      BY <2>2 DEF HolderOf
    <3>1. s \in ReqState
      BY <1>0, <3>0, IdleState DEF ReqState
    <3>2. LocalsSet(s) /\ s.pc # "create" /\ ~Adds(s)
      BY <3>0 DEF Idle, LocalsSet, Adds
    <3> HIDE DEF s
    <3> QED BY <1>0, <2>1, <2>2, <3>1, <3>2, Reads DEF s
  <2>3. CASE Become(q, lookup) /\ UNCHANGED jar
    <3>1. lookup \in ReqState
      BY <1>0, IdleState DEF ReqState
    <3>2. LocalsSet(lookup) /\ lookup.pc # "create" /\ ~Adds(lookup)
      BY DEF Idle, LocalsSet, Adds
    <3> HIDE DEF lookup
    <3> QED BY <1>0, <2>1, <2>3, <3>1, <3>2, Reads
  <2>4. CASE RoomForParent /\ Become(q, create) /\ \E url \in Phones : SetCookie(q, url)
    <3>1. create \in ReqState
      BY <1>0, IdleState DEF ReqState
    <3>2. LocalsSet(create) /\ ~Adds(create)
      BY DEF Idle, LocalsSet, Adds
    <3>3. jar' \in [Reqs -> Cookies]
      BY <1>0, <2>4 DEF SetCookie
    <3> HIDE DEF create
    <3> QED BY <1>0, <2>1, <2>4, <3>1, <3>2, <3>3, Reads
  <2> QED BY <1>4, <2>2, <2>3, <2>4 DEF Profile
<1>5. ASSUME NEW ph \in Phones, NEW p \in ParentIds, AdminParentUpdate(q, p, ph)
      PROVE  TypeInv'
  <2> DEFINE s == [Idle EXCEPT !.op = "admin", !.pc = "save", !.parent = p, !.phone = ph]
  <2>1. s \in ReqState
    BY <1>0, IdleState DEF ReqState
  <2>2. LocalsSet(s) /\ s.pc # "create" /\ ~Adds(s)
    BY DEF Idle, LocalsSet, Adds
  <2>3. Become(q, s) /\ UNCHANGED <<tables, jar, history>>
    BY <1>5 DEF AdminParentUpdate
  <2> HIDE DEF s
  <2> QED BY <1>0, <2>1, <2>2, <2>3, Reads
<1>6. ASSUME NEW ph \in Phones, NEW k \in KidIds, AccountEditChild(q, ph, k)
      PROVE  TypeInv'
  <2>1. PICK p \in HolderOf(ph) :
          Become(q, [Idle EXCEPT !.op = "kid", !.pc = "owner", !.parent = p, !.child = k])
    BY <1>6 DEF AccountEditChild
  <2> DEFINE s == [Idle EXCEPT !.op = "kid", !.pc = "owner", !.parent = p, !.child = k]
  <2>2. p \in ParentIds
    BY DEF HolderOf
  <2>3. s \in ReqState
    BY <1>0, <2>2, IdleState DEF ReqState
  <2>4. LocalsSet(s) /\ s.pc # "create" /\ ~Adds(s)
    BY DEF Idle, LocalsSet, Adds
  <2>5. UNCHANGED <<tables, jar, history>>
    BY <1>6 DEF AccountEditChild
  <2> HIDE DEF s
  <2> QED BY <1>0, <2>1, <2>3, <2>4, <2>5, Reads DEF s
<1>7. ASSUME NEW k \in KidIds, AdminChildUpdate(q, k) \/ ReadForDropChild(q, k)
      PROVE  TypeInv'
  <2>1. PICK pc \in {"savekid", "dropkid"} :
          Become(q, [Idle EXCEPT !.op = "kid", !.pc = pc, !.child = k])
    BY <1>7 DEF AdminChildUpdate, ReadForDropChild
  <2> DEFINE s == [Idle EXCEPT !.op = "kid", !.pc = pc, !.child = k]
  <2>2. s \in ReqState
    BY <1>0, IdleState DEF ReqState
  <2>3. LocalsSet(s) /\ s.pc # "create" /\ ~Adds(s)
    BY DEF Idle, LocalsSet, Adds
  <2>4. UNCHANGED <<tables, jar, history>>
    BY <1>7 DEF AdminChildUpdate, ReadForDropChild
  <2> HIDE DEF s
  <2> QED BY <1>0, <2>1, <2>2, <2>3, <2>4, Reads DEF s
<1> QED BY <1>0, <1>1, <1>2, <1>3, <1>4, <1>5, <1>6, <1>7
        DEF Visit, AccountLogout, RegisterPhoneSubmit, RegisterKidsForm, ByUrl, RegisterPhoneForm

LEMMA StepType ==
    ASSUME TypeInv, NEW q \in Reqs, Step(q)
    PROVE  TypeInv'
<1>0. /\ jar \in [Reqs -> Cookies] /\ req[q] \in ReqState /\ LocalsSet(req[q])
      /\ parent \in [ParentIds -> ParentRow] /\ child \in [KidIds -> ChildRow]
      /\ typed \in [KidIds -> Cookies]
      /\ known \subseteq Phones /\ moved \subseteq Phones /\ LivePhones
      /\ 0 \in 0..MaxParents /\ ParentIds \subseteq 0..MaxParents
  BY BoundsAssumption DEF TypeInv, TypeOK, ParentRow, ChildRow, ParentIds
<1>1. ASSUME Refused(q)
      PROVE  TypeInv'
  BY <1>0, <1>1, IdleState, Reads DEF Refused
<1>2. CASE CreateParent(q)
  <2>1. CASE Refused(q)
    BY <1>1, <2>1
  <2>2. CASE ~Registered(req[q].phone)
    BY <1>2, <2>2, IdsLeft, StoredType DEF CreateParent
  <2> QED BY <1>2, <2>1, <2>2 DEF CreateParent
<1>3. CASE SaveParent(q)
  <2>1. CASE Refused(q)
    BY <1>1, <2>1
  <2>2. CASE ~Taken(req[q].phone, req[q].parent)
    <3>1. req[q].parent \in ParentIds /\ At(q, "save") /\ ~At(q, "create")
      BY <1>0, <1>3 DEF SaveParent, LocalsSet, At
    <3> QED BY <1>3, <2>2, <3>1, StoredType DEF SaveParent
  <2> QED BY <1>3, <2>1, <2>2 DEF SaveParent
<1>4. CASE CreateChild(q)
  <2>1. CASE Refused(q)
    BY <1>1, <2>1
  <2>2. CASE ForeignKeyHolds(req[q].parent)
    <3> DEFINE row == [row |-> "live", parent |-> req[q].parent]
    <3>1. /\ req[q].phone \in Phones /\ req[q].parent \in ParentIds /\ Adds(req[q])
          /\ ~At(q, "create")
      BY <1>0, <1>4 DEF CreateChild, At, LocalsSet
    <3>2. row \in ChildRow
      BY <1>0, <3>1 DEF ChildRow
    <3>3. child' = [child EXCEPT ![nextChild] = row] /\ nextChild' = nextChild + 1
          /\ typed' = [typed EXCEPT ![nextChild] = req[q].phone]
          /\ UNCHANGED <<parent, nextParent, known, moved>> /\ Become(q, Idle)
      BY <1>4, <2>2 DEF CreateChild
    <3> HIDE DEF row
    <3>4. child' \in [KidIds -> ChildRow] /\ typed' \in [KidIds -> Cookies]
      BY <1>0, <3>1, <3>2, <3>3 DEF Cookies
    <3>5. jar' \in [Reqs -> Cookies]
      BY <1>0, <1>4, <2>2, <3>1 DEF CreateChild, SetCookie, Cookies
    <3>6. req' \in [Reqs -> ReqState] /\ \A r \in Reqs : LocalsSet(req'[r])
      BY <3>3, IdleState DEF TypeInv, TypeOK, Become
    <3>7. nextChild' \in 1..MaxKids + 1 /\ nextParent' \in 1..MaxParents + 1
      BY <3>1, <3>3, IdsLeft, BoundsAssumption DEF TypeInv, TypeOK, KidIds
    <3>8. IdsReserved'
      BY <3>1, <3>3, IdsLeft, IdleState, Reservations, BoundsAssumption DEF TypeInv, IdsReserved
    <3>9. LivePhones'
      BY <1>0, <3>3 DEF LivePhones, IsParent
    <3> QED BY <1>0, <3>3, <3>4, <3>5, <3>6, <3>7, <3>8, <3>9
            DEF TypeInv, TypeOK, ParentRow, ChildRow
  <2> QED BY <1>4, <2>1, <2>2 DEF CreateChild
<1>5. CASE LookupTyped(q)
  <2>1. UNCHANGED <<tables, jar, history>>
    BY <1>5 DEF LookupTyped
  <2>2. ASSUME NEW p \in HolderOf(req[q].phone), Become(q, [req[q] EXCEPT !.pc = "save", !.parent = p])
        PROVE  TypeInv'
    <3> DEFINE s == [req[q] EXCEPT !.pc = "save", !.parent = p]
    <3>0. p \in ParentIds
      BY <2>2 DEF HolderOf
    <3>1. s \in ReqState
      BY <1>0, <3>0 DEF ReqState
    <3>2. LocalsSet(s) /\ s.pc # "create" /\ (Adds(s) => Adds(req[q]))
      BY <1>0, <1>5, <3>0 DEF LookupTyped, At, ReqState, LocalsSet, Adds
    <3> HIDE DEF s
    <3> QED BY <1>0, <2>1, <2>2, <3>1, <3>2, Reads DEF s
  <2> QED BY <1>0, <1>5, <2>1, <2>2, IdleState, Reads DEF LookupTyped
<1>6. CASE CheckOwner(q)
  <2> DEFINE s == [req[q] EXCEPT !.pc = "savekid", !.parent = 0]
  <2>1. s \in ReqState
    BY <1>0 DEF ReqState
  <2>2. LocalsSet(s) /\ s.pc # "create" /\ (Adds(s) => Adds(req[q]))
    BY <1>0, <1>6 DEF CheckOwner, At, ReqState, LocalsSet, Adds
  <2>3. UNCHANGED <<tables, jar, history>> /\ (Become(q, s) \/ Become(q, Idle))
    BY <1>6 DEF CheckOwner
  <2> HIDE DEF s
  <2> QED BY <1>0, <2>1, <2>2, <2>3, IdleState, Reads
<1>7. CASE SaveChild(q) \/ DropChild(q)
  <2>1. CASE Refused(q)
    BY <1>1, <2>1
  <2>2. CASE ~Refused(q)
    <3>1. child' \in [KidIds -> ChildRow]
      BY <1>0, <1>7, <2>2 DEF SaveChild, DropChild, ChildRow
    <3>2. Become(q, Idle) /\ UNCHANGED <<parent, nextParent, nextChild, jar, history>>
      BY <1>7, <2>2 DEF SaveChild, DropChild
    <3>3. LivePhones'
      BY <1>0, <3>2 DEF LivePhones, IsParent, history
    <3> QED BY <1>0, <3>1, <3>2, <3>3, IdleState, Moves DEF history
  <2> QED BY <2>1, <2>2
<1> QED BY <1>2, <1>3, <1>4, <1>5, <1>6, <1>7 DEF Step

LEMMA DeleteType ==
    ASSUME TypeInv, NEW p \in ParentIds, AdminParentDelete(p)
    PROVE  TypeInv'
<1>0. /\ parent \in [ParentIds -> ParentRow] /\ child \in [KidIds -> ChildRow]
      /\ known \subseteq Phones /\ moved \subseteq Phones /\ LivePhones
  BY DEF TypeInv, TypeOK, ParentRow, ChildRow
<1>1. parent' \in [ParentIds -> ParentRow]
  BY <1>0 DEF AdminParentDelete, ParentRow, Cookies
<1>2. child' \in [KidIds -> ChildRow]
  <2> DEFINE dropped(k) == [child[k] EXCEPT !.row = "deleted"]
  <2>1. \A k \in KidIds : dropped(k) \in ChildRow
    BY <1>0 DEF ChildRow
  <2>2. child' = [k \in KidIds |-> IF child[k].row = "live" /\ child[k].parent = p
                                   THEN dropped(k) ELSE child[k]]
    BY DEF AdminParentDelete
  <2> HIDE DEF dropped
  <2> QED BY <1>0, <2>1, <2>2
<1>3. moved' \subseteq Phones
  BY <1>0 DEF AdminParentDelete, LivePhones
<1>4. LivePhones'
  BY <1>0 DEF AdminParentDelete, LivePhones, IsParent
<1> QED BY <1>0, <1>1, <1>2, <1>3, <1>4
        DEF AdminParentDelete, TypeInv, TypeOK, IdsReserved, Creating, Adding, At,
            ParentRow, ChildRow

LEMMA TypeInvStep == TypeInv /\ [Next]_vars => TypeInv'
<1> SUFFICES ASSUME TypeInv, [Next]_vars
             PROVE  TypeInv'
  OBVIOUS
<1>1. CASE UNCHANGED vars
  BY <1>1 DEF vars, tables, history, TypeInv, TypeOK, IdsReserved, Creating, Adding, At,
              LivePhones, IsParent
<1> QED BY <1>1, VisitType, StepType, DeleteType DEF Next

LEMMA TypeInvInit == Init => TypeInv
<1> SUFFICES ASSUME Init PROVE TypeInv
  OBVIOUS
<1>1. Creating = {} /\ Adding = {}
  BY DEF Init, Creating, Adding, At, Idle
<1>2. IdsReserved
  BY <1>1, FS_EmptySet, BoundsAssumption DEF Init, IdsReserved
<1>3. /\ parent \in [ParentIds -> ParentRow] /\ child \in [KidIds -> ChildRow]
      /\ nextParent \in 1..MaxParents + 1 /\ nextChild \in 1..MaxKids + 1
  BY BoundsAssumption DEF Init, ParentRow, ChildRow, Cookies
<1>4. LivePhones
  BY DEF Init, LivePhones, IsParent
<1> QED BY <1>2, <1>3, <1>4, IdleState DEF Init, TypeInv, TypeOK, ParentRow, ChildRow, Cookies

\* Every reachable state is well formed: in particular no handler runs out of ids
\* and every statement has the parent, phone or child it writes.
THEOREM TypeCorrect == Spec => []TypeOK
<1>1. TypeInv => TypeOK
  BY DEF TypeInv
<1> QED BY <1>1, TypeInvInit, TypeInvStep, PTL DEF Spec
-----------------------------------------------------------------------------
(* Children, their parents and the phones they were entered under.         *)

PhonesDiffer ==
    \A p, r \in ParentIds :
        IsParent(p) /\ IsParent(r) /\ parent[p].phone = parent[r].phone => p = r

\* p is the parent whose phone was ph, for as long as nobody gave ph up.
Faithful(p, ph) == ph \in known /\ (ph \notin moved => IsParent(p) /\ parent[p].phone = ph)

ChildrenTyped == \A k \in KidIds : child[k].parent # 0 => Faithful(child[k].parent, typed[k])

HandlersTyped == \A q \in Reqs : At(q, "child") => Faithful(req[q].parent, req[q].phone)

FamilyInv ==
    /\ TypeInv
    /\ PhonesDiffer
    /\ ChildrenTyped
    /\ ChildrenHaveParents
    /\ HandlersTyped
    /\ CookieOfAParent

\* What every write of a parent leaves as it was.
Keeps ==
    /\ known \subseteq known' /\ moved \subseteq moved'
    /\ \A p \in ParentIds :
          IsParent(p) => \/ IsParent(p)' /\ parent'[p].phone = parent[p].phone
                         \/ parent[p].phone \in moved'

LEMMA Kept ==
    ASSUME Keeps, NEW r, NEW x, Faithful(r, x)
    PROVE  Faithful(r, x)'
<1>1. IsParent(r) => r \in ParentIds
  BY DEF IsParent
<1> QED BY <1>1 DEF Keeps, Faithful

LEMMA PutKeeps ==
    ASSUME TypeInv, PhonesDiffer, NEW p \in ParentIds, NEW ph \in Phones, Put(p, ph),
           ~Taken(ph, p)
    PROVE  /\ Keeps /\ PhonesDiffer' /\ Faithful(p, ph)'
           /\ \A r \in ParentIds : IsParent(r) => IsParent(r)'
<1> DEFINE row == [row |-> "live", phone |-> ph]
<1>1. row.row = "live" /\ row.phone = ph
  OBVIOUS
<1>2. /\ parent' = [parent EXCEPT ![p] = row] /\ known' = known \cup {ph}
      /\ moved' = moved \cup ({parent[p].phone} \ {ph, None})
  BY DEF Put
<1> HIDE DEF row
<1>3. \A r \in ParentIds : parent'[r] = IF r = p THEN row ELSE parent[r]
  BY <1>2 DEF TypeInv, TypeOK
<1>4. \A r \in ParentIds : IsParent(r) => parent[r].phone # None
  BY NoneAssumption DEF TypeInv, TypeOK, LivePhones
<1>5. Keeps
  BY <1>1, <1>2, <1>3, <1>4 DEF Keeps, IsParent
<1>6. \A r \in ParentIds : IsParent(r) /\ r # p => parent[r].phone # ph
  BY DEF Taken, HolderOf, IsParent
<1>7. PhonesDiffer'
  BY <1>1, <1>3, <1>6 DEF PhonesDiffer, IsParent
<1>8. Faithful(p, ph)'
  BY <1>1, <1>2, <1>3 DEF Faithful, IsParent
<1> QED BY <1>1, <1>3, <1>5, <1>7, <1>8 DEF IsParent

\* q moves on, and perhaps a parent or a child is written.
LEMMA Writes ==
    ASSUME FamilyInv, TypeInv', NEW q \in Reqs, NEW s, Become(q, s), Keeps,
           s.pc = "child" => Faithful(s.parent, s.phone)',
           PhonesDiffer', ChildrenTyped', ChildrenHaveParents',
           \A r \in Reqs : jar'[r] = jar[r] \/ jar'[r] \in known' \cup {None}
    PROVE  FamilyInv'
<1>1. \A r \in Reqs : req'[r] = IF r = q THEN s ELSE req[r]
  BY DEF FamilyInv, TypeInv, TypeOK, Become
<1>2. HandlersTyped'
  <2> SUFFICES ASSUME NEW r \in Reqs, At(r, "child")'
               PROVE  Faithful(req[r].parent, req[r].phone)'
    BY DEF HandlersTyped
  <2>1. PICK t, x : t = req'[r].parent /\ x = req'[r].phone
    OBVIOUS
  <2>2. CASE r = q
    <3>1. req'[r] = s /\ s.pc = "child"
      BY <1>1, <2>2 DEF At
    <3>2. Faithful(s.parent, s.phone)'
      BY <3>1
    <3> QED BY <3>1, <3>2 DEF Faithful, IsParent
  <2>3. CASE r # q
    <3>1. req'[r] = req[r] /\ Faithful(req[r].parent, req[r].phone)
      BY <1>1, <2>3 DEF At, FamilyInv, HandlersTyped
    <3>2. Faithful(t, x)'
      BY <2>1, <3>1, Kept
    <3> QED BY <2>1, <3>2 DEF Faithful, IsParent
  <2> QED BY <2>2, <2>3
<1>3. CookieOfAParent'
  BY DEF FamilyInv, CookieOfAParent, Keeps
<1> QED BY <1>2, <1>3 DEF FamilyInv

LEMMA SameTables ==
    ASSUME UNCHANGED <<tables, history>>
    PROVE  /\ Keeps /\ PhonesDiffer' = PhonesDiffer /\ ChildrenTyped' = ChildrenTyped
           /\ ChildrenHaveParents' = ChildrenHaveParents
           /\ \A p, ph : Faithful(p, ph)' = Faithful(p, ph)
  BY DEF tables, history, Keeps, PhonesDiffer, ChildrenTyped, ChildrenHaveParents, Faithful,
         IsParent, IsChild

\* q moves on and writes no table.
LEMMA Looks ==
    ASSUME FamilyInv, TypeInv', NEW q \in Reqs, NEW s, Become(q, s),
           UNCHANGED <<tables, history>>,
           s.pc = "child" => Faithful(s.parent, s.phone),
           \A r \in Reqs : jar'[r] = jar[r] \/ jar'[r] \in known \cup {None}
    PROVE  FamilyInv'
<1>1. /\ Keeps /\ PhonesDiffer' /\ ChildrenTyped' /\ ChildrenHaveParents'
      /\ s.pc = "child" => Faithful(s.parent, s.phone)'
  <2>1. PICK t, x : t = s.parent /\ x = s.phone
    OBVIOUS
  <2>2. Faithful(t, x)' = Faithful(t, x)
    BY SameTables
  <2> QED BY <2>1, <2>2, SameTables DEF FamilyInv
<1>2. known' = known
  BY DEF history
<1> QED BY <1>1, <1>2, Writes

LEMMA CookieSet ==
    ASSUME FamilyInv, TypeInv', UNCHANGED <<tables, req, history>>,
           \A r \in Reqs : jar'[r] = jar[r] \/ jar'[r] \in known \cup {None}
    PROVE  FamilyInv'
<1>1. HandlersTyped'
  <2> SUFFICES ASSUME NEW r \in Reqs, At(r, "child")
               PROVE  Faithful(req[r].parent, req[r].phone)'
    BY DEF HandlersTyped, At
  <2>1. PICK t, x : t = req[r].parent /\ x = req[r].phone
    OBVIOUS
  <2>2. Faithful(t, x)' = Faithful(t, x)
    BY SameTables
  <2> QED BY <2>1, <2>2 DEF FamilyInv, HandlersTyped
<1>2. CookieOfAParent'
  BY DEF FamilyInv, CookieOfAParent, history
<1> QED BY <1>1, <1>2, SameTables DEF FamilyInv
LEMMA VisitFamily ==
    ASSUME FamilyInv, NEW q \in Reqs, Visit(q)
    PROVE  FamilyInv'
<1>0. /\ TypeInv'
      /\ \A ph : \A p \in HolderOf(ph) : Faithful(p, ph)
      /\ \A ph : Registered(ph) => ph \in known
      /\ Idle.pc = "idle"
  <2>1. TypeInv'
    BY VisitType DEF FamilyInv
  <2>2. \A ph : \A p \in HolderOf(ph) : ph \in known /\ IsParent(p) /\ parent[p].phone = ph
    BY DEF FamilyInv, TypeInv, LivePhones, HolderOf, IsParent
  <2> QED BY <2>1, <2>2 DEF Faithful, Registered, Idle
<1>1. ASSUME NEW ph, Remember(q, ph) \/ Forget(q)
      PROVE  FamilyInv'
  <2>1. \A r \in Reqs : jar'[r] = jar[r] \/ jar'[r] \in known \cup {None}
    BY <1>0, <1>1 DEF Remember, Forget, SetCookie, FamilyInv, TypeInv, TypeOK
  <2> QED BY <1>0, <1>1, <2>1, CookieSet DEF Remember, Forget
<1>2. ASSUME NEW ph \in Phones, Onboard(q, ph)
      PROVE  FamilyInv'
  <2> DEFINE form == [Idle EXCEPT !.op = "onboard", !.phone = ph]
             create == [form EXCEPT !.pc = "create"]
  <2>1. UNCHANGED <<tables, jar, history>>
    BY <1>2 DEF Onboard
  <2>2. ASSUME NEW p \in HolderOf(ph), NEW pc \in {"save", "child"},
               Become(q, [form EXCEPT !.pc = pc, !.parent = p])
        PROVE  FamilyInv'
    <3> DEFINE s == [form EXCEPT !.pc = pc, !.parent = p]
    <3>1. s.parent = p /\ s.phone = ph
      BY DEF Idle
    <3>2. Become(q, s)
      BY <2>2
    <3> HIDE DEF s
    <3> QED BY <1>0, <2>1, <3>1, <3>2, Looks
  <2>3. CASE Become(q, create)
    <3>1. create.pc # "child"
      BY DEF Idle
    <3> HIDE DEF create
    <3> QED BY <1>0, <2>1, <2>3, <3>1, Looks
  <2> QED BY <1>2, <2>2, <2>3 DEF Onboard
<1>3. ASSUME NEW ph \in Phones, NewChild(q, ph)
      PROVE  FamilyInv'
  <2>1. PICK p \in HolderOf(ph) :
          Become(q, [Idle EXCEPT !.op = "newchild", !.pc = "child", !.parent = p, !.phone = ph])
    BY <1>3 DEF NewChild
  <2> DEFINE s == [Idle EXCEPT !.op = "newchild", !.pc = "child", !.parent = p, !.phone = ph]
  <2>2. s.parent = p /\ s.phone = ph
    BY DEF Idle
  <2>3. Become(q, s) /\ UNCHANGED <<tables, jar, history>>
    BY <1>3, <2>1 DEF NewChild
  <2> HIDE DEF s
  <2> QED BY <1>0, <2>2, <2>3, Looks
<1>4. ASSUME NEW ph \in Phones, Profile(q, ph)
      PROVE  FamilyInv'
  <2> DEFINE form == [Idle EXCEPT !.op = "profile", !.phone = ph]
             save(p) == [form EXCEPT !.pc = "save", !.parent = p]
             at(pc) == [form EXCEPT !.pc = pc]
  <2>0. \A p : save(p).pc # "child" /\ at("lookup").pc # "child" /\ at("create").pc # "child"
    BY DEF Idle
  <2>3. (\E p : Become(q, save(p))) \/ Become(q, at("lookup")) \/ Become(q, at("create"))
    BY <1>4 DEF Profile
  <2> HIDE DEF save, at
  <2>1. PICK s : Become(q, s) /\ s.pc # "child"
    BY <2>0, <2>3
  <2>2. \A r \in Reqs : jar'[r] = jar[r] \/ jar'[r] \in known \cup {None}
    BY <1>0, <1>4 DEF Profile, SetCookie, FamilyInv, TypeInv, TypeOK
  <2> QED BY <1>0, <1>4, <2>1, <2>2, Looks DEF Profile
<1>5. ASSUME NEW s, Become(q, s), s.pc # "child", UNCHANGED <<tables, jar, history>>
      PROVE  FamilyInv'
  BY <1>0, <1>5, Looks
<1>6. ASSUME NEW ph \in Phones, NEW p \in ParentIds, AdminParentUpdate(q, p, ph)
      PROVE  FamilyInv'
  BY <1>5, <1>6 DEF AdminParentUpdate, Idle
<1>7. ASSUME NEW ph \in Phones, NEW k \in KidIds, AccountEditChild(q, ph, k)
      PROVE  FamilyInv'
  BY <1>5, <1>7 DEF AccountEditChild, Idle
<1>8. ASSUME NEW k \in KidIds, AdminChildUpdate(q, k) \/ ReadForDropChild(q, k)
      PROVE  FamilyInv'
  BY <1>5, <1>8 DEF AdminChildUpdate, ReadForDropChild, Idle
<1> QED BY <1>1, <1>2, <1>3, <1>4, <1>6, <1>7, <1>8
        DEF Visit, AccountLogout, RegisterPhoneSubmit, RegisterKidsForm, ByUrl, RegisterPhoneForm

\* The parent of q is stored: no other has its phone.
LEMMA StoredFamily ==
    ASSUME FamilyInv, TypeInv', NEW q \in Reqs, At(q, "create") \/ At(q, "save"),
           NEW p \in ParentIds, Put(p, req[q].phone), ~Taken(req[q].phone, p), Stored(q, p),
           UNCHANGED <<child, nextChild, typed>>
    PROVE  FamilyInv'
<1>1. req[q].phone \in Phones /\ req[q] \in ReqState
  BY DEF FamilyInv, TypeInv, TypeOK, LocalsSet, At
<1>2. PICK ph \in Phones : ph = req[q].phone
  BY <1>1
<1>3. /\ Keeps /\ PhonesDiffer' /\ Faithful(p, ph)'
      /\ \A r \in ParentIds : IsParent(r) => IsParent(r)'
  BY <1>2, PutKeeps DEF FamilyInv
<1>4. PICK s : /\ Become(q, s)
               /\ s.pc = "child" => s.parent = p /\ s.phone = ph
  <2> DEFINE next == [req[q] EXCEPT !.pc = "child", !.parent = p]
  <2>1. next.parent = p /\ next.phone = ph /\ Idle.pc = "idle"
    BY <1>1, <1>2 DEF ReqState, Idle
  <2>2. Become(q, next) \/ Become(q, Idle)
    BY DEF Stored
  <2> HIDE DEF next
  <2> QED BY <2>1, <2>2
<1>5. s.pc = "child" => Faithful(s.parent, s.phone)'
  BY <1>3, <1>4 DEF Faithful, IsParent
<1>6. ChildrenTyped'
  <2> SUFFICES ASSUME NEW k \in KidIds, child[k].parent # 0
               PROVE  Faithful(child[k].parent, typed[k])'
    BY DEF ChildrenTyped
  <2>1. PICK t, x : t = child[k].parent /\ x = typed[k]
    OBVIOUS
  <2>2. Faithful(t, x)
    BY <2>1 DEF FamilyInv, ChildrenTyped
  <2>3. Faithful(t, x)'
    BY <1>3, <2>2, Kept
  <2> QED BY <2>1, <2>3 DEF Faithful, IsParent
<1>7. ChildrenHaveParents'
  <2> SUFFICES ASSUME NEW k \in KidIds, IsChild(k)
               PROVE  IsParent(child[k].parent)'
    BY DEF ChildrenHaveParents, IsChild
  <2>1. PICK t : t = child[k].parent /\ IsParent(t)
    BY DEF FamilyInv, ChildrenHaveParents
  <2>2. IsParent(t)'
    BY <1>3, <2>1 DEF IsParent
  <2> QED BY <2>1, <2>2 DEF IsParent
<1>8. \A r \in Reqs : jar'[r] = jar[r] \/ jar'[r] \in known' \cup {None}
  BY <1>2 DEF Stored, SetCookie, Put, FamilyInv, TypeInv, TypeOK
<1> QED BY <1>3, <1>4, <1>5, <1>6, <1>7, <1>8, Writes

\* A statement that writes children and no parent.
LEMMA ChildWritten ==
    ASSUME FamilyInv, TypeInv', NEW q \in Reqs, Become(q, Idle),
           UNCHANGED <<parent, known, moved>>,
           \A k \in KidIds : /\ \/ child'[k].parent = child[k].parent /\ typed'[k] = typed[k]
                                \/ Faithful(child'[k].parent, typed'[k])
                             /\ IsChild(k)' => \/ IsChild(k) /\ child'[k].parent = child[k].parent
                                               \/ IsParent(child'[k].parent),
           \A r \in Reqs : jar'[r] = jar[r] \/ jar'[r] \in known
    PROVE  FamilyInv'
<1>1. Keeps /\ PhonesDiffer'
  BY DEF Keeps, PhonesDiffer, IsParent, FamilyInv
<1>2. ChildrenTyped'
  BY DEF ChildrenTyped, Faithful, IsParent, FamilyInv
<1>3. ChildrenHaveParents'
  BY DEF ChildrenHaveParents, IsChild, IsParent, FamilyInv
<1>4. Idle.pc = "idle"
  BY DEF Idle
<1> QED BY <1>1, <1>2, <1>3, <1>4, Writes

LEMMA StepFamily ==
    ASSUME FamilyInv, NEW q \in Reqs, Step(q)
    PROVE  FamilyInv'
<1>0. /\ TypeInv' /\ LocalsSet(req[q]) /\ req[q] \in ReqState
      /\ child \in [KidIds -> ChildRow] /\ typed \in [KidIds -> Cookies]
      /\ jar \in [Reqs -> Cookies]
      /\ nextParent \in Int
      /\ Idle.pc = "idle"
  <2>1. TypeInv'
    BY StepType DEF FamilyInv
  <2> QED BY <2>1 DEF FamilyInv, TypeInv, TypeOK, ChildRow, Idle
<1>1. ASSUME Refused(q)
      PROVE  FamilyInv'
  BY <1>0, <1>1, Looks DEF Refused
<1>2. CASE CreateParent(q)
  <2>1. CASE Refused(q)
    BY <1>1, <2>1
  <2>2. CASE ~Registered(req[q].phone)
    <3>1. nextParent \in ParentIds
      BY <1>2, IdsLeft DEF CreateParent, FamilyInv
    <3>2. ~Taken(req[q].phone, nextParent)
      BY <2>2 DEF Taken, Registered
    <3> QED BY <1>0, <1>2, <2>2, <3>1, <3>2, StoredFamily DEF CreateParent
  <2> QED BY <1>2, <2>1, <2>2 DEF CreateParent
<1>3. CASE SaveParent(q)
  <2>1. CASE Refused(q)
    BY <1>1, <2>1
  <2>2. CASE ~Taken(req[q].phone, req[q].parent)
    <3>1. req[q].parent \in ParentIds
      BY <1>0, <1>3 DEF SaveParent, LocalsSet, At
    <3> QED BY <1>0, <1>3, <2>2, <3>1, StoredFamily DEF SaveParent
  <2> QED BY <1>3, <2>1, <2>2 DEF SaveParent
<1>4. CASE CreateChild(q)
  <2>1. CASE Refused(q)
    BY <1>1, <2>1
  <2>2. CASE ForeignKeyHolds(req[q].parent)
    <3> DEFINE row == [row |-> "live", parent |-> req[q].parent]
    <3>1. /\ Faithful(req[q].parent, req[q].phone) /\ IsParent(req[q].parent)
          /\ nextChild \in KidIds
      BY <1>0, <1>4, <2>2, IdsLeft
         DEF CreateChild, At, LocalsSet, FamilyInv, HandlersTyped, ForeignKeyHolds
    <3>2. child' = [child EXCEPT ![nextChild] = row]
          /\ typed' = [typed EXCEPT ![nextChild] = req[q].phone]
          /\ UNCHANGED <<parent, known, moved>> /\ Become(q, Idle)
      BY <1>4, <2>2 DEF CreateChild
    <3>3. row.parent = req[q].parent
      OBVIOUS
    <3> HIDE DEF row
    <3>4. \A k \in KidIds :
             \/ child'[k] = child[k] /\ typed'[k] = typed[k]
             \/ child'[k].parent = req[q].parent /\ typed'[k] = req[q].phone
      BY <1>0, <3>2, <3>3
    <3>5. \A r \in Reqs : jar'[r] = jar[r] \/ jar'[r] \in known
      BY <1>0, <1>4, <2>2, <3>1 DEF CreateChild, SetCookie, Faithful
    <3>6. \A k \in KidIds : /\ \/ child'[k].parent = child[k].parent /\ typed'[k] = typed[k]
                               \/ Faithful(child'[k].parent, typed'[k])
                            /\ IsChild(k)' => \/ IsChild(k) /\ child'[k].parent = child[k].parent
                                              \/ IsParent(child'[k].parent)
      BY <3>1, <3>4 DEF IsChild
    <3> QED BY <1>0, <3>2, <3>5, <3>6, ChildWritten
  <2> QED BY <1>4, <2>1, <2>2 DEF CreateChild
<1>5. CASE LookupTyped(q)
  <2> DEFINE save(p) == [req[q] EXCEPT !.pc = "save", !.parent = p]
  <2>2. \A p : save(p).pc # "child"
    BY <1>0 DEF ReqState
  <2>3. (\E p : Become(q, save(p))) \/ Become(q, Idle)
    BY <1>5 DEF LookupTyped
  <2> HIDE DEF save
  <2>1. PICK s : Become(q, s) /\ s.pc # "child"
    BY <1>0, <2>2, <2>3
  <2> QED BY <1>0, <1>5, <2>1, Looks DEF LookupTyped
<1>6. CASE CheckOwner(q)
  <2> DEFINE owned == [req[q] EXCEPT !.pc = "savekid", !.parent = 0]
  <2>2. owned.pc # "child"
    BY <1>0 DEF ReqState
  <2>3. Become(q, owned) \/ Become(q, Idle)
    BY <1>6 DEF CheckOwner
  <2> HIDE DEF owned
  <2>1. PICK s : Become(q, s) /\ s.pc # "child"
    BY <1>0, <2>2, <2>3
  <2> QED BY <1>0, <1>6, <2>1, Looks DEF CheckOwner
<1>7. CASE SaveChild(q) \/ DropChild(q)
  <2>1. CASE Refused(q)
    BY <1>1, <2>1
  <2>2. CASE ~Refused(q)
    <3>1. /\ Become(q, Idle) /\ UNCHANGED <<parent, jar, known, moved, typed>>
          /\ req[q].child \in KidIds
      BY <1>0, <1>7, <2>2 DEF SaveChild, DropChild, history, At, LocalsSet
    <3>2. \A k \in KidIds :
             /\ child'[k].parent = child[k].parent
             /\ child'[k].row = "live" => (child[k].row = "live" \/ IsParent(child[k].parent))
      BY <1>0, <1>7, <2>2, <3>1 DEF SaveChild, DropChild, ForeignKeyHolds, ChildRow
    <3>3. \A k \in KidIds : /\ \/ child'[k].parent = child[k].parent /\ typed'[k] = typed[k]
                               \/ Faithful(child'[k].parent, typed'[k])
                            /\ IsChild(k)' => \/ IsChild(k) /\ child'[k].parent = child[k].parent
                                              \/ IsParent(child'[k].parent)
      BY <3>1, <3>2 DEF IsChild
    <3> QED BY <1>0, <3>1, <3>3, ChildWritten
  <2> QED BY <2>1, <2>2
<1> QED BY <1>2, <1>3, <1>4, <1>5, <1>6, <1>7 DEF Step

LEMMA DeleteFamily ==
    ASSUME FamilyInv, NEW p \in ParentIds, AdminParentDelete(p)
    PROVE  FamilyInv'
<1>0. /\ TypeInv' /\ parent \in [ParentIds -> ParentRow] /\ child \in [KidIds -> ChildRow]
  <2>1. TypeInv'
    BY DeleteType DEF FamilyInv
  <2> QED BY <2>1 DEF FamilyInv, TypeInv, TypeOK, ParentRow, ChildRow
<1>1. /\ known' = known /\ moved' = moved \cup {parent[p].phone} /\ req' = req /\ jar' = jar
      /\ typed' = typed
      /\ \A r \in ParentIds : r # p => parent'[r] = parent[r]
      /\ ~IsParent(p)'
  BY <1>0 DEF AdminParentDelete, IsParent
<1>2. \A k \in KidIds :
         /\ child'[k].parent = child[k].parent
         /\ IsChild(k)' => IsChild(k) /\ child[k].parent # p
  BY <1>0 DEF AdminParentDelete, IsChild, ChildRow
<1>3. Keeps
  BY <1>1 DEF Keeps, IsParent
<1>4. PhonesDiffer'
  BY <1>1 DEF FamilyInv, PhonesDiffer, IsParent
<1>5. ChildrenTyped'
  <2> SUFFICES ASSUME NEW k \in KidIds, child'[k].parent # 0
               PROVE  Faithful(child[k].parent, typed[k])'
    BY DEF ChildrenTyped
  <2>1. PICK t, x : t = child[k].parent /\ x = typed[k]
    OBVIOUS
  <2>2. Faithful(t, x)
    BY <1>2, <2>1 DEF FamilyInv, ChildrenTyped
  <2>3. Faithful(t, x)'
    BY <1>3, <2>2, Kept
  <2> QED BY <1>1, <1>2, <2>1, <2>3 DEF Faithful, IsParent
<1>6. ChildrenHaveParents'
  BY <1>1, <1>2 DEF FamilyInv, ChildrenHaveParents, IsParent
<1>7. HandlersTyped'
  <2> SUFFICES ASSUME NEW r \in Reqs, At(r, "child")
               PROVE  Faithful(req[r].parent, req[r].phone)'
    BY <1>1 DEF HandlersTyped, At
  <2>1. PICK t, x : t = req[r].parent /\ x = req[r].phone
    OBVIOUS
  <2>2. Faithful(t, x)
    BY <2>1 DEF FamilyInv, HandlersTyped
  <2>3. Faithful(t, x)'
    BY <1>3, <2>2, Kept
  <2> QED BY <1>1, <2>1, <2>3 DEF Faithful, IsParent
<1>8. CookieOfAParent'
  BY <1>1 DEF FamilyInv, CookieOfAParent
<1> QED BY <1>0, <1>4, <1>5, <1>6, <1>7, <1>8 DEF FamilyInv

LEMMA FamilyInvStep == FamilyInv /\ [Next]_vars => FamilyInv'
<1> SUFFICES ASSUME FamilyInv, [Next]_vars
             PROVE  FamilyInv'
  OBVIOUS
<1>1. CASE UNCHANGED vars
  <2>1. TypeInv'
    BY TypeInvStep DEF FamilyInv
  <2> QED BY <1>1, <2>1, CookieSet DEF vars
<1> QED BY <1>1, VisitFamily, StepFamily, DeleteFamily DEF Next

LEMMA FamilyInvInit == Init => FamilyInv
<1> SUFFICES ASSUME Init PROVE FamilyInv
  OBVIOUS
<1>1. /\ PhonesDiffer /\ ChildrenHaveParents /\ HandlersTyped /\ CookieOfAParent
      /\ ChildrenTyped
  BY DEF Init, PhonesDiffer, IsParent, ChildrenHaveParents, IsChild, HandlersTyped, At, Idle,
         CookieOfAParent, ChildrenTyped
<1> QED BY <1>1, TypeInvInit DEF FamilyInv

LEMMA FamiliesInvariant == Spec => []FamilyInv
  BY FamilyInvInit, FamilyInvStep, PTL DEF Spec

\* However onboardings of one number race or are sent twice, the children entered under
\* it hang on one parent while nobody has given the number up.
THEOREM FamiliesStayWhole == Spec => []NoSplitFamily
<1>1. FamilyInv => NoSplitFamily
  <2> SUFFICES ASSUME FamilyInv, NEW k \in KidIds, NEW l \in KidIds, IsChild(k), IsChild(l),
                      typed[k] = typed[l], typed[k] \notin moved
               PROVE  child[k].parent = child[l].parent
    BY DEF NoSplitFamily
  <2>1. /\ child[k].parent \in ParentIds /\ child[l].parent \in ParentIds
    BY DEF FamilyInv, ChildrenHaveParents, IsParent
  <2>2. child[k].parent # 0 /\ child[l].parent # 0
    BY <2>1, BoundsAssumption DEF ParentIds
  <2> QED BY <2>1, <2>2 DEF FamilyInv, ChildrenTyped, Faithful, PhonesDiffer
<1> QED BY <1>1, FamiliesInvariant, PTL

\* No interleaving of edits and deletions leaves a child without its parent.
THEOREM ChildrenKeepParents == Spec => []ChildrenHaveParents
<1>1. FamilyInv => ChildrenHaveParents
  BY DEF FamilyInv
<1> QED BY <1>1, FamiliesInvariant, PTL

\* A browser never remembers a number that no parent had.
THEOREM CookiesNameParents == Spec => []CookieOfAParent
<1>1. FamilyInv => CookieOfAParent
  BY DEF FamilyInv
<1> QED BY <1>1, FamiliesInvariant, PTL
=============================================================================

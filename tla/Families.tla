------------------------------- MODULE Families -------------------------------
(***************************************************************************)
(* Parents, children and the cookie that remembers a parent's phone.       *)
(*                                                                         *)
(* As in Enrollment an action is one GORM statement of one handler (a      *)
(* transaction is one statement) with the branches that follow it, and a   *)
(* slot of Reqs is a goroutine with its locals.  Each slot serves one      *)
(* browser, whose cookie is jar[q]: a browser waits for its answer.  A     *)
(* page that only reads and then sets or clears the cookie is one action.  *)
(*                                                                         *)
(* Phones are normal forms of svc.NormPhone, which every writer of the     *)
(* column applies.  Whatever else a form changes (names, e-mail, gender,   *)
(* date of birth) matters only in that it makes the handler write the row. *)
(***************************************************************************)
EXTENDS Integers, FiniteSets

CONSTANTS
    Phones,     \* normalised phone numbers
    Reqs,       \* request goroutines, one browser each
    MaxParents, \* bound: parents ever created
    MaxKids,    \* bound: children ever created
    None        \* no phone, no cookie

ASSUME BoundsAssumption == MaxParents \in Nat /\ MaxKids \in Nat
ASSUME ReqsAssumption   == IsFiniteSet(Reqs) /\ Reqs # {}
ASSUME NoneAssumption   == None \notin Phones

VARIABLES
    parent,     \* table parents, by id
    child,      \* table children, by id
    nextParent, \* AUTOINCREMENT of parents
    nextChild,  \* AUTOINCREMENT of children
    req,        \* what each goroutine is doing
    jar,        \* the cookie parent_phone of each browser
    known,      \* history: phones that some parent had
    moved,      \* history: phones that some parent had and lost
    typed       \* history: the phone a child was entered under

tables == <<parent, child, nextParent, nextChild>>
history == <<known, moved, typed>>
vars == <<tables, req, jar, history>>

ParentIds == 1..MaxParents
KidIds == 1..MaxKids
Cookies == Phones \cup {None}

Idle == [op |-> "none", pc |-> "idle", parent |-> 0, phone |-> None, child |-> 0]

ReqState == [op : {"none", "onboard", "newchild", "profile", "admin", "kid"},
             pc : {"idle", "lookup", "create", "save", "child", "owner", "savekid", "dropkid"},
             parent : 0..MaxParents, phone : Cookies, child : 0..MaxKids]

Init ==
    /\ parent = [p \in ParentIds |-> [row |-> "none", phone |-> None]]
    /\ child = [k \in KidIds |-> [row |-> "none", parent |-> 0]]
    /\ nextParent = 1 /\ nextChild = 1
    /\ req = [q \in Reqs |-> Idle]
    /\ jar = [q \in Reqs |-> None]
    /\ known = {} /\ moved = {}
    /\ typed = [k \in KidIds |-> None]

Become(q, s) == req' = [req EXCEPT ![q] = s]
At(q, pc) == req[q].pc = pc
Free(q) == At(q, "idle")
SetCookie(q, ph) == jar' = [jar EXCEPT ![q] = ph]

IsParent(p) == p \in ParentIds /\ parent[p].row = "live"
IsChild(k) == k \in KidIds /\ child[k].row = "live"

\* WHERE phone = ?: the unique index leaves at most one.
HolderOf(ph) == {p \in ParentIds : parent[p].row = "live" /\ parent[p].phone = ph}
Registered(ph) == HolderOf(ph) # {}

(***************************************************************************)
(* Pages that read and set the cookie.                                     *)
(***************************************************************************)
Remember(q, ph) ==
    /\ Free(q) /\ Registered(ph)
    /\ SetCookie(q, ph)
    /\ UNCHANGED <<tables, req, history>>

Forget(q) ==
    /\ Free(q)
    /\ SetCookie(q, None)
    /\ UNCHANGED <<tables, req, history>>

\* RegisterPhoneForm: a cookie whose parent exists is trusted and nothing
\* happens; any other is cleared, and a phone in the URL is tried.
RegisterPhoneForm(q, ph) ==
    /\ ~Registered(jar[q])
    /\ IF Registered(ph) THEN Remember(q, ph) ELSE Forget(q)

RegisterPhoneNew(q, ph) == Free(q) /\ SetCookie(q, ph) /\ UNCHANGED <<tables, req, history>>

\* RegisterPhoneSubmit: a new number gets no cookie before it is onboarded.
RegisterPhoneSubmit(q, ph) == IF Registered(ph) THEN Remember(q, ph) ELSE Forget(q)

\* RegisterKidsForm sets the cookie of the parent found by URL or cookie, and
\* AccountPhoneForm and RequireParent that of the URL if there is no cookie.
RegisterKidsForm(q, ph) == Remember(q, ph)
ByUrl(q, ph) == jar[q] = None /\ Remember(q, ph)

LogoutBlank(q) == Free(q) /\ SetCookie(q, "") /\ UNCHANGED <<tables, req, history>>

AccountLogout(q) == Forget(q)

(***************************************************************************)
(* Writing a parent.  GORM's Save is an UPDATE by id that becomes an       *)
(* INSERT when it touches no row, and a plain INSERT for id 0.  The unique *)
(* index on phone refuses either.                                          *)
(***************************************************************************)
Taken(ph, p) == HolderOf(ph) \ {p} # {}

Put(p, ph) ==
    /\ parent' = [parent EXCEPT ![p] = [row |-> "live", phone |-> ph]]
    /\ known' = known \cup {ph}
    /\ moved' = moved \cup ({parent[p].phone} \ {ph, None})

Creating == {q \in Reqs : At(q, "create")}
RoomForParent == nextParent + Cardinality(Creating) <= MaxParents

\* The row is stored: onboarding goes on with the child, the profile form sets
\* the cookie to the phone it saved, and the admin's form is done.
Stored(q, p) ==
    /\ IF req[q].op = "onboard"
       THEN Become(q, [req[q] EXCEPT !.pc = "child", !.parent = p])
       ELSE Become(q, Idle)
    /\ IF req[q].op = "profile" THEN SetCookie(q, req[q].phone) ELSE UNCHANGED jar

Refused(q) == Become(q, Idle) /\ UNCHANGED <<tables, jar, history>>

CreateUnchecked(q) ==
    /\ At(q, "create")
    /\ Put(nextParent, req[q].phone) /\ nextParent' = nextParent + 1
    /\ Stored(q, nextParent)
    /\ UNCHANGED <<child, nextChild, typed>>

CreateParent(q) ==
    /\ At(q, "create")
    /\ IF Registered(req[q].phone)
       THEN Refused(q)
       ELSE /\ Put(nextParent, req[q].phone) /\ nextParent' = nextParent + 1
            /\ Stored(q, nextParent)
            /\ UNCHANGED <<child, nextChild, typed>>

SaveParent(q) ==
    /\ At(q, "save")
    /\ IF Taken(req[q].phone, req[q].parent)
       THEN Refused(q)
       ELSE /\ Put(req[q].parent, req[q].phone)
            /\ Stored(q, req[q].parent)
            /\ UNCHANGED <<child, nextParent, nextChild, typed>>

(***************************************************************************)
(* RegisterOnboardSubmit: look the phone up, write or create the parent,   *)
(* create the first child.  The parent is written only if the form changes *)
(* it.                                                                     *)
(***************************************************************************)
Adding == {q \in Reqs : req[q].op \in {"onboard", "newchild"}}
RoomForChild == nextChild + Cardinality(Adding) <= MaxKids

Onboard(q, ph) ==
    /\ Free(q) /\ RoomForChild
    /\ LET form == [Idle EXCEPT !.op = "onboard", !.phone = ph] IN
       \/ \E p \in HolderOf(ph), pc \in {"save", "child"} :
             Become(q, [form EXCEPT !.pc = pc, !.parent = p])
       \/ /\ ~Registered(ph) /\ RoomForParent
          /\ Become(q, [form EXCEPT !.pc = "create"])
    /\ UNCHANGED <<tables, jar, history>>

\* RegisterNewChildSubmit and AccountNewChildSubmit.
NewChild(q, ph) ==
    /\ Free(q) /\ RoomForChild
    /\ \E p \in HolderOf(ph) :
          Become(q, [Idle EXCEPT !.op = "newchild", !.pc = "child", !.parent = p, !.phone = ph])
    /\ UNCHANGED <<tables, jar, history>>

\* Foreign keys are on: children.parent_id must name a row of parents.
ForeignKeyOff(p) == TRUE
ForeignKeyHolds(p) == IsParent(p)

CreateChild(q) ==
    /\ At(q, "child")
    /\ IF ~ForeignKeyHolds(req[q].parent)
       THEN Refused(q)
       ELSE /\ child' = [child EXCEPT ![nextChild] = [row |-> "live", parent |-> req[q].parent]]
            /\ typed' = [typed EXCEPT ![nextChild] = req[q].phone]
            /\ nextChild' = nextChild + 1
            /\ IF req[q].op = "onboard" THEN SetCookie(q, req[q].phone) ELSE UNCHANGED jar
            /\ Become(q, Idle)
            /\ UNCHANGED <<parent, nextParent, known, moved>>

(***************************************************************************)
(* AccountProfileSubmit.  The parent of the cookie is preferred to that of *)
(* the phone typed.  Without a cookie (RequireParent lets such a request   *)
(* through when its URL names a parent, and sets that cookie) neither is   *)
(* looked up, and Save gets an empty row: a new parent.                    *)
(***************************************************************************)
Profile(q, ph) ==
    /\ Free(q)
    /\ LET form == [Idle EXCEPT !.op = "profile", !.phone = ph] IN
       \/ \E p \in HolderOf(jar[q]) :
             Become(q, [form EXCEPT !.pc = "save", !.parent = p]) /\ UNCHANGED jar
       \/ /\ jar[q] # None /\ ~Registered(jar[q])
          /\ Become(q, [form EXCEPT !.pc = "lookup"]) /\ UNCHANGED jar
       \/ /\ jar[q] = None /\ RoomForParent
          /\ \E url \in Phones : Registered(url) /\ SetCookie(q, url)
          /\ Become(q, [form EXCEPT !.pc = "create"])
    /\ UNCHANGED <<tables, history>>

LookupTyped(q) ==
    /\ At(q, "lookup")
    /\ \/ \E p \in HolderOf(req[q].phone) :
             Become(q, [req[q] EXCEPT !.pc = "save", !.parent = p])
       \/ ~Registered(req[q].phone) /\ Become(q, Idle)
    /\ UNCHANGED <<tables, jar, history>>

\* AdminParentUpdate: an omitted phone is the one that was read.
AdminParentUpdate(q, p, ph) ==
    /\ Free(q) /\ IsParent(p)
    /\ Become(q, [Idle EXCEPT !.op = "admin", !.pc = "save", !.parent = p, !.phone = ph])
    /\ UNCHANGED <<tables, jar, history>>

\* The transaction of AdminParentDelete, of which FamilySeats has the rest.
AdminParentDelete(p) ==
    /\ IsParent(p)
    /\ child' = [k \in KidIds |-> IF child[k].row = "live" /\ child[k].parent = p
                                  THEN [child[k] EXCEPT !.row = "deleted"] ELSE child[k]]
    /\ parent' = [parent EXCEPT ![p] = [row |-> "deleted", phone |-> None]]
    /\ moved' = moved \cup {parent[p].phone}
    /\ UNCHANGED <<nextParent, nextChild, req, jar, known, typed>>

(***************************************************************************)
(* Editing and deleting a child.  The parent's own form compares owners,   *)
(* the admin's does not; both write every column of the row they read.     *)
(***************************************************************************)
AccountEditChild(q, ph, k) ==
    /\ Free(q)
    /\ \E p \in HolderOf(ph) :
          Become(q, [Idle EXCEPT !.op = "kid", !.pc = "owner", !.parent = p, !.child = k])
    /\ UNCHANGED <<tables, jar, history>>

CheckOwner(q) ==
    /\ At(q, "owner")
    /\ IF IsChild(req[q].child) /\ child[req[q].child].parent = req[q].parent
       THEN Become(q, [req[q] EXCEPT !.pc = "savekid", !.parent = 0])
       ELSE Become(q, Idle)
    /\ UNCHANGED <<tables, jar, history>>

AdminChildUpdate(q, k) ==
    /\ Free(q) /\ IsChild(k)
    /\ Become(q, [Idle EXCEPT !.op = "kid", !.pc = "savekid", !.child = k])
    /\ UNCHANGED <<tables, jar, history>>

SaveChild(q) ==
    /\ At(q, "savekid")
    /\ IF ~ForeignKeyHolds(child[req[q].child].parent)
       THEN Refused(q)
       ELSE /\ child' = [child EXCEPT ![req[q].child].row = "live"]
            /\ Become(q, Idle)
            /\ UNCHANGED <<parent, nextParent, nextChild, jar, history>>

\* AccountDeleteChild and AdminChildDelete: read the child, delete it by id.
ReadForDropChild(q, k) ==
    /\ Free(q) /\ IsChild(k)
    /\ Become(q, [Idle EXCEPT !.op = "kid", !.pc = "dropkid", !.child = k])
    /\ UNCHANGED <<tables, jar, history>>

DropChild(q) ==
    /\ At(q, "dropkid")
    /\ child' = [child EXCEPT ![req[q].child].row = "deleted"]
    /\ Become(q, Idle)
    /\ UNCHANGED <<parent, nextParent, nextChild, jar, history>>

Visit(q) ==
    \/ AccountLogout(q)
    \/ \E ph \in Phones :
          \/ RegisterPhoneSubmit(q, ph) \/ RegisterKidsForm(q, ph) \/ ByUrl(q, ph)
          \/ Onboard(q, ph) \/ NewChild(q, ph) \/ Profile(q, ph)
          \/ \E p \in ParentIds : AdminParentUpdate(q, p, ph)
          \/ \E k \in KidIds : AccountEditChild(q, ph, k)
    \/ \E ph \in Cookies : RegisterPhoneForm(q, ph)
    \/ \E k \in KidIds : AdminChildUpdate(q, k) \/ ReadForDropChild(q, k)

Step(q) ==
    \/ CreateParent(q) \/ SaveParent(q) \/ CreateChild(q) \/ LookupTyped(q)
    \/ CheckOwner(q) \/ SaveChild(q) \/ DropChild(q)

Next ==
    \/ \E q \in Reqs : Visit(q) \/ Step(q)
    \/ \E p \in ParentIds : AdminParentDelete(p)

Spec == Init /\ [][Next]_vars

-----------------------------------------------------------------------------
(***************************************************************************)
(* Properties.                                                             *)
(***************************************************************************)

\* Every table row, local variable and cookie is well formed.
TypeOK ==
    /\ parent \in [ParentIds -> [row : {"none", "live", "deleted"}, phone : Cookies]]
    /\ child \in [KidIds -> [row : {"none", "live", "deleted"}, parent : 0..MaxParents]]
    /\ nextParent \in 1..MaxParents + 1 /\ nextChild \in 1..MaxKids + 1
    /\ req \in [Reqs -> ReqState]
    /\ jar \in [Reqs -> Cookies]
    /\ known \subseteq Phones /\ moved \subseteq Phones
    /\ typed \in [KidIds -> Cookies]

\* One family is never split in two: children entered under one phone, by
\* onboardings that raced or were sent twice, hang on one parent, as long as
\* nobody has given that phone up (by an edit or a deletion).
NoSplitFamily ==
    \A k, l \in KidIds :
        /\ IsChild(k) /\ IsChild(l)
        /\ typed[k] = typed[l] /\ typed[k] \notin moved
        => child[k].parent = child[l].parent

\* A child's parent exists, although handlers write children for parents, and
\* parents and children themselves, that were deleted since they read them.
ChildrenHaveParents == \A k \in KidIds : IsChild(k) => IsParent(child[k].parent)

\* "do NOT set cookie unless parent exists" (register.go): a browser remembers only a phone
\* that some parent had.
CookieOfAParent == \A q \in Reqs : jar[q] \in known \cup {None}
=============================================================================

----------------------------- MODULE FamilySeats -----------------------------
(***************************************************************************)
(* Enrollment composed with the handlers that delete parents and children  *)
(* (admin_parents.go, account.go), which run in the same slots of Reqs.    *)
(* registrations.parent_id and child_id are plain columns: no foreign key  *)
(* keeps a registration and the child it is for together.                  *)
(*                                                                         *)
(* Families has the rows parents and children themselves.  Here a child is *)
(* a constant with an owner that may cease to exist, and the process does  *)
(* not die: Enrollment has the crash.                                      *)
(***************************************************************************)
EXTENDS Enrollment

CONSTANTS
    Parents,
    Owner,  \* Owner[k]: the parent of child k
    Today   \* the Jakarta day on which all of this happens

ASSUME OwnerAssumption == Owner \in [Children -> Parents]
ASSUME TodayAssumption == Today \in Days

VARIABLES
    kid,    \* table children: does the child exist?
    visit,  \* what AdminParentDelete holds between two statements
    gone,   \* history: the registrations not yet made when a parent was deleted
    stale,  \* history: those being checked in when their parent was deleted
    missed  \* history: classes a deletion freed a seat of without knowing it

history == <<gone, stale, missed>>
familyVars == <<kid, visit, history>>
allVars == <<vars, familyVars>>

WaitingOf(p) == {r \in Regs : reg[r].status = "waitlisted" /\ Owner[reg[r].child] = p}
RegsOf(p) == {r \in Regs : Exists(r) /\ Owner[reg[r].child] = p}
ClassesOf(R) == {reg[r].class : r \in R}

NoVisit == [pc |-> "none", parent |-> None, classes |-> {}, since |-> 0]

FamilyInit ==
    /\ Init
    /\ kid = [k \in Children |-> TRUE]
    /\ visit = [q \in Reqs |-> NoVisit]
    /\ gone = [k \in Children |-> MaxRegs + 1]
    /\ stale = {} /\ missed = {}

Visiting(q, pc) == visit[q].pc = pc
Unoccupied(q) == Visiting(q, "none") /\ At(q, "idle")
Proceed(q, v) == visit' = [visit EXCEPT ![q] = v]

(***************************************************************************)
(* AdminParentDelete: count the parent's registrations of coming classes,  *)
(* read all its registrations, delete everything in one transaction, and   *)
(* recompute the classes that were read, in the order of a Go map.         *)
(***************************************************************************)

\* classes.date >= now, whatever the registration's status.  Classes begin at
\* midnight: one of today has begun.
Upcoming(c) == Live(c) /\ class[c].day > Today

CountFutureUnguarded(q, p) ==
    /\ Unoccupied(q)
    /\ Proceed(q, [NoVisit EXCEPT !.pc = "gather", !.parent = p, !.since = nextReg])
    /\ UNCHANGED <<vars, kid, history>>

CountFuture(q, p) ==
    /\ Unoccupied(q)
    /\ \A c \in ClassesOf(RegsOf(p)) : ~Upcoming(c)
    /\ Proceed(q, [NoVisit EXCEPT !.pc = "gather", !.parent = p, !.since = nextReg])
    /\ UNCHANGED <<vars, kid, history>>

GatherClasses(q) ==
    /\ Visiting(q, "gather")
    /\ Proceed(q, [visit[q] EXCEPT !.pc = "erase", !.classes = ClassesOf(RegsOf(visit[q].parent))])
    /\ UNCHANGED <<vars, kid, history>>

EraseForgetfully(q) ==
    /\ Visiting(q, "erase")
    /\ reg' = [r \in Regs |-> IF r \in RegsOf(visit[q].parent)
                              THEN [reg[r] EXCEPT !.status = "deleted"] ELSE reg[r]]
    /\ kid' = [k \in Children |-> kid[k] /\ Owner[k] # visit[q].parent]
    /\ Proceed(q, NoVisit)
    /\ UNCHANGED <<class, nextReg, req, told, lost, crashes, history>>

EraseFamily(q) ==
    /\ Visiting(q, "erase")
    /\ LET p == visit[q].parent
           R == RegsOf(p)
       IN  /\ reg' = [r \in Regs |-> IF r \in R THEN [reg[r] EXCEPT !.status = "deleted"]
                                     ELSE reg[r]]
           /\ kid' = [k \in Children |-> kid[k] /\ Owner[k] # p]
           /\ gone' = [k \in Children |-> IF Owner[k] = p THEN nextReg ELSE gone[k]]
           /\ stale' = stale \cup {req[o].reg : o \in {o \in Reqs : At(o, "guard") \/ At(o, "mark")}}
           /\ missed' = missed \cup (ClassesOf(R) \ visit[q].classes)
           /\ Proceed(q, IF visit[q].classes = {} THEN NoVisit
                         ELSE [visit[q] EXCEPT !.pc = "rebalance"])
    /\ UNCHANGED <<class, nextReg, req, told, lost, crashes>>

\* The next turn of the loop; Enrollment's Recompute and Notify do the rest.
NextClass(q) ==
    /\ Visiting(q, "rebalance") /\ At(q, "idle")
    /\ \E c \in visit[q].classes :
          /\ Become(q, RecomputeOwed(c))
          /\ Proceed(q, IF visit[q].classes = {c} THEN NoVisit
                        ELSE [visit[q] EXCEPT !.classes = @ \ {c}])
    /\ UNCHANGED <<class, reg, nextReg, told, lost, crashes, kid, history>>

(***************************************************************************)
(* AccountDeleteChild and AdminChildDelete: the child's row, and nothing   *)
(* of its registrations.                                                   *)
(***************************************************************************)
DropChild(q, k) ==
    /\ Unoccupied(q) /\ kid[k]
    /\ kid' = [kid EXCEPT ![k] = FALSE]
    /\ gone' = [gone EXCEPT ![k] = 0]
    /\ UNCHANGED <<vars, visit, stale, missed>>

(***************************************************************************)
(* The handlers of Enrollment.  SelectClassSubmit loads the child first,   *)
(* SelectClassConfirmSubmit just before the class.                         *)
(***************************************************************************)
Enroll(q) ==
    /\ Visiting(q, "none") /\ Arrival(q)
    /\ req'[q].op = "submit" => kid[req'[q].child]
    /\ UNCHANGED familyVars

Continue(q) ==
    /\ Step(q)
    /\ At(q, "class") => kid[req[q].child]
    /\ UNCHANGED familyVars

ChildNotFound(q) ==
    /\ At(q, "class") /\ ~kid[req[q].child]
    /\ Become(q, Idle)
    /\ UNCHANGED <<class, reg, nextReg, told, lost, crashes, familyVars>>

FamilyNext ==
    \/ \E q \in Reqs :
          \/ Enroll(q) \/ Continue(q) \/ ChildNotFound(q)
          \/ \E p \in Parents : CountFuture(q, p)
          \/ GatherClasses(q) \/ EraseFamily(q) \/ NextClass(q)
          \/ \E k \in Children : DropChild(q, k)
    \/ \E c \in Classes : CreateClass(c) /\ UNCHANGED familyVars

FamilySpec == FamilyInit /\ [][FamilyNext]_allVars

-----------------------------------------------------------------------------
(***************************************************************************)
(* Properties.                                                             *)
(***************************************************************************)

Pending(c) == {q \in Reqs : Visiting(q, "rebalance") /\ c \in visit[q].classes}

\* A seat that a deleted family leaves is offered to the waitlist, by a
\* recompute that some request owes or will get to.  The exception is a class
\* the family entered between AdminParentDelete's read and its transaction.
FamilyLeavesNoStranded ==
    \A c \in Classes : Stranded(c) => Owing(c) # {} \/ Pending(c) # {} \/ c \in missed

\* "SAFETY GUARD: block deletion if there are upcoming registrations": what
\* slips through is no more than what was registered after the guard counted, or
\* brought back after a deletion by a check-in that was under way.
\* Holds as long as no admin moves a class to a later day meanwhile, or deletes a
\* registration that is being checked in.
UpcomingAreKept ==
    [][\A q \in Reqs : Visiting(q, "erase") /\ ~(Visiting(q, "erase"))' =>
          \A r \in RegsOf(visit[q].parent) :
              Upcoming(reg[r].class) => r >= visit[q].since \/ r \in stale]_allVars

\* Nobody holds a place for a child that does not exist, unless the child was
\* deleted alone, or a request that registered it, or checked it in, was under
\* way when the parent was deleted.
SeatsHaveChildren ==
    \A r \in Regs : reg[r].status \in Holding /\ ~kid[reg[r].child] =>
                    r >= gone[reg[r].child] \/ r \in stale
=============================================================================

------------------------------ MODULE Enrollment ------------------------------
(***************************************************************************)
(* Class registration: seats, the FIFO waitlist, and the HTTP handlers     *)
(* that change them concurrently.                                          *)
(*                                                                         *)
(* The pool of internal/db holds ONE connection, so a GORM statement, and  *)
(* a whole Transaction(...), is atomic with respect to everything else; a  *)
(* handler is a goroutine that runs several statements, and two handlers   *)
(* interleave between them.  Each action below is one statement (or one    *)
(* transaction) of one handler, together with the branches that lead from  *)
(* it to the next statement.  A slot of Reqs is a goroutine: idle, or      *)
(* holding the handler's local variables between two statements.           *)
(***************************************************************************)
EXTENDS Integers, FiniteSets

CONSTANTS
    Classes,    \* ids of rows of table classes
    Children,   \* ids of rows of table children (static in this module)
    Days,       \* Jakarta calendar days, numbered
    Evenings,   \* may a class start before (FALSE), after (TRUE) 17:00?
    Reqs,       \* request goroutines
    Handlers,   \* which handlers receive requests in this configuration
    MaxRegs,    \* bound: registrations ever created
    MaxCap,     \* bound: largest capacity an admin types
    MaxCrashes, \* bound: process crashes
    None        \* zero value of a local variable or column

ASSUME BoundsAssumption == MaxRegs \in Nat /\ MaxCap \in Nat /\ MaxCrashes \in Nat
ASSUME ReqsAssumption   == IsFiniteSet(Reqs) /\ Reqs # {}
ASSUME DaysAssumption   == Days \subseteq Int /\ Evenings \subseteq BOOLEAN
ASSUME NoneAssumption   == None \notin Classes \cup Children \cup Days

VARIABLES
    class,   \* table classes, and the largest capacity each row ever had
    reg,     \* table registrations, by id
    nextReg, \* AUTOINCREMENT: the next registration id
    req,     \* what each goroutine is doing
    told,    \* registrations whose promotion event has been fired
    lost,    \* classes whose owed recompute died with the process
    crashes  \* crashes so far

vars == <<class, reg, nextReg, req, told, lost, crashes>>

Regs == 1..MaxRegs

(***************************************************************************)
(* Rows.  AUTOINCREMENT never reuses an id, and created_at is set while    *)
(* the only connection is held: ORDER BY created_at, id is id order.       *)
(***************************************************************************)
ClassRow == [row : {"unused", "live", "deleted"}, cap : 0..MaxCap,
             peak : 0..MaxCap, day : Days \cup {None}, late : BOOLEAN]

RegRow == [status : {"none", "confirmed", "waitlisted", "canceled", "deleted"},
           child : Children \cup {None}, class : Classes \cup {None},
           in : BOOLEAN]

Live(c) == c \in Classes /\ class[c].row = "live"

Exists(r) == reg[r].status \notin {"none", "deleted"}

Holding == {"confirmed", "waitlisted"}

(***************************************************************************)
(* Requests: the handler, its program counter, and its local variables.    *)
(***************************************************************************)
ReqState == [op    : {"none", "submit", "confirm"},
             pc    : {"idle", "dup", "date", "day", "class", "count", "insert",
                      "delete", "save", "roster", "drop", "guard", "mark",
                      "recompute", "notify"},
             class : Classes \cup {None}, child : Children \cup {None},
             reg   : 0..MaxRegs, cap : 0..MaxCap, day : Days \cup {None},
             seat  : {"none", "confirmed", "waitlisted"},
             promoted : SUBSET Regs]

Idle == [op |-> "none", pc |-> "idle", class |-> None, child |-> None, reg |-> 0,
         cap |-> 0, day |-> None, seat |-> "none", promoted |-> {}]

\* A handler that has changed a class and still has RecomputeClass to call.
RecomputeForgotten(c) == Idle
RecomputeOwed(c) == [Idle EXCEPT !.pc = "recompute", !.class = c]

\* A handler left with the promotions its transaction collected.
Announcing(P) == IF P = {} THEN Idle
                 ELSE [Idle EXCEPT !.pc = "notify", !.promoted = P]

Become(q, s) == req' = [req EXCEPT ![q] = s]

Free(q, h) == req[q].pc = "idle" /\ h \in Handlers

At(q, pc) == req[q].pc = pc

Init ==
    /\ class = [c \in Classes |-> [row |-> "unused", cap |-> 0, peak |-> 0, day |-> None,
                               late |-> FALSE]]
    /\ reg = [r \in Regs |-> [status |-> "none", child |-> None, class |-> None, in |-> FALSE]]
    /\ nextReg = 1
    /\ req = [q \in Reqs |-> Idle]
    /\ told = {}
    /\ lost = {}
    /\ crashes = 0

(***************************************************************************)
(* recomputeClassTxCollect: seats taken, the waitlist, and the oldest      *)
(* waitlisted rows that fit.  `t' is a table of registrations.             *)
(***************************************************************************)
Taken(t, c) == {r \in Regs : t[r].status = "confirmed" /\ t[r].class = c}

WaitingOrCanceled(t, c) == {r \in Regs : t[r].status \in {"waitlisted", "canceled"}
                                         /\ t[r].class = c}
WaitingOrTaken(t, c) == {r \in Regs : t[r].status \in Holding /\ t[r].class = c}
Waiting(t, c) == {r \in Regs : t[r].status = "waitlisted" /\ t[r].class = c}

\* ORDER BY created_at, id: the rows of R, oldest first.
OldestFirst(R) ==
    CHOOSE queue \in [1..Cardinality(R) -> R] :
        \A i, j \in 1..Cardinality(R) : i < j => queue[i] < queue[j]

Slots(t, c) == IF class[c].cap > Cardinality(Taken(t, c))
               THEN class[c].cap - Cardinality(Taken(t, c)) ELSE 0

PromotionsNewestFirst(t, c) ==
    {P \in SUBSET Waiting(t, c) :
        /\ \A r \in P, s \in Waiting(t, c) \ P : r > s
        /\ Cardinality(P) <= Slots(t, c)
        /\ P # Waiting(t, c) => Cardinality(P) = Slots(t, c)}

\* The set of registrations one recompute promotes (there is exactly one such
\* set): the oldest first, until the slots or the waitlist run out.
Promotions(t, c) ==
    {P \in SUBSET Waiting(t, c) :
        /\ \A r \in P, s \in Waiting(t, c) \ P : r < s
        /\ Cardinality(P) <= Slots(t, c)
        /\ P # Waiting(t, c) => Cardinality(P) = Slots(t, c)}

Promoted(t, P) == [r \in Regs |-> IF r \in P THEN [t[r] EXCEPT !.status = "confirmed"]
                                             ELSE t[r]]

\* The end of a transaction that recomputes class c over the table t.
Rebalance(q, t, c) ==
    \E P \in Promotions(t, c) :
        /\ reg' = Promoted(t, P)
        /\ Become(q, Announcing(P))
        /\ lost' = lost \ {c}

\* RecomputeClass: its own transaction.  It fails, and every caller ignores
\* the error, when the class row is gone.
Recompute(q) ==
    /\ At(q, "recompute")
    /\ \/ /\ Live(req[q].class)
          /\ Rebalance(q, reg, req[q].class)
       \/ /\ ~Live(req[q].class)
          /\ Become(q, Idle)
          /\ UNCHANGED <<reg, lost>>
    /\ UNCHANGED <<class, nextReg, told, crashes>>

NotifyFirstOnly(q) ==
    /\ At(q, "notify")
    /\ \E r \in req[q].promoted : told' = told \cup {r} /\ Become(q, Idle)
    /\ UNCHANGED <<class, reg, nextReg, lost, crashes>>

\* One turn of notifyPromotions' loop, outside the transaction, oldest first.
Notify(q) ==
    /\ At(q, "notify")
    /\ \E r \in req[q].promoted :
        /\ \A s \in req[q].promoted : r <= s
        /\ told' = told \cup {r}
        /\ Become(q, Announcing(req[q].promoted \ {r}))
    /\ UNCHANGED <<class, reg, nextReg, lost, crashes>>

(***************************************************************************)
(* SelectClassSubmit and SelectClassConfirmSubmit.  Both validate, count   *)
(* the confirmed rows, insert and recompute; submit loads the class before *)
(* the conflict checks, confirm (the form of a class that asks questions)  *)
(* after them, so the capacity they compare with is read at different      *)
(* times.  MaxRegs bounds the registrations being made.                    *)
(***************************************************************************)
Registering == {q \in Reqs : req[q].op # "none"}

RoomForOne == nextReg + Cardinality(Registering) <= MaxRegs

Submit(q, k, c) ==
    /\ Free(q, "submit") /\ RoomForOne
    /\ Live(c)
    /\ Become(q, [Idle EXCEPT !.op = "submit", !.pc = "dup", !.class = c,
                              !.child = k, !.cap = class[c].cap])
    /\ UNCHANGED <<class, reg, nextReg, told, lost, crashes>>

Confirm(q, k, c) ==
    /\ Free(q, "confirm") /\ RoomForOne
    /\ Become(q, [Idle EXCEPT !.op = "confirm", !.pc = "dup", !.class = c, !.child = k])
    /\ UNCHANGED <<class, reg, nextReg, told, lost, crashes>>

\* The registrations that hold a place for a child.
ConfirmedOf(k) == {r \in Regs : reg[r].status = "confirmed" /\ reg[r].child = k}
PlacesOf(k) == {r \in Regs : reg[r].status \in Holding /\ reg[r].child = k}

\* CheckRegistrationConflicts, its three queries.
CheckDuplicate(q) ==
    /\ At(q, "dup")
    /\ IF \E r \in PlacesOf(req[q].child) : reg[r].class = req[q].class
       THEN Become(q, Idle)
       ELSE Become(q, [req[q] EXCEPT !.pc = "date"])
    /\ UNCHANGED <<class, reg, nextReg, told, lost, crashes>>

LoadDate(q) ==
    /\ At(q, "date")
    /\ IF Live(req[q].class)
       THEN Become(q, [req[q] EXCEPT !.pc = "day", !.day = class[req[q].class].day])
       ELSE Become(q, Idle)
    /\ UNCHANGED <<class, reg, nextReg, told, lost, crashes>>

\* A class of day d is stored as the text of its Jakarta time (+07:00), and
\* compared as text with the bounds of a day written in UTC, 17:00 to 17:00:
\* from 17:00 on, the text falls into the window of the next day.
WindowOf(c) == class[c].day + (IF class[c].late THEN 1 ELSE 0)

\* The JOIN drops the registrations whose class row is gone.
CheckSameDay(q) ==
    /\ At(q, "day")
    /\ IF \E r \in PlacesOf(req[q].child) :
              Live(reg[r].class) /\ WindowOf(reg[r].class) = req[q].day
       THEN Become(q, Idle)
       ELSE Become(q, [req[q] EXCEPT !.day = None,
                           !.pc = IF req[q].op = "submit" THEN "count" ELSE "class"])
    /\ UNCHANGED <<class, reg, nextReg, told, lost, crashes>>

LoadClass(q) ==
    /\ At(q, "class")
    /\ IF Live(req[q].class)
       THEN Become(q, [req[q] EXCEPT !.pc = "count", !.cap = class[req[q].class].cap])
       ELSE Become(q, Idle)
    /\ UNCHANGED <<class, reg, nextReg, told, lost, crashes>>

\* submit finds that the class asks questions and redirects to the confirm
\* form; confirm finds that the signup of the class it has loaded is not open.
TurnedAway(q) ==
    /\ At(q, "count")
    /\ Become(q, Idle)
    /\ UNCHANGED <<class, reg, nextReg, told, lost, crashes>>

SeatOffByOne(taken, cap) == IF taken <= cap THEN "confirmed" ELSE "waitlisted"
SeatFor(taken, cap) == IF taken < cap THEN "confirmed" ELSE "waitlisted"

CountConfirmed(q) ==
    /\ At(q, "count")
    /\ Become(q, [req[q] EXCEPT !.pc = "insert", !.cap = 0,
                      !.seat = SeatFor(Cardinality(Taken(reg, req[q].class)), req[q].cap)])
    /\ UNCHANGED <<class, reg, nextReg, told, lost, crashes>>

Insert(q) ==
    /\ At(q, "insert")
    /\ reg' = [reg EXCEPT ![nextReg] = [status |-> req[q].seat, child |-> req[q].child,
                                        class |-> req[q].class, in |-> FALSE]]
    /\ nextReg' = nextReg + 1
    /\ Become(q, RecomputeOwed(req[q].class))
    /\ UNCHANGED <<class, told, lost, crashes>>

(***************************************************************************)
(* CancelByCode: cancel and rebalance in one transaction, which rolls back *)
(* when the class row is gone.  CancelSubmit calls it with the code typed, *)
(* AdminRegCancel with the code of the row it has just read; codes never   *)
(* change, so that read adds nothing.                                      *)
(***************************************************************************)
CanceledStillIn(r) == [reg EXCEPT ![r].status = "canceled"]
Canceled(r) == IF reg[r].status = "canceled" THEN reg
               ELSE [reg EXCEPT ![r].status = "canceled", ![r].in = FALSE]

Cancel(q, r) ==
    /\ Free(q, "cancel")
    /\ Exists(r) /\ Live(reg[r].class)
    /\ Rebalance(q, Canceled(r), reg[r].class)
    /\ UNCHANGED <<class, nextReg, told, crashes>>

(***************************************************************************)
(* AdminRegDelete: read the row, delete it by id (0 rows is no error),     *)
(* recompute its class.                                                    *)
(***************************************************************************)
ReadForDelete(q, r) ==
    /\ Free(q, "delete")
    /\ Exists(r)
    /\ Become(q, [Idle EXCEPT !.pc = "delete", !.reg = r, !.class = reg[r].class])
    /\ UNCHANGED <<class, reg, nextReg, told, lost, crashes>>

Delete(q) ==
    /\ At(q, "delete")
    /\ reg' = [reg EXCEPT ![req[q].reg].status = "deleted"]
    /\ Become(q, RecomputeOwed(req[q].class))
    /\ UNCHANGED <<class, nextReg, told, lost, crashes>>

(***************************************************************************)
(* AdminCreateClass, AdminUpdateClass, AdminDeleteClass.  Create stores    *)
(* midnight; the edit form has a time of day.  Update writes the row it    *)
(* read with Save, which is an UPDATE of every column and, when that       *)
(* touches no row, an INSERT: a class deleted meanwhile comes back.        *)
(***************************************************************************)
CapacityUnvalidated == -1..MaxCap
\* What the forms accept: strconv.Atoi and `capacity < 0` reject the rest.
CapacityInput == 0..MaxCap

SaveClass(c, n, d, late) ==
    class' = [class EXCEPT ![c] = [row |-> "live", cap |-> n, day |-> d, late |-> late,
                                   peak |-> IF n > @.peak THEN n ELSE @.peak]]

CreateClass(c) ==
    /\ "create" \in Handlers
    /\ class[c].row = "unused"
    /\ \E n \in CapacityInput, d \in Days : SaveClass(c, n, d, FALSE)
    /\ UNCHANGED <<reg, nextReg, req, told, lost, crashes>>

ReadForUpdate(q, c) ==
    /\ Free(q, "update")
    /\ Live(c)
    /\ Become(q, [Idle EXCEPT !.pc = "save", !.class = c])
    /\ UNCHANGED <<class, reg, nextReg, told, lost, crashes>>

Save(q) ==
    /\ At(q, "save")
    /\ \E n \in CapacityInput, d \in Days, late \in Evenings :
          SaveClass(req[q].class, n, d, late)
    /\ Become(q, RecomputeOwed(req[q].class))
    /\ UNCHANGED <<reg, nextReg, told, lost, crashes>>

ReadForDrop(q, c) ==
    /\ Free(q, "drop")
    /\ Live(c)
    /\ Become(q, [Idle EXCEPT !.pc = "roster", !.class = c])
    /\ UNCHANGED <<class, reg, nextReg, told, lost, crashes>>

RosterConfirmed(c) == Taken(reg, c)
Roster(c) == {r \in Regs : Exists(r) /\ reg[r].class = c /\ reg[r].status # "canceled"}

CountRoster(q) ==
    /\ At(q, "roster")
    /\ IF Roster(req[q].class) = {}
       THEN Become(q, [req[q] EXCEPT !.pc = "drop"])
       ELSE Become(q, Idle)
    /\ UNCHANGED <<class, reg, nextReg, told, lost, crashes>>

Drop(q) ==
    /\ At(q, "drop")
    /\ class' = [class EXCEPT ![req[q].class].row = "deleted"]
    /\ Become(q, Idle)
    /\ UNCHANGED <<reg, nextReg, told, lost, crashes>>

(***************************************************************************)
(* AdminRegCheckin and CheckinConfirm: read the registration, read its     *)
(* class and apply guardCheckin (whose verdict depends on the account and  *)
(* the clock, not modelled here), then Save the row that was read.  Child  *)
(* and class of a row never change, so what the stale row brings back is   *)
(* its status, and the row itself when it was deleted meanwhile.           *)
(***************************************************************************)
EligibleUnchecked(r) == Exists(r) /\ ~reg[r].in
Eligible(r) == reg[r].status = "confirmed" /\ ~reg[r].in

ReadForCheckin(q, r) ==
    /\ Free(q, "checkin")
    /\ Eligible(r)
    /\ Become(q, [Idle EXCEPT !.pc = "guard", !.reg = r, !.seat = reg[r].status,
                              !.class = reg[r].class])
    /\ UNCHANGED <<class, reg, nextReg, told, lost, crashes>>

Guard(q) ==
    /\ At(q, "guard")
    /\ \/ /\ Live(req[q].class)
          /\ Become(q, [req[q] EXCEPT !.pc = "mark", !.class = None])
       \/ Become(q, Idle)
    /\ UNCHANGED <<class, reg, nextReg, told, lost, crashes>>

Mark(q) ==
    /\ At(q, "mark")
    /\ reg' = [reg EXCEPT ![req[q].reg].status = req[q].seat, ![req[q].reg].in = TRUE]
    /\ Become(q, Idle)
    /\ UNCHANGED <<class, nextReg, told, lost, crashes>>

(***************************************************************************)
(* The process dies and systemd restarts it: the database stays, the       *)
(* goroutines and what they owed do not.                                   *)
(***************************************************************************)
Owing(c) == {q \in Reqs : At(q, "recompute") /\ req[q].class = c}

Crash ==
    /\ crashes < MaxCrashes
    /\ crashes' = crashes + 1
    /\ lost' = lost \cup {c \in Classes : Owing(c) # {}}
    /\ req' = [q \in Reqs |-> Idle]
    /\ UNCHANGED <<class, reg, nextReg, told>>

Arrival(q) ==
    \/ \E k \in Children, c \in Classes : Submit(q, k, c) \/ Confirm(q, k, c)
    \/ \E r \in Regs : Cancel(q, r) \/ ReadForDelete(q, r) \/ ReadForCheckin(q, r)
    \/ \E c \in Classes : ReadForUpdate(q, c) \/ ReadForDrop(q, c)

Step(q) ==
    \/ CheckDuplicate(q) \/ LoadDate(q) \/ CheckSameDay(q) \/ LoadClass(q)
    \/ TurnedAway(q) \/ CountConfirmed(q) \/ Insert(q)
    \/ Delete(q) \/ Save(q) \/ CountRoster(q) \/ Drop(q) \/ Guard(q) \/ Mark(q)
    \/ Recompute(q) \/ Notify(q)

Next ==
    \/ \E q \in Reqs : Arrival(q) \/ Step(q)
    \/ \E c \in Classes : CreateClass(c)
    \/ Crash

Spec == Init /\ [][Next]_vars

\* The Go runtime runs every goroutine and no statement blocks for ever: a
\* request that has started finishes.  Nobody has to send a request.
FairSpec == Spec /\ \A q \in Reqs : WF_vars(Step(q))

-----------------------------------------------------------------------------
(***************************************************************************)
(* Properties.                                                             *)
(***************************************************************************)

\* Every table row and local variable is well formed.
TypeOK ==
    /\ class \in [Classes -> ClassRow]
    /\ reg \in [Regs -> RegRow]
    /\ nextReg \in 1..MaxRegs + 1
    /\ req \in [Reqs -> ReqState]
    /\ told \subseteq Regs
    /\ lost \subseteq Classes
    /\ crashes \in 0..MaxCrashes

\* A class with a free seat and somebody waiting for it.
Stranded(c) ==
    /\ Live(c)
    /\ Waiting(reg, c) # {}
    /\ Cardinality(Taken(reg, c)) < class[c].cap

\* A free seat and a waiting child never sit side by side unnoticed: a running
\* request still has RecomputeClass of that class to call, or the call it owed
\* died in a crash.  The callers of services.RecomputeClass are what is at
\* stake: each must come after every statement that frees or adds a seat.
NoStrandedWaitlist == \A c \in Classes : Stranded(c) => Owing(c) # {} \/ c \in lost

\* Whoever this step moves from the waitlist into a class, no older
\* registration of the class is left waiting, and the class is not filled
\* beyond its capacity.
PromotesInOrder ==
    \A r \in Regs : reg[r].status = "waitlisted" /\ reg'[r].status = "confirmed" =>
        /\ \A s \in Waiting(reg', reg[r].class) : r < s
        /\ Cardinality(Taken(reg', reg[r].class)) <= class[reg[r].class].cap

\* "FIFO preserved": every promotion of recomputeClassTxCollect is in order and
\* fits, however requests interleave.
PromotionInOrder == [][PromotesInOrder]_vars

\* A registration's status only moves forward: nobody confirmed is put back on
\* the waitlist, nobody canceled regains a place, no deleted row returns.
\* True as long as no check-in writes back a stale row.
StatusMovesForward ==
    [][\A r \in Regs :
         /\ reg[r].status = "confirmed" => reg'[r].status # "waitlisted"
         /\ reg[r].status = "canceled" => reg'[r].status \in {"canceled", "deleted"}
         /\ reg[r].status = "deleted" => reg'[r].status = "deleted"]_vars

\* This step puts no registration back on the waitlist.
StaysOffWaitlist ==
    \A r \in Regs : reg'[r].status = "waitlisted" =>
                    reg[r].status \in {"none", "waitlisted"}

\* Whoever has left the waitlist is never on it again: not by a recompute, and
\* not by the stale row that a check-in saves.
NeverBackOnWaitlist == [][StaysOffWaitlist]_vars

\* A promotion is announced once: no registration is in the hands of two
\* requests, or announced before, and whoever is announced is off the waitlist.
AnnouncedOnce ==
    /\ \A p, q \in Reqs : p # q => req[p].promoted \cap req[q].promoted = {}
    /\ \A q \in Reqs : req[q].promoted \cap told = {}
    /\ \A r \in told \cup UNION {req[q].promoted : q \in Reqs} :
          reg[r].status # "waitlisted"

\* The seat count of the registration handlers is read before the insert it
\* decides, so N concurrent requests can confirm more children than there are
\* seats, but never more than N - 1 beyond the largest capacity the class had.
OverbookingBounded ==
    \A c \in Classes :
        Cardinality(Taken(reg, c)) <= class[c].peak + Cardinality(Reqs) - 1

\* What a new registration must not do: hold a second place of the child in
\* the class, or in another class of the same Jakarta day
\* (CheckRegistrationConflicts).
NoDoublePlace ==
    [][\A r \in Regs : reg[r].status = "none" /\ reg'[r].status # "none" =>
          \A s \in Regs :
              ~ /\ reg[s].status \in Holding
                /\ reg[s].child = reg'[r].child
                /\ Live(reg[s].class)
                /\ class[reg[s].class].day = class[reg'[r].class].day]_vars

\* Only confirmed registrations are checked in: true of one request at a time.
OnlyConfirmedCheckedIn ==
    [][\A r \in Regs : ~reg[r].in /\ reg'[r].in => reg[r].status = "confirmed"]_vars

\* A free seat beside a waiting child is eventually given away (by the
\* recompute some request owes) or goes away, if requests finish and the
\* process does not die.
WaitlistServed == \A c \in Classes : Stranded(c) ~> ~Stranded(c)

\* Every promotion a transaction committed reaches events.OnPromotion, if
\* requests finish and the process does not die: notifyPromotions leaves
\* nobody out.
PromotionAnnounced ==
    \A r \in Regs : (\E q \in Reqs : r \in req[q].promoted) ~> r \in told
=============================================================================

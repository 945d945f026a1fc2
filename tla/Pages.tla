-------------------------------- MODULE Pages --------------------------------
(***************************************************************************)
(* What the pages show: the parents' (register.go, my.go) and the staff's  *)
(* (roster, capacity, attendance, families, station, classes).  They only  *)
(* read, so each is an operator over the tables of FamilySeats.  A page of *)
(* several SELECTs may mix two states; here a page reads one.              *)
(***************************************************************************)
EXTENDS FamilySeats

\* JOIN classes JOIN children (JOIN parents): a registration whose class or
\* child is gone drops out of a list, and of no count that does not join.
Joined == {r \in Regs : Exists(r) /\ Live(reg[r].class) /\ kid[reg[r].child]}

\* classes.date BETWEEN the UTC texts of the bounds of two Jakarta days
\* (rosterWindow, todayWindow, attendanceWindow).
InWindow(c, from, to) == from <= WindowOf(c) /\ WindowOf(c) <= to

(***************************************************************************)
(* Roster.                                                                 *)
(***************************************************************************)
FilterLoose(r, f) ==
    IF f = "checked-in" THEN reg[r].status = "confirmed" /\ reg[r].in
                        ELSE reg[r].status = f

PassesFilter(r, f) ==
    CASE f = "checked-in" -> reg[r].status = "confirmed" /\ reg[r].in
      [] f = "confirmed"  -> reg[r].status = "confirmed" /\ ~reg[r].in
      [] OTHER            -> reg[r].status = f

RosterRows(c, from, to, f) ==
    {r \in Joined : reg[r].class = c /\ InWindow(c, from, to) /\ PassesFilter(r, f)}

(***************************************************************************)
(* Capacity, the parents' choice of classes, the list of classes.          *)
(***************************************************************************)
AtLeastZero(n) == IF n < 0 THEN 0 ELSE n

CapacityRow(c) ==
    LET confirmed == {r \in Regs : reg[r].class = c /\ PassesFilter(r, "confirmed")}
        checkedIn == {r \in Regs : reg[r].class = c /\ PassesFilter(r, "checked-in")}
        taken == Cardinality(confirmed) + Cardinality(checkedIn)
    IN  [confirmed  |-> Cardinality(confirmed),
         waitlisted |-> Cardinality(Waiting(reg, c)),
         checkedIn  |-> Cardinality(checkedIn),
         available  |-> AtLeastZero(class[c].cap - taken),
         fill       |-> IF class[c].cap > 0 THEN (taken * 100) \div class[c].cap ELSE 0]

ClassOption(c) ==
    LET left == AtLeastZero(class[c].cap - Cardinality(Taken(reg, c)))
    IN  [left |-> left, full |-> left = 0]

\* What AdminClasses shows of a class, and AdminDeleteClass goes by.
RegCount(c) == Cardinality({r \in Regs : Exists(r) /\ reg[r].class = c
                                         /\ reg[r].status # "canceled"})

(***************************************************************************)
(* Attendance, families, my registrations, the check-in station.           *)
(***************************************************************************)
AttendedClasses(k, from, to) ==
    {reg[r].class : r \in {s \in Joined : /\ reg[s].in /\ reg[s].child = k
                                          /\ InWindow(reg[s].class, from, to)}}

\* The families page does not join children, except to name them.
SessionRows(p, from, to) ==
    {r \in Regs : /\ reg[r].status = "confirmed" /\ Owner[reg[r].child] = p
                  /\ Live(reg[r].class) /\ InWindow(reg[r].class, from, to)}

\* MIN(classes.date), parsed back into a time: the day of the first class.
FirstClassOn(p, d) ==
    LET confirmed == {r \in RegsOf(p) : reg[r].status = "confirmed" /\ Live(reg[r].class)}
    IN  /\ \E r \in confirmed : class[reg[r].class].day = d
        /\ \A r \in confirmed : d <= class[reg[r].class].day

NewFamily(p, from, to) ==
    SessionRows(p, from, to) # {} /\ \E d \in Days : from <= d /\ d <= to /\ FirstClassOn(p, d)

MyList(p) == {r \in Joined : Owner[reg[r].child] = p /\ WindowOf(reg[r].class) >= Today}

Station == {r \in Joined : reg[r].status = "confirmed" /\ InWindow(reg[r].class, Today, Today)}

-----------------------------------------------------------------------------
(***************************************************************************)
(* Properties.                                                             *)
(***************************************************************************)

\* The attendance page, which asks for check_in_at only, counts for each child
\* the classes in which the roster shows it as checked in.
AttendanceIsRoster ==
    \A k \in Children, d, e \in Days :
        AttendedClasses(k, d, e) =
            {c \in Classes : \E r \in RosterRows(c, d, e, "checked-in") : reg[r].child = k}

\* The seats that the capacity page and the choice of classes count are the
\* rows of the roster's filters, each in one of them, and the places of
\* children that no longer exist, which no list shows.  The station lists what
\* the roster of the day does.
Unlisted(c) == {r \in Regs : reg[r].status \in Holding /\ reg[r].class = c} \ Joined

PagesAgree ==
    \A c \in Classes : Live(c) =>
        LET d == WindowOf(c)
            rows(f) == Cardinality(RosterRows(c, d, d, f))
            shown == rows("confirmed") + rows("checked-in") + rows("waitlisted")
            row == CapacityRow(c)
        IN  /\ row.available = ClassOption(c).left
            /\ row.confirmed + row.checkedIn + row.waitlisted = RegCount(c)
            /\ RegCount(c) = shown + Cardinality(Unlisted(c))
            /\ \A r \in Joined : reg[r].class = c /\ d >= Today =>
                   r \in MyList(Owner[reg[r].child])
            /\ {r \in Station : reg[r].class = c} =
                   UNION {RosterRows(c, Today, Today, f) : f \in {"confirmed", "checked-in"}}

\* "New" = their very first confirmed class falls within this period: the page of
\* the one day on which that class is counts the family as new.
NewOnFirstDay ==
    \A p \in Parents, d \in Days : FirstClassOn(p, d) => NewFamily(p, d, d)
=============================================================================

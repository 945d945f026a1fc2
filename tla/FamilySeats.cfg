\* Two families of one child each, deleted while the other registers, and what the
\* pages show of them.
CONSTANTS
    Classes = {c1}
    Children = {k1, k2}
    k1 = k1
    k2 = k2
    Parents = {p1, p2}
    p1 = p1
    p2 = p2
    Owner <- OneEach
    Days = {1, 2}
    Today = 1
    Evenings = {FALSE}
    Reqs = {q1, q2}
    Handlers = {"create", "submit", "confirm", "cancel", "checkin", "drop"}
    MaxRegs = 2
    MaxCap = 1
    MaxCrashes = 0
    None = None
SYMMETRY Interchangeable
SPECIFICATION FamilySpec
INVARIANTS FamilyLeavesNoStranded SeatsHaveChildren AttendanceIsRoster PagesAgree
PROPERTIES UpcomingAreKept
CHECK_DEADLOCK FALSE

\* admin_families.go:83 and :215: the period as text, and as times.
CONSTANTS
    Classes = {c1}
    Children = {k1, k2}
    k1 = k1
    k2 = k2
    Parents = {p1, p2}
    p1 = p1
    p2 = p2
    Owner <- OneEach
    Days = {1, 2}
    Today = 1
    Evenings = {TRUE}
    Reqs = {q1}
    Handlers = {"create", "submit", "update"}
    MaxRegs = 2
    MaxCap = 1
    MaxCrashes = 0
    None = None
SPECIFICATION FamilySpec
INVARIANT NewOnFirstDay
CHECK_DEADLOCK FALSE

\* One request at a time, every handler, two classes on two possible days.
CONSTANTS
    Classes = {c1, c2}
    Children = {k1, k2}
    Days = {1, 2}
    Evenings = {FALSE}
    Reqs = {q1}
    Handlers = {"create", "submit", "confirm", "cancel", "delete", "update", "drop", "checkin"}
    MaxRegs = 2
    MaxCap = 2
    MaxCrashes = 0
    None = None
SYMMETRY RowsInterchangeable
SPECIFICATION Spec
PROPERTIES NoDoublePlace OnlyConfirmedCheckedIn FirstComeFirstServed
CHECK_DEADLOCK FALSE

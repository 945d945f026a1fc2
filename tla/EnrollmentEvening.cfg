\* registration.go:138 compares the days of two classes in Asia/Jakarta.
CONSTANTS
    Classes = {c1, c2}
    Children = {k1}
    Days = {1}
    Evenings = {TRUE}
    Reqs = {q1}
    Handlers = {"create", "submit", "update"}
    MaxRegs = 2
    MaxCap = 1
    MaxCrashes = 0
    None = None
SPECIFICATION Spec
PROPERTY NoDoublePlace
CHECK_DEADLOCK FALSE

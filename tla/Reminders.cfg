\* A slow or late loop, one restart, and tables that change during a run.
CONSTANTS
    r1 = r1
    r2 = r2
    c1 = c1
    p1 = p1
    p2 = p2
    Regs = {r1, r2}
    Classes = {c1}
    Parents = {p1, p2}
    ClassOf <- OneClass
    ParentOf <- TwoParents
    Dates = {3, 4}
    Offsets <- Ahead
    IncludeWaitlist = FALSE
    Prompt = FALSE
    Instants = 2
    MaxMinute = 3
    MaxCrashes = 1
    None = None
SPECIFICATION Spec
INVARIANTS TypeOK AtMostTwice OnceUnlessLate EveryMinuteOnce
CHECK_DEADLOCK FALSE

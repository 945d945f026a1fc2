\* Two accounts that may link either of two parents, two requests at a time, one
\* code; nobody changes a name.
CONSTANTS
    Accounts = {a1, a2}
    Parents = {p1, p2}
    Codes = {k1}
    Names = {n1}
    Reqs = {q1, q2}
    None = None
SYMMETRY Interchangeable
SPECIFICATION Spec
INVARIANTS TypeOK LinkedIsReachable LinkedAsTold
PROPERTIES RedeemedWhileUnused
CHECK_DEADLOCK FALSE

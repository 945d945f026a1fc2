\* Two browsers, two phones, two parents, two children, every handler.
CONSTANTS
    Phones = {ph1, ph2}
    Reqs = {q1, q2}
    MaxParents = 2
    MaxKids = 2
    None = None
SYMMETRY Interchangeable
SPECIFICATION Spec
INVARIANTS TypeOK NoSplitFamily ChildrenHaveParents CookieOfAParent
CHECK_DEADLOCK FALSE

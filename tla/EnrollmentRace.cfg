\* Two concurrent requests on one class; everything but check-in; one crash.
CONSTANTS
    Classes = {c1}
    Children = {k1, k2, k3}
    Days = {1}
    Evenings = {FALSE}
    Reqs = {q1, q2}
    Handlers = {"create", "submit", "cancel", "delete", "update", "drop"}
    MaxRegs = 3
    MaxCap = 2
    MaxCrashes = 1
    None = None
SYMMETRY Interchangeable
SPECIFICATION Spec
INVARIANTS TypeOK NoStrandedWaitlist AnnouncedOnce OverbookingBounded
PROPERTIES PromotionInOrder StatusMovesForward RankPredictsPromotion
CHECK_DEADLOCK FALSE

\* Check-in beside registration, cancellation, deletion and edits; no crash;
\* every request that starts finishes.
CONSTANTS
    Classes = {c1}
    Children = {k1, k2}
    Days = {1}
    Evenings = {FALSE}
    Reqs = {q1, q2}
    Handlers = {"create", "confirm", "cancel", "delete", "update", "checkin"}
    MaxRegs = 2
    MaxCap = 2
    MaxCrashes = 0
    None = None
SPECIFICATION FairSpec
PROPERTIES NeverBackOnWaitlist WaitlistServed PromotionAnnounced
CHECK_DEADLOCK FALSE

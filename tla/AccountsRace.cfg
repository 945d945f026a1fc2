\* Two concurrent requests sign in, create and (de)activate accounts; one crash;
\* requests finish and time passes.
CONSTANTS
    Names = {admin, ann}
    First = admin
    Addrs = {a1}
    Reqs = {q1, q2}
    Handlers = {"create", "toggle"}
    MaxUsers = 3
    MaxFails = 2
    Lockout = 1
    MaxCrashes = 1
    None = None
SPECIFICATION FairSpec
INVARIANTS TypeOK UsernamesUnique SessionsSurvive FailuresBounded
PROPERTIES LastAdminLostToRace LockoutEnds
CHECK_DEADLOCK FALSE

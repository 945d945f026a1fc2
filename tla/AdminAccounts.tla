----------------------------- MODULE AdminAccounts -----------------------------
(***************************************************************************)
(* Accounts of the admin area: the bootstrap account, sign-in with its     *)
(* limit of failed attempts, signed cookies, the role check of every       *)
(* request, and the handlers that create and (de)activate accounts.        *)
(*                                                                         *)
(* As in Enrollment, an action is one statement of one handler; a critical *)
(* section of attemptsMu is one too.  Passwords are left out: whether one  *)
(* matches is a free choice.                                               *)
(***************************************************************************)
EXTENDS Integers, FiniteSets

CONSTANTS
    Names,      \* usernames
    First,      \* the username of the bootstrap account ("admin")
    Addrs,      \* client addresses
    Reqs,       \* request goroutines
    Handlers,   \* which admin handlers receive requests: "create", "toggle"
    MaxUsers,   \* bound: accounts ever created
    MaxFails,   \* maxLoginFails
    Lockout,    \* lockoutFor, in ticks of the clock
    MaxCrashes, \* bound: process crashes
    None        \* zero value of a local variable or column

ASSUME BoundsAssumption == MaxUsers \in Nat \ {0} /\ MaxCrashes \in Nat
ASSUME LimitAssumption  == MaxFails \in Nat \ {0} /\ Lockout \in Nat \ {0}
ASSUME ReqsAssumption   == IsFiniteSet(Reqs) /\ Reqs # {}
ASSUME NamesAssumption  == First \in Names /\ None \notin Names \cup Addrs

VARIABLES
    user,     \* table admin_users, by id
    stored,   \* the session key in table app_settings (0: no row)
    up,       \* the process listens
    key,      \* the session key in memory (0: not asked for yet)
    attempts, \* failed sign-ins by address, in memory
    cookies,  \* the session cookies handed out and not expired
    req,      \* what each goroutine is doing
    crashes   \* crashes so far

vars == <<user, stored, up, key, attempts, cookies, req, crashes>>

Users == 1..MaxUsers
Roles == {"admin", "checkin"}
Keys == 0..MaxCrashes + 1

Account == [name : Names \cup {None}, role : Roles, active : BOOLEAN]

Failures == [n : Nat, left : 0..Lockout]

ReqState == [pc    : {"idle", "lookup", "verdict", "sign", "load", "others", "flip",
                      "taken", "insert"},
             addr  : Addrs \cup {None}, name : Names \cup {None}, role : Roles,
             actor : 0..MaxUsers, target : 0..MaxUsers, active : BOOLEAN]

Idle == [pc |-> "idle", addr |-> None, name |-> None, role |-> "admin",
         actor |-> 0, target |-> 0, active |-> FALSE]

NoUser == [name |-> None, role |-> "admin", active |-> FALSE]

Become(q, s) == req' = [req EXCEPT ![q] = s]

At(q, pc) == req[q].pc = pc

Exists(u) == u \in Users /\ user[u].name # None

ActiveAdmin(u) == Exists(u) /\ user[u].role = "admin" /\ user[u].active

Init ==
    /\ user = [u \in Users |-> NoUser]
    /\ stored = 0
    /\ up = FALSE
    /\ key = 0
    /\ attempts = [a \in Addrs |-> [n |-> 0, left |-> 0]]
    /\ cookies = {}
    /\ req = [q \in Reqs |-> Idle]
    /\ crashes = 0

(***************************************************************************)
(* The table.  username has a unique index; ids grow.                      *)
(***************************************************************************)
Holders(name) == {u \in Users : Exists(u) /\ user[u].name = name}

NextId == {u \in Users : ~Exists(u) /\ \A v \in Users : v < u => Exists(v)}

InsertUnindexed(name, role) ==
    \E u \in NextId :
        user' = [user EXCEPT ![u] = [name |-> name, role |-> role, active |-> TRUE]]
InsertUser(name, role) ==
    \/ /\ Holders(name) = {}
       /\ \E u \in NextId :
             user' = [user EXCEPT ![u] = [name |-> name, role |-> role, active |-> TRUE]]
    \/ Holders(name) # {} /\ UNCHANGED user

\* main: EnsureBootstrapAdmin, then ListenAndServe.
Start ==
    /\ ~up
    /\ up' = TRUE
    /\ IF \E u \in Users : Exists(u) THEN UNCHANGED user ELSE InsertUser(First, "admin")
    /\ UNCHANGED <<stored, key, attempts, cookies, req, crashes>>

(***************************************************************************)
(* The session key: asked for once per process; read from app_settings,    *)
(* or made at random (here: the number of the process) and saved there.    *)
(***************************************************************************)
KeyNotKept == /\ key' = IF key # 0 THEN key ELSE crashes + 1
              /\ stored' = stored
UseKey == /\ key' = IF key # 0 THEN key ELSE IF stored # 0 THEN stored ELSE crashes + 1
          /\ stored' = IF key # 0 THEN stored ELSE key'

(***************************************************************************)
(* The limit of failed sign-ins.  `left' is what remains until the time in *)
(* `until'; bcrypt runs between the two critical sections, so the clock is *)
(* never exactly at `until' in the second one.                             *)
(***************************************************************************)
LockedTooLate(a) == attempts[a].n > MaxFails /\ attempts[a].left > 0
LockedForGood(a) == attempts[a].n >= MaxFails
Locked(a) == attempts[a].n >= MaxFails /\ attempts[a].left > 0

NoteLoginFailAdding(a) ==
    attempts' = [attempts EXCEPT ![a] =
                    [n |-> IF @.left = 0 THEN 1 ELSE @.n + 1, left |-> @.left + Lockout]]
NoteLoginFail(a) ==
    attempts' = [attempts EXCEPT ![a] =
                    [n |-> IF @.left = 0 THEN 1 ELSE @.n + 1, left |-> Lockout]]

ClearLoginFails(a) == attempts' = [attempts EXCEPT ![a] = [n |-> 0, left |-> 0]]

\* The clock comes nearer to `until' of every address.
Tick ==
    /\ \E a \in Addrs : attempts[a].left > 0
    /\ attempts' = [a \in Addrs |-> [attempts[a] EXCEPT !.left = IF @ > 0 THEN @ - 1 ELSE 0]]
    /\ UNCHANGED <<user, stored, up, key, cookies, req, crashes>>

(***************************************************************************)
(* AdminLoginSubmit.                                                       *)
(***************************************************************************)
Attempt(q, a, name) ==
    /\ up /\ At(q, "idle")
    /\ ~Locked(a)
    /\ Become(q, [Idle EXCEPT !.pc = "lookup", !.addr = a, !.name = name])
    /\ UNCHANGED <<user, stored, up, key, attempts, cookies, crashes>>

Lookup(q) ==
    /\ At(q, "lookup")
    /\ \/ \E u \in Holders(req[q].name) :
             Become(q, [req[q] EXCEPT !.pc = "verdict", !.name = None, !.actor = u,
                                      !.active = user[u].active])
       \/ /\ Holders(req[q].name) = {}
          /\ Become(q, [req[q] EXCEPT !.pc = "verdict", !.name = None])
    /\ UNCHANGED <<user, stored, up, key, attempts, cookies, crashes>>

Reject(q) ==
    /\ At(q, "verdict")
    /\ NoteLoginFail(req[q].addr)
    /\ Become(q, Idle)
    /\ UNCHANGED <<user, stored, up, key, cookies, crashes>>

Accept(q) ==
    /\ At(q, "verdict") /\ req[q].active
    /\ ClearLoginFails(req[q].addr)
    /\ Become(q, [Idle EXCEPT !.pc = "sign", !.actor = req[q].actor])
    /\ UNCHANGED <<user, stored, up, key, cookies, crashes>>

SignIn(q) ==
    /\ At(q, "sign")
    /\ UseKey
    /\ cookies' = cookies \cup {[user |-> req[q].actor, key |-> key']}
    /\ Become(q, Idle)
    /\ UNCHANGED <<user, up, attempts, crashes>>

Expire(k) ==
    /\ k \in cookies
    /\ cookies' = cookies \ {k}
    /\ UNCHANGED <<user, stored, up, key, attempts, req, crashes>>

(***************************************************************************)
(* RequireRole: the cookie verifies and its account is an active admin.    *)
(* It lets the request into a handler, which never asks again.             *)
(***************************************************************************)
LetIn(q, k, s) ==
    /\ up /\ At(q, "idle")
    /\ k \in cookies
    /\ UseKey /\ k.key = key'
    /\ ActiveAdmin(k.user)
    /\ Become(q, s)
    /\ UNCHANGED <<user, up, attempts, cookies, crashes>>

(***************************************************************************)
(* AdminUserToggle.                                                        *)
(***************************************************************************)
Toggle(q, k, u) ==
    /\ "toggle" \in Handlers
    /\ LetIn(q, k, [Idle EXCEPT !.pc = "load", !.actor = k.user, !.target = u])

ToggleableByAll(actor, u) == Exists(u)
Toggleable(actor, u) == Exists(u) /\ u # actor

LoadTarget(q) ==
    /\ At(q, "load")
    /\ IF Toggleable(req[q].actor, req[q].target)
       THEN Become(q, [req[q] EXCEPT !.active = user[req[q].target].active,
                           !.pc = IF ActiveAdmin(req[q].target) THEN "others" ELSE "flip"])
       ELSE Become(q, Idle)
    /\ UNCHANGED <<user, stored, up, key, attempts, cookies, crashes>>

CountOthers(q) ==
    /\ At(q, "others")
    /\ IF \E u \in Users \ {req[q].target} : ActiveAdmin(u)
       THEN Become(q, [req[q] EXCEPT !.pc = "flip"])
       ELSE Become(q, Idle)
    /\ UNCHANGED <<user, stored, up, key, attempts, cookies, crashes>>

Flip(q) ==
    /\ At(q, "flip")
    /\ user' = [user EXCEPT ![req[q].target].active = ~req[q].active]
    /\ Become(q, Idle)
    /\ UNCHANGED <<stored, up, key, attempts, cookies, crashes>>

(***************************************************************************)
(* AdminUserCreate: count the holders of the name, then insert (refused by *)
(* the index when somebody else was faster).                               *)
(***************************************************************************)
Creating == {q \in Reqs : req[q].pc \in {"taken", "insert"}}

Create(q, k, name, role) ==
    /\ "create" \in Handlers
    /\ Cardinality(Creating) < Cardinality({u \in Users : ~Exists(u)})
    /\ LetIn(q, k, [Idle EXCEPT !.pc = "taken", !.actor = k.user, !.name = name, !.role = role])

CountName(q) ==
    /\ At(q, "taken")
    /\ IF Holders(req[q].name) = {}
       THEN Become(q, [req[q] EXCEPT !.pc = "insert"])
       ELSE Become(q, Idle)
    /\ UNCHANGED <<user, stored, up, key, attempts, cookies, crashes>>

Insert(q) ==
    /\ At(q, "insert")
    /\ InsertUser(req[q].name, req[q].role)
    /\ Become(q, Idle)
    /\ UNCHANGED <<stored, up, key, attempts, cookies, crashes>>

\* The process dies: the database and the browsers' cookies stay.
Crash ==
    /\ up /\ crashes < MaxCrashes
    /\ crashes' = crashes + 1
    /\ up' = FALSE
    /\ key' = 0
    /\ attempts' = [a \in Addrs |-> [n |-> 0, left |-> 0]]
    /\ req' = [q \in Reqs |-> Idle]
    /\ UNCHANGED <<user, stored, cookies>>

Arrival(q) ==
    \/ \E a \in Addrs, name \in Names : Attempt(q, a, name)
    \/ \E k \in cookies, u \in Users : Toggle(q, k, u)
    \/ \E k \in cookies, name \in Names, role \in Roles : Create(q, k, name, role)

Step(q) ==
    \/ Lookup(q) \/ Reject(q) \/ Accept(q) \/ SignIn(q)
    \/ LoadTarget(q) \/ CountOthers(q) \/ Flip(q)
    \/ CountName(q) \/ Insert(q)

Next ==
    \/ Start \/ Tick \/ Crash
    \/ \E q \in Reqs : Arrival(q) \/ Step(q)
    \/ \E k \in cookies : Expire(k)

Spec == Init /\ [][Next]_vars

\* Time passes, and a request that has started finishes.
FairSpec == Spec /\ WF_vars(Tick) /\ \A q \in Reqs : WF_vars(Step(q))

-----------------------------------------------------------------------------
(***************************************************************************)
(* Properties.                                                             *)
(***************************************************************************)

\* Every table row, counter and local variable is well formed.
TypeOK ==
    /\ user \in [Users -> Account]
    /\ stored \in Keys /\ key \in Keys
    /\ up \in BOOLEAN
    /\ attempts \in [Addrs -> Failures]
    /\ cookies \subseteq [user : Users, key : Keys]
    /\ req \in [Reqs -> ReqState]
    /\ crashes \in 0..MaxCrashes

\* Two accounts never share a username, however creations race each other:
\* the index catches what the count of AdminUserCreate misses.
UsernamesUnique == \A n \in Names : Cardinality(Holders(n)) <= 1

\* "Never lock everyone out: keep at least one active admin standing": once the
\* program has been started, some active admin exists (AdminUserToggle).  Two
\* admins who deactivate each other at the same time break it.
AdminStanding == up => \E u \in Users : ActiveAdmin(u)

\* The last active admin is only ever switched off by a request whose own
\* account was switched off after RequireRole had let it in: without a race,
\* the self check and the count of AdminUserToggle keep an admin standing.
LastAdminLostToRace ==
    [][up /\ AdminStanding /\ ~AdminStanding' =>
          \E q \in Reqs : At(q, "flip") /\ ~ActiveAdmin(req[q].actor)]_vars

\* "Restarts do not sign everyone out": every cookie handed out and not expired
\* verifies, with the key in memory or the one a new process will read.
SessionsSurvive ==
    \A k \in cookies : k.key = IF key # 0 THEN key ELSE stored

\* Attempts pass loginLocked before they are counted, so N concurrent ones can
\* fail more than maxLoginFails times, but at most N - 1 times more.
FailuresBounded ==
    \A a \in Addrs : attempts[a].n <= MaxFails + Cardinality(Reqs) - 1

\* A locked address is let in again ("try again in 15 minutes"): while it is
\* locked, no new attempt can put the end of the lockout off.
LockoutEnds == \A a \in Addrs : Locked(a) ~> ~Locked(a)
=============================================================================

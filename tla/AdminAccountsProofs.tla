-------------------------- MODULE AdminAccountsProofs --------------------------
(***************************************************************************)
(* Theorems about AdminAccounts for every set of names, addresses and      *)
(* request goroutines, every limit and every bound.                        *)
(***************************************************************************)
EXTENDS AdminAccounts, FiniteSetTheorems, TLAPS

-----------------------------------------------------------------------------
(* What the states of a request look like.                                 *)

\* The local variables a handler has set by the time it reaches a statement.
Consistent(s) ==
    /\ s.pc \in {"lookup", "verdict"} => s.addr \in Addrs
    /\ s.pc = "lookup" => s.name \in Names /\ ~s.active
    /\ s.pc = "verdict" /\ s.active => s.actor \in Users
    /\ s.pc = "sign" => s.actor \in Users
    /\ s.pc \in {"others", "flip"} => s.target \in Users /\ s.target # s.actor
    /\ s.pc \in {"taken", "insert"} => s.name \in Names

TypeInv == TypeOK /\ \A q \in Reqs : Consistent(req[q])

\* An idle request is well formed.
LEMMA IdleType == Idle \in ReqState /\ Consistent(Idle)
  BY BoundsAssumption DEF Idle, ReqState, Roles, Consistent

\* What the counters of failed sign-ins become is well formed.
LEMMA FailuresType ==
    /\ [n |-> 0, left |-> 0] \in Failures /\ [n |-> 1, left |-> Lockout] \in Failures
    /\ \A f \in Failures : /\ f.n \in Nat /\ f.left \in 0..Lockout
                          /\ [n |-> f.n + 1, left |-> Lockout] \in Failures
                          /\ [f EXCEPT !.left = IF @ > 0 THEN @ - 1 ELSE 0] \in Failures
  BY LimitAssumption DEF Failures

\* A step that gives one request a well-formed state and leaves the rest of
\* the types alone keeps the type invariant.
LEMMA RequestStep ==
    ASSUME TypeInv, NEW q \in Reqs, NEW s \in ReqState, Consistent(s), Become(q, s),
           user' \in [Users -> Account], stored' \in Keys, key' \in Keys, up' \in BOOLEAN,
           attempts' \in [Addrs -> Failures],
           cookies' \subseteq [user : Users, key : Keys], crashes' \in 0..MaxCrashes
    PROVE  TypeInv'
<1>1. req' \in [Reqs -> ReqState]
  BY DEF Become, TypeInv, TypeOK
<1>2. \A p \in Reqs : Consistent(req'[p])
  BY DEF Become, TypeInv, TypeOK
<1>3. (\A p \in Reqs : Consistent(req[p]))'
  BY <1>2 DEF Consistent, Users
<1> QED BY <1>1, <1>3 DEF TypeInv, TypeOK, Users, Keys

\* The session key that is used is a key, and so is the one that is stored.
LEMMA KeyType ==
    ASSUME TypeInv, UseKey
    PROVE  key' \in Keys /\ stored' \in Keys
  BY BoundsAssumption DEF UseKey, TypeInv, TypeOK, Keys

\* An insertion leaves a table of accounts.
LEMMA InsertType ==
    ASSUME TypeInv, NEW name \in Names, NEW role \in Roles, InsertUser(name, role)
    PROVE  user' \in [Users -> Account]
<1>1. CASE UNCHANGED user
  BY <1>1 DEF TypeInv, TypeOK
<1>2. CASE Holders(name) = {}
  <2>1. CASE Holders(name) # {}
    BY <1>2, <2>1
  <2>2. CASE \E u \in NextId :
                user' = [user EXCEPT ![u] = [name |-> name, role |-> role, active |-> TRUE]]
    <3>1. [name |-> name, role |-> role, active |-> TRUE] \in Account
      BY DEF Account
    <3> QED BY <2>2, <3>1 DEF TypeInv, TypeOK
  <2> QED BY <1>2, <2>1, <2>2 DEF InsertUser
<1> QED BY <1>1, <1>2 DEF InsertUser

\* Every step of a request keeps the type invariant.
LEMMA StepType ==
    ASSUME TypeInv, NEW q \in Reqs, Step(q)
    PROVE  TypeInv'
<1>0. req[q] \in ReqState /\ Consistent(req[q])
  BY DEF TypeInv, TypeOK
<1> USE DEF TypeInv, TypeOK
<1>1. CASE Lookup(q)
  <2>1. CASE \E u \in Holders(req[q].name) :
                Become(q, [req[q] EXCEPT !.pc = "verdict", !.name = None, !.actor = u,
                                         !.active = user[u].active])
    <3>1. PICK u \in Holders(req[q].name) :
                Become(q, [req[q] EXCEPT !.pc = "verdict", !.name = None, !.actor = u,
                                         !.active = user[u].active])
      BY <2>1
    <3> DEFINE s == [req[q] EXCEPT !.pc = "verdict", !.name = None, !.actor = u,
                                   !.active = user[u].active]
    <3>2. u \in Users /\ user[u].active \in BOOLEAN
      BY DEF Holders, Account
    <3>2a. u \in 0..MaxUsers
      BY <3>2, BoundsAssumption DEF Users
    <3>3. s \in ReqState
      BY <1>0, <3>2, <3>2a DEF ReqState
    <3>4. Consistent(s)
      BY <1>0, <1>1, <3>2 DEF ReqState, Consistent, Lookup, At
    <3> HIDE DEF s
    <3> QED BY <1>1, <3>1, <3>3, <3>4, RequestStep DEF Lookup, s
  <2>2. CASE Become(q, [req[q] EXCEPT !.pc = "verdict", !.name = None])
             /\ Holders(req[q].name) = {}
    <3> DEFINE s == [req[q] EXCEPT !.pc = "verdict", !.name = None]
    <3>1. s \in ReqState
      BY <1>0 DEF ReqState
    <3>2. Consistent(s)
      BY <1>0, <1>1, <3>1 DEF ReqState, Consistent, Lookup, At
    <3> HIDE DEF s
    <3> QED BY <1>1, <2>2, <3>1, <3>2, RequestStep DEF Lookup, s
  <2> QED BY <1>1, <2>1, <2>2 DEF Lookup
<1>2. CASE Reject(q)
  <2> DEFINE a == req[q].addr
             f == [n |-> IF attempts[a].left = 0 THEN 1 ELSE attempts[a].n + 1,
                   left |-> Lockout]
  <2>0. a \in Addrs
    BY <1>0, <1>2 DEF Consistent, Reject, At
  <2>0a. f \in Failures
    BY <2>0, FailuresType
  <2>0b. attempts' = [attempts EXCEPT ![a] = f]
    BY <1>2 DEF Reject, NoteLoginFail
  <2> HIDE DEF f
  <2>1. attempts' \in [Addrs -> Failures]
    BY <2>0a, <2>0b
  <2> QED BY <1>2, <2>1, IdleType, RequestStep DEF Reject
<1>3. CASE Accept(q)
  <2> DEFINE s == [Idle EXCEPT !.pc = "sign", !.actor = req[q].actor]
  <2>1. attempts' \in [Addrs -> Failures]
    BY <1>3, FailuresType DEF Accept, ClearLoginFails
  <2>2. s \in ReqState /\ Consistent(s)
    BY <1>0, <1>3, IdleType DEF ReqState, Consistent, Accept, At, Idle
  <2> HIDE DEF s
  <2> QED BY <1>3, <2>1, <2>2, RequestStep DEF Accept, s
<1>4. CASE SignIn(q)
  <2>1. cookies' \subseteq [user : Users, key : Keys]
    BY <1>0, <1>4, KeyType DEF SignIn, Consistent, At
  <2> QED BY <1>4, <2>1, KeyType, IdleType, RequestStep DEF SignIn
<1>5. CASE LoadTarget(q)
  <2> DEFINE s == [req[q] EXCEPT !.active = user[req[q].target].active,
                      !.pc = IF ActiveAdmin(req[q].target) THEN "others" ELSE "flip"]
  <2>1. CASE Toggleable(req[q].actor, req[q].target)
    <3>1. req[q].target \in Users /\ req[q].target # req[q].actor
      BY <2>1 DEF Toggleable, Exists
    <3>2. user[req[q].target].active \in BOOLEAN
      BY <3>1 DEF Account
    <3>3. s \in ReqState /\ Consistent(s)
      BY <1>0, <3>1, <3>2 DEF ReqState, Consistent
    <3> HIDE DEF s
    <3> QED BY <1>5, <2>1, <3>3, RequestStep DEF LoadTarget, s
  <2>2. CASE ~Toggleable(req[q].actor, req[q].target)
    BY <1>5, <2>2, IdleType, RequestStep DEF LoadTarget
  <2> QED BY <2>1, <2>2
<1>6. CASE CountOthers(q)
  <2> DEFINE s == [req[q] EXCEPT !.pc = "flip"]
  <2>1. s \in ReqState /\ Consistent(s)
    BY <1>0, <1>6 DEF ReqState, Consistent, CountOthers, At
  <2> HIDE DEF s
  <2>2. Become(q, s) \/ Become(q, Idle)
    BY <1>6 DEF CountOthers, s
  <2>3. CASE Become(q, s)
    BY <1>6, <2>1, <2>3, RequestStep DEF CountOthers
  <2>4. CASE Become(q, Idle)
    BY <1>6, <2>4, IdleType, RequestStep DEF CountOthers
  <2> QED BY <2>2, <2>3, <2>4
<1>7. CASE Flip(q)
  <2>1. user' \in [Users -> Account]
    BY <1>7 DEF Flip, Account
  <2> QED BY <1>7, <2>1, IdleType, RequestStep DEF Flip
<1>8. CASE CountName(q)
  <2> DEFINE s == [req[q] EXCEPT !.pc = "insert"]
  <2>1. s \in ReqState /\ Consistent(s)
    BY <1>0, <1>8 DEF ReqState, Consistent, CountName, At
  <2> HIDE DEF s
  <2>2. Become(q, s) \/ Become(q, Idle)
    BY <1>8 DEF CountName, s
  <2>3. CASE Become(q, s)
    BY <1>8, <2>1, <2>3, RequestStep DEF CountName
  <2>4. CASE Become(q, Idle)
    BY <1>8, <2>4, IdleType, RequestStep DEF CountName
  <2> QED BY <2>2, <2>3, <2>4
<1>9. CASE Insert(q)
  <2>1. req[q].name \in Names /\ req[q].role \in Roles
    BY <1>0, <1>9 DEF Insert, At, Consistent, ReqState
  <2>2. user' \in [Users -> Account]
    BY <1>9, <2>1, InsertType DEF Insert
  <2> QED BY <1>9, <2>2, IdleType, RequestStep DEF Insert
<1> QED BY <1>1, <1>2, <1>3, <1>4, <1>5, <1>6, <1>7, <1>8, <1>9 DEF Step

\* So does a request that arrives.
LEMMA ArrivalType ==
    ASSUME TypeInv, NEW q \in Reqs, Arrival(q)
    PROVE  TypeInv'
<1> USE DEF TypeInv, TypeOK
<1>1. ASSUME NEW a \in Addrs, NEW name \in Names, Attempt(q, a, name)
      PROVE  TypeInv'
  <2> DEFINE s == [Idle EXCEPT !.pc = "lookup", !.addr = a, !.name = name]
  <2>1. s \in ReqState /\ Consistent(s)
    BY IdleType DEF ReqState, Consistent, Idle
  <2> HIDE DEF s
  <2> QED BY <1>1, <2>1, RequestStep DEF Attempt, s
<1>2. ASSUME NEW k \in cookies, NEW u \in Users, Toggle(q, k, u)
      PROVE  TypeInv'
  <2> DEFINE s == [Idle EXCEPT !.pc = "load", !.actor = k.user, !.target = u]
  <2>0. k.user \in 0..MaxUsers /\ u \in 0..MaxUsers
    BY BoundsAssumption DEF Users
  <2>1a. s \in ReqState
    BY <2>0, IdleType DEF ReqState
  <2>1b. Consistent(s)
    BY DEF Consistent, Idle
  <2>1. s \in ReqState /\ Consistent(s)
    BY <2>1a, <2>1b
  <2> HIDE DEF s
  <2>2. LetIn(q, k, s)
    BY <1>2 DEF Toggle, s
  <2> QED BY <2>1, <2>2, KeyType, RequestStep DEF LetIn
<1>3. ASSUME NEW k \in cookies, NEW name \in Names, NEW role \in Roles,
             Create(q, k, name, role)
      PROVE  TypeInv'
  <2> DEFINE s == [Idle EXCEPT !.pc = "taken", !.actor = k.user, !.name = name,
                               !.role = role]
  <2>0. k.user \in 0..MaxUsers
    BY BoundsAssumption DEF Users
  <2>1a. s \in ReqState
    BY <2>0, IdleType DEF ReqState
  <2>1b. Consistent(s)
    BY DEF Consistent, Idle
  <2>1. s \in ReqState /\ Consistent(s)
    BY <2>1a, <2>1b
  <2> HIDE DEF s
  <2>2. LetIn(q, k, s)
    BY <1>3 DEF Create, s
  <2> QED BY <2>1, <2>2, KeyType, RequestStep DEF LetIn
<1> QED BY <1>1, <1>2, <1>3 DEF Arrival

\* So do the steps nobody requests.
LEMMA OtherType ==
    ASSUME TypeInv, Start \/ Tick \/ Crash \/ \E k \in cookies : Expire(k)
    PROVE  TypeInv'
<1> USE DEF TypeInv, TypeOK
<1>1. CASE Start
  <2>1. user' \in [Users -> Account]
    BY <1>1, InsertType, NamesAssumption DEF Start, Roles
  <2> QED BY <1>1, <2>1 DEF Start, Consistent, Users
<1>2. CASE Tick
  <2>1. attempts' \in [Addrs -> Failures]
    BY <1>2, FailuresType DEF Tick
  <2> QED BY <1>2, <2>1 DEF Tick, Consistent, Users
<1>3. CASE Crash
  <2>1. /\ attempts' \in [Addrs -> Failures]
        /\ key' \in Keys /\ crashes' \in 0..MaxCrashes
    BY <1>3, FailuresType, BoundsAssumption DEF Crash, Keys
  <2>1b. up' \in BOOLEAN
    BY <1>3 DEF Crash
  <2>1a. req' \in [Reqs -> ReqState]
    BY <1>3, IdleType DEF Crash
  <2>2. \A q \in Reqs : Consistent(req'[q])
    BY <1>3, IdleType DEF Crash
  <2>3. (\A q \in Reqs : Consistent(req[q]))'
    BY <2>2 DEF Consistent, Users
  <2> QED BY <1>3, <2>1, <2>1a, <2>1b, <2>3 DEF Crash
<1>4. CASE \E k \in cookies : Expire(k)
  BY <1>4 DEF Expire, Consistent, Users
<1> QED BY <1>1, <1>2, <1>3, <1>4

\* TypeInv is an invariant.
LEMMA TypeStep ==
    ASSUME TypeInv, [Next]_vars
    PROVE  TypeInv'
<1>1. CASE UNCHANGED vars
  BY <1>1 DEF vars, TypeInv, TypeOK, Consistent, Users, Keys
<1>2. CASE Next
  BY <1>2, StepType, ArrivalType, OtherType DEF Next
<1> QED BY <1>1, <1>2

LEMMA TypeInit == Init => TypeInv
<1> SUFFICES ASSUME Init PROVE TypeInv
  OBVIOUS
<1>1. NoUser \in Account
  BY DEF NoUser, Account, Roles
<1>2. TypeOK
  <2>1. /\ user \in [Users -> Account] /\ req \in [Reqs -> ReqState]
        /\ attempts \in [Addrs -> Failures]
    BY <1>1, IdleType, FailuresType DEF Init
  <2>2. /\ stored \in Keys /\ key \in Keys
        /\ crashes \in 0..MaxCrashes
    BY BoundsAssumption DEF Init, Keys
  <2>2a. up \in BOOLEAN
    BY DEF Init
  <2>3. cookies \subseteq [user : Users, key : Keys]
    BY DEF Init
  <2> QED BY <2>1, <2>2, <2>2a, <2>3 DEF TypeOK
<1> QED BY <1>2, IdleType DEF Init, TypeInv

LEMMA TypeInvariant == Spec => []TypeInv
  BY TypeInit, TypeStep, PTL DEF Spec

\* Every reachable state of AdminAccounts is well formed.
THEOREM TypeCorrect == Spec => []TypeOK
  BY TypeInvariant, PTL DEF TypeInv

-----------------------------------------------------------------------------
(* Usernames.                                                              *)

NamesDiffer ==
    \A u, v \in Users : Exists(u) /\ Exists(v) /\ user[u].name = user[v].name => u = v

\* The unique index: an insertion gives no name a second holder.
LEMMA InsertDiffers ==
    ASSUME TypeInv, NamesDiffer, NEW name \in Names, NEW role \in Roles,
           InsertUser(name, role)
    PROVE  NamesDiffer'
<1>1. CASE UNCHANGED user
  BY <1>1 DEF NamesDiffer, Exists, Users
<1>2. CASE ~UNCHANGED user
  <2>1. Holders(name) = {}
    BY <1>2 DEF InsertUser
  <2>2. PICK w \in NextId :
            user' = [user EXCEPT ![w] = [name |-> name, role |-> role, active |-> TRUE]]
    BY <1>2 DEF InsertUser
  <2>3. \A u \in Users : Exists(u) => user[u].name # name
    BY <2>1 DEF Holders
  <2>4. \A u \in Users : user'[u].name = IF u = w THEN name ELSE user[u].name
    BY <2>2 DEF TypeInv, TypeOK
  <2>5. SUFFICES ASSUME NEW u \in Users, NEW v \in Users, Exists(u)', Exists(v)',
                        user'[u].name = user'[v].name
                 PROVE  u = v
    BY DEF NamesDiffer, Users
  <2>6. /\ u # w => Exists(u) /\ user'[u].name = user[u].name
        /\ v # w => Exists(v) /\ user'[v].name = user[v].name
    BY <2>4, <2>5 DEF Exists
  <2>7. user'[w].name = name
    BY <2>4 DEF NextId
  <2> QED BY <2>3, <2>5, <2>6, <2>7 DEF NamesDiffer
<1> QED BY <1>1, <1>2

\* No step changes who holds which name but an insertion.
LEMMA NamesStep ==
    ASSUME TypeInv, NamesDiffer, [Next]_vars
    PROVE  NamesDiffer'
<1>1. CASE UNCHANGED user
  BY <1>1 DEF NamesDiffer, Exists, Users
<1>2. CASE Start
  BY <1>1, <1>2, InsertDiffers, NamesAssumption DEF Start, Roles
<1>3. ASSUME NEW q \in Reqs, Flip(q)
      PROVE  NamesDiffer'
  <2>1. \A u \in Users : user'[u].name = user[u].name
    BY <1>3 DEF Flip, TypeInv, TypeOK, Account
  <2> QED BY <2>1 DEF NamesDiffer, Exists, Users
<1>4. ASSUME NEW q \in Reqs, Insert(q)
      PROVE  NamesDiffer'
  <2>1. req[q].name \in Names /\ req[q].role \in Roles
    BY <1>4 DEF Insert, At, Consistent, ReqState, TypeInv, TypeOK
  <2> QED BY <1>4, <2>1, InsertDiffers DEF Insert
<1>5. UNCHANGED user \/ Start \/ \E q \in Reqs : Flip(q) \/ Insert(q)
  BY DEF Next, vars, Tick, Crash, Expire, Arrival, Attempt, Toggle, Create, LetIn,
         Step, Lookup, Reject, Accept, SignIn, LoadTarget, CountOthers, CountName
<1> QED BY <1>1, <1>2, <1>3, <1>4, <1>5

LEMMA NamesInvariant == Spec => []NamesDiffer
<1>1. Init => NamesDiffer
  BY DEF Init, NamesDiffer, Exists, NoUser
<1> QED BY <1>1, NamesStep, TypeInvariant, PTL DEF Spec

\* AdminUserCreate counts and inserts in two statements, so two requests may
\* both find a name free; still no two accounts ever share one.
THEOREM OneAccountPerName == Spec => []UsernamesUnique
<1>1. ASSUME NamesDiffer PROVE UsernamesUnique
  <2>1. SUFFICES ASSUME NEW n \in Names PROVE Cardinality(Holders(n)) <= 1
    BY DEF UsernamesUnique
  <2>2. CASE Holders(n) = {}
    BY <2>2, FS_EmptySet
  <2>3. CASE Holders(n) # {}
    <3>1. PICK u \in Holders(n) : TRUE
      BY <2>3
    <3>2. Holders(n) = {u}
      BY <1>1, <3>1 DEF NamesDiffer, Holders
    <3> QED BY <3>2, FS_Singleton
  <2> QED BY <2>2, <2>3
<1> QED BY <1>1, NamesInvariant, PTL

-----------------------------------------------------------------------------
(* Session keys.                                                           *)

KeysAgree ==
    /\ key # 0 => stored = key
    /\ \A k \in cookies : k.key = stored /\ k.key # 0

LEMMA UseKeyAgrees ==
    ASSUME TypeInv, KeysAgree, UseKey
    PROVE  /\ key' # 0 /\ stored' = key'
           /\ \A k \in cookies : k.key = stored'
  BY DEF TypeInv, TypeOK, KeysAgree, UseKey

LEMMA KeysStep ==
    ASSUME TypeInv, KeysAgree, [Next]_vars
    PROVE  KeysAgree'
<1>1. CASE UNCHANGED <<stored, key, cookies>>
  BY <1>1 DEF KeysAgree
<1>2. CASE Crash
  BY <1>2 DEF Crash, KeysAgree
<1>3. ASSUME NEW k \in cookies, Expire(k)
      PROVE  KeysAgree'
  BY <1>3 DEF Expire, KeysAgree
<1>4. ASSUME NEW q \in Reqs, NEW k \in cookies, NEW s, LetIn(q, k, s)
      PROVE  KeysAgree'
  BY <1>4, UseKeyAgrees DEF LetIn, KeysAgree
<1>5. ASSUME NEW q \in Reqs, SignIn(q)
      PROVE  KeysAgree'
  BY <1>5, UseKeyAgrees DEF SignIn, KeysAgree
<1>6. ASSUME NEW q \in Reqs, Step(q)
      PROVE  KeysAgree'
  BY <1>1, <1>5, <1>6 DEF Step, Lookup, Reject, Accept, LoadTarget, CountOthers, Flip,
                          CountName, Insert
<1>7. ASSUME NEW q \in Reqs, Arrival(q)
      PROVE  KeysAgree'
  BY <1>1, <1>4, <1>7 DEF Arrival, Attempt, Toggle, Create
<1> QED BY <1>1, <1>2, <1>3, <1>6, <1>7 DEF Next, vars, Start, Tick

\* A restart signs nobody out: the key that signed a cookie is the one in
\* memory or, after a crash, the one the next process reads from app_settings.
THEOREM CookiesSurvive == Spec => []SessionsSurvive
<1>1. Init => KeysAgree
  BY DEF Init, KeysAgree
<1>2. Spec => []KeysAgree
  BY <1>1, KeysStep, TypeInvariant, PTL DEF Spec
<1>3. KeysAgree => SessionsSurvive
  BY DEF KeysAgree, SessionsSurvive
<1> QED BY <1>2, <1>3, PTL

-----------------------------------------------------------------------------
(* The last admin.                                                         *)

\* The last active admin is lost only to a request whose own account has been
\* switched off since it was let in: a toggle never touches its actor, so an
\* actor who is still an active admin is the admin left standing.
LEMMA LastAdminStep ==
    ASSUME TypeInv, Next, up, AdminStanding, ~AdminStanding'
    PROVE  \E q \in Reqs : At(q, "flip") /\ ~ActiveAdmin(req[q].actor)
<1>1. PICK u \in Users : ActiveAdmin(u)
  BY DEF AdminStanding
<1>2. ~UNCHANGED user
  BY <1>1 DEF AdminStanding, ActiveAdmin, Exists, Users
<1>3. \E q \in Reqs : Flip(q) \/ Insert(q)
  BY <1>2 DEF Next, Start, Tick, Crash, Expire, Arrival, Attempt, Toggle, Create, LetIn,
         Step, Lookup, Reject, Accept, SignIn, LoadTarget, CountOthers, CountName
<1>4. PICK q \in Reqs : Flip(q) \/ Insert(q)
  BY <1>3
<1>5. ASSUME Insert(q) PROVE FALSE
  <2>1. PICK w \in NextId : user' = [user EXCEPT ![w] = [name |-> req[q].name,
                                           role |-> req[q].role, active |-> TRUE]]
    BY <1>2, <1>5 DEF Insert, InsertUser
  <2>2. w # u
    BY <1>1, <2>1 DEF NextId, ActiveAdmin
  <2>3. user'[u] = user[u]
    BY <2>1, <2>2 DEF TypeInv, TypeOK
  <2> QED BY <1>1, <2>3 DEF AdminStanding, ActiveAdmin, Exists, Users
<1>6. ASSUME Flip(q), ActiveAdmin(req[q].actor) PROVE FALSE
  <2>1. req[q].target # req[q].actor
    BY <1>6 DEF Flip, At, TypeInv, Consistent
  <2>2. req[q].actor \in Users
    BY <1>6 DEF ActiveAdmin, Exists
  <2>3. user'[req[q].actor] = user[req[q].actor]
    BY <1>6, <2>1, <2>2 DEF Flip, TypeInv, TypeOK
  <2> QED BY <1>6, <2>2, <2>3 DEF AdminStanding, ActiveAdmin, Exists, Users
<1> QED BY <1>4, <1>5, <1>6 DEF Flip

\* The same, of every step of the program.
THEOREM AdminLostOnlyToRace == Spec => LastAdminLostToRace
<1>1. TypeInv /\ [Next]_vars =>
      [up /\ AdminStanding /\ ~AdminStanding' =>
          \E q \in Reqs : At(q, "flip") /\ ~ActiveAdmin(req[q].actor)]_vars
  BY LastAdminStep
<1> QED BY <1>1, TypeInvariant, PTL DEF Spec, LastAdminLostToRace

-----------------------------------------------------------------------------
(* The limit of failed sign-ins.                                           *)

\* Attempts from an address that have passed loginLocked and are not counted.
InFlight(a) == {q \in Reqs : req[q].pc \in {"lookup", "verdict"} /\ req[q].addr = a}

N == Cardinality(Reqs)

\* While an address is locked nobody joins the attempts in flight, so whatever
\* they still add is bounded when the lock closes.
Limited(a) ==
    /\ attempts[a].n <= MaxFails + N - 1
    /\ Locked(a) => attempts[a].n + Cardinality(InFlight(a)) <= MaxFails + N - 1

LimitInv == \A a \in Addrs : Limited(a)

LEMMA Counting == /\ N \in Nat \ {0}
                  /\ MaxFails \in Nat \ {0}
  BY ReqsAssumption, LimitAssumption, FS_CardinalityType, FS_EmptySet DEF N

LEMMA InFlightFinite ==
    ASSUME NEW a
    PROVE  /\ IsFiniteSet(InFlight(a)) /\ Cardinality(InFlight(a)) \in Nat
           /\ IsFiniteSet(InFlight(a)') /\ Cardinality(InFlight(a)') \in Nat
<1>1. InFlight(a) \subseteq Reqs /\ InFlight(a)' \subseteq Reqs
  BY DEF InFlight
<1> QED BY <1>1, ReqsAssumption, FS_Subset, FS_CardinalityType

\* A step that leaves the counter of an address alone, or clears it, or lets its
\* lockout run down, keeps it limited if nobody new is in flight.
LEMMA LimitedStays ==
    ASSUME TypeInv, NEW a \in Addrs, Limited(a),
           attempts'[a].n = attempts[a].n, Locked(a)' => Locked(a),
           Locked(a)' => InFlight(a)' \subseteq InFlight(a)
    PROVE  Limited(a)'
<1>1. Locked(a)' => Cardinality(InFlight(a)') <= Cardinality(InFlight(a))
  BY InFlightFinite, FS_Subset
<1>2. attempts[a].n \in Nat
  BY FailuresType DEF TypeInv, TypeOK
<1> QED BY <1>1, <1>2, InFlightFinite, Counting DEF Limited, N

LEMMA LimitedCleared ==
    ASSUME NEW a \in Addrs, attempts'[a].n = 0
    PROVE  Limited(a)'
<1>1. ~Locked(a)'
  BY Counting DEF Locked
<1> QED BY <1>1, Counting DEF Limited, N

\* A failure is counted by one of the attempts in flight.
LEMMA RejectLimited ==
    ASSUME TypeInv, LimitInv, NEW q \in Reqs, Reject(q), NEW a \in Addrs
    PROVE  Limited(a)'
<1>1. req' = [req EXCEPT ![q] = Idle] /\ req \in [Reqs -> ReqState]
  BY DEF Reject, Become, TypeInv, TypeOK
<1>2. CASE a # req[q].addr
  <2>1. attempts'[a] = attempts[a]
    BY <1>2 DEF Reject, NoteLoginFail, TypeInv, TypeOK
  <2>2. InFlight(a)' \subseteq InFlight(a)
    BY <1>1 DEF InFlight, Idle
  <2> QED BY <2>1, <2>2, LimitedStays DEF LimitInv, Locked
<1>3. CASE a = req[q].addr
  <2> DEFINE F == InFlight(a)
  <2>1. q \in F /\ InFlight(a)' = F \ {q}
    BY <1>1, <1>3 DEF InFlight, Idle, Reject, At
  <2>2. Cardinality(InFlight(a)') = Cardinality(F) - 1
    BY <2>1, InFlightFinite, FS_RemoveElement
  <2>3. Cardinality(F) <= N
    <3>1. F \subseteq Reqs
      BY DEF InFlight
    <3> QED BY <3>1, ReqsAssumption, FS_Subset DEF N
  <2>4. /\ attempts[a].n \in Nat /\ attempts[a].left \in 0..Lockout
        /\ attempts'[a] = [n |-> IF attempts[a].left = 0 THEN 1 ELSE attempts[a].n + 1,
                            left |-> Lockout]
    BY <1>3, FailuresType DEF Reject, NoteLoginFail, TypeInv, TypeOK
  <2>5. Limited(a)
    BY DEF LimitInv
  <2> HIDE DEF F
  <2>6. Cardinality(F) \in Nat \ {0}
    BY <2>1, InFlightFinite, FS_EmptySet DEF F
  <2>7. CASE attempts[a].left = 0
    <3>1. attempts'[a].n = 1
      BY <2>4, <2>7
    <3> QED BY <3>1, <2>2, <2>3, <2>6, Counting DEF Limited, N
  <2>8. CASE attempts[a].left > 0
    <3>1. attempts'[a].n = attempts[a].n + 1
      BY <2>4, <2>8
    <3>2. CASE attempts[a].n >= MaxFails
      <4>1. attempts[a].n + Cardinality(F) <= MaxFails + N - 1
        BY <2>5, <2>8, <3>2 DEF Limited, Locked, F
      <4> QED BY <3>1, <4>1, <2>2, <2>4, <2>6, Counting DEF Limited, N
    <3>3. CASE attempts[a].n < MaxFails
      <4>1. Locked(a)' => attempts'[a].n = MaxFails
        BY <3>1, <3>3, <2>4, Counting DEF Locked
      <4> QED BY <3>1, <3>3, <4>1, <2>2, <2>3, <2>4, <2>6, Counting DEF Limited, N
    <3> QED BY <3>2, <3>3, <2>4, Counting
  <2> QED BY <2>4, <2>7, <2>8, LimitAssumption
<1> QED BY <1>2, <1>3

\* An attempt from an address is admitted only while that address is not locked.
LEMMA AttemptLimited ==
    ASSUME TypeInv, LimitInv, NEW q \in Reqs, NEW b \in Addrs, NEW name \in Names,
           Attempt(q, b, name), NEW a \in Addrs
    PROVE  Limited(a)'
<1>1. attempts' = attempts /\ Locked(a)' = Locked(a)
  BY DEF Attempt, Locked
<1>2. Locked(a) => InFlight(a)' \subseteq InFlight(a)
  <2>1. Locked(a) => a # b
    BY DEF Attempt
  <2>2. req' = [req EXCEPT ![q] = [Idle EXCEPT !.pc = "lookup", !.addr = b, !.name = name]]
    BY DEF Attempt, Become
  <2> QED BY <2>1, <2>2 DEF InFlight, Idle, TypeInv, TypeOK
<1> QED BY <1>1, <1>2, LimitedStays DEF LimitInv

\* A step that leaves the counters alone and lets nobody in.
LEMMA QuietLimited ==
    ASSUME TypeInv, LimitInv, UNCHANGED attempts,
           \A a \in Addrs : InFlight(a)' \subseteq InFlight(a)
    PROVE  LimitInv'
<1>1. SUFFICES ASSUME NEW a \in Addrs PROVE Limited(a)'
  BY DEF LimitInv
<1>2. Locked(a)' = Locked(a)
  BY DEF Locked
<1> QED BY <1>2, LimitedStays DEF LimitInv

\* Such are all steps that give a request a state that is not an attempt, or
\* an attempt another state of the same attempt.
LEMMA RequestQuiet ==
    ASSUME TypeInv, LimitInv, UNCHANGED attempts, NEW q \in Reqs, NEW s, Become(q, s),
           \/ s.pc \notin {"lookup", "verdict"}
           \/ req[q].pc \in {"lookup", "verdict"} /\ s.addr = req[q].addr
    PROVE  LimitInv'
<1>1. \A a \in Addrs : InFlight(a)' \subseteq InFlight(a)
  BY DEF InFlight, Become, TypeInv, TypeOK
<1> QED BY <1>1, QuietLimited

LEMMA StepLimited ==
    ASSUME TypeInv, LimitInv, NEW q \in Reqs, Step(q)
    PROVE  LimitInv'
<1>0. req[q] \in ReqState
  BY DEF TypeInv, TypeOK
<1>1. CASE Lookup(q)
  <2>1. PICK s : Become(q, s) /\ s.addr = req[q].addr
    <3>1. CASE \E u \in Holders(req[q].name) :
                  Become(q, [req[q] EXCEPT !.pc = "verdict", !.name = None, !.actor = u,
                                           !.active = user[u].active])
      <4>1. PICK u \in Holders(req[q].name) :
                  Become(q, [req[q] EXCEPT !.pc = "verdict", !.name = None, !.actor = u,
                                           !.active = user[u].active])
        BY <3>1
      <4>2. [req[q] EXCEPT !.pc = "verdict", !.name = None, !.actor = u,
                           !.active = user[u].active].addr = req[q].addr
        BY <1>0 DEF ReqState
      <4> QED BY <4>1, <4>2
    <3>2. CASE Become(q, [req[q] EXCEPT !.pc = "verdict", !.name = None])
      <4>1. [req[q] EXCEPT !.pc = "verdict", !.name = None].addr = req[q].addr
        BY <1>0 DEF ReqState
      <4> QED BY <3>2, <4>1
    <3> QED BY <1>1, <3>1, <3>2 DEF Lookup
  <2> QED BY <1>1, <2>1, RequestQuiet DEF Lookup, At
<1>2. CASE Reject(q)
  BY <1>2, RejectLimited DEF LimitInv
<1>3. CASE Accept(q)
  <2> DEFINE s == [Idle EXCEPT !.pc = "sign", !.actor = req[q].actor]
  <2>1. SUFFICES ASSUME NEW a \in Addrs PROVE Limited(a)'
    BY DEF LimitInv
  <2>2. CASE a = req[q].addr
    BY <1>3, <2>2, LimitedCleared DEF Accept, ClearLoginFails, TypeInv, TypeOK
  <2>3. CASE a # req[q].addr
    <3>1. attempts'[a] = attempts[a]
      BY <1>3, <2>3 DEF Accept, ClearLoginFails, TypeInv, TypeOK
    <3>2. req' = [req EXCEPT ![q] = s] /\ s.pc = "sign"
      BY <1>3 DEF Accept, Become, Idle
    <3> HIDE DEF s
    <3>3. InFlight(a)' \subseteq InFlight(a)
      BY <3>2 DEF InFlight, TypeInv, TypeOK
    <3> QED BY <3>1, <3>3, LimitedStays DEF LimitInv, Locked
  <2> QED BY <2>2, <2>3
<1>4. CASE SignIn(q)
  BY <1>4, RequestQuiet DEF SignIn, Idle
<1>5. CASE LoadTarget(q)
  <2> DEFINE s == [req[q] EXCEPT !.active = user[req[q].target].active,
                      !.pc = IF ActiveAdmin(req[q].target) THEN "others" ELSE "flip"]
  <2>1. s.pc \notin {"lookup", "verdict"}
    BY <1>0 DEF ReqState
  <2>2. Idle.pc \notin {"lookup", "verdict"}
    BY DEF Idle
  <2>3. Become(q, s) \/ Become(q, Idle)
    BY <1>5 DEF LoadTarget
  <2> HIDE DEF s
  <2> QED BY <1>5, <2>1, <2>2, <2>3, RequestQuiet DEF LoadTarget
<1>6. CASE CountOthers(q)
  <2>1. PICK s : Become(q, s) /\ s.pc \notin {"lookup", "verdict"}
    BY <1>0, <1>6 DEF CountOthers, Idle, ReqState
  <2> QED BY <1>6, <2>1, RequestQuiet DEF CountOthers
<1>7. CASE Flip(q)
  BY <1>7, RequestQuiet DEF Flip, Idle
<1>8. CASE CountName(q)
  <2>1. PICK s : Become(q, s) /\ s.pc \notin {"lookup", "verdict"}
    BY <1>0, <1>8 DEF CountName, Idle, ReqState
  <2> QED BY <1>8, <2>1, RequestQuiet DEF CountName
<1>9. CASE Insert(q)
  BY <1>9, RequestQuiet DEF Insert, Idle
<1> QED BY <1>1, <1>2, <1>3, <1>4, <1>5, <1>6, <1>7, <1>8, <1>9 DEF Step

LEMMA LimitStep ==
    ASSUME TypeInv, LimitInv, [Next]_vars
    PROVE  LimitInv'
<1>1. CASE UNCHANGED <<attempts, req>>
  BY <1>1, QuietLimited DEF InFlight
<1>2. CASE Tick
  <2>1. SUFFICES ASSUME NEW a \in Addrs PROVE Limited(a)'
    BY DEF LimitInv
  <2>2. /\ attempts'[a].n = attempts[a].n /\ attempts[a].left \in 0..Lockout
        /\ attempts'[a].left > 0 => attempts[a].left > 0
    <3>1. attempts[a] \in Failures
      BY DEF TypeInv, TypeOK
    <3>2. attempts'[a] = [attempts[a] EXCEPT !.left = IF @ > 0 THEN @ - 1 ELSE 0]
      BY <1>2 DEF Tick
    <3> QED BY <3>1, <3>2, LimitAssumption DEF Failures
  <2>3. Locked(a)' => Locked(a)
    BY <2>2 DEF Locked
  <2>4. InFlight(a)' = InFlight(a)
    BY <1>2 DEF Tick, InFlight
  <2> QED BY <2>2, <2>3, <2>4, LimitedStays DEF LimitInv
<1>3. CASE Crash
  BY <1>3, LimitedCleared DEF Crash, LimitInv
<1>4. ASSUME NEW q \in Reqs, NEW a \in Addrs, NEW name \in Names, Attempt(q, a, name)
      PROVE  LimitInv'
  BY <1>4, AttemptLimited DEF LimitInv
<1>5. ASSUME NEW q \in Reqs, NEW k, NEW s, s.pc \notin {"lookup", "verdict"}, LetIn(q, k, s)
      PROVE  LimitInv'
  BY <1>5, RequestQuiet DEF LetIn
<1>6. ASSUME NEW q \in Reqs, Arrival(q)
      PROVE  LimitInv'
  <2>1. ASSUME NEW k \in cookies, NEW u \in Users, Toggle(q, k, u)
        PROVE  LimitInv'
    BY <2>1, <1>5 DEF Toggle, Idle
  <2>2. ASSUME NEW k \in cookies, NEW name \in Names, NEW role \in Roles,
               Create(q, k, name, role)
        PROVE  LimitInv'
    BY <2>2, <1>5 DEF Create, Idle
  <2> QED BY <1>4, <1>6, <2>1, <2>2 DEF Arrival
<1> QED BY <1>1, <1>2, <1>3, <1>6, StepLimited DEF Next, vars, Start, Expire

\* However many attempts run at once, an address never has more failures on
\* its account than maxLoginFails and one for each other request.
THEOREM FailuresStayBounded == Spec => []FailuresBounded
<1>1. Init => LimitInv
  <2>1. SUFFICES ASSUME Init, NEW a \in Addrs PROVE Limited(a)
    BY DEF LimitInv
  <2>2. attempts[a].n = 0
    BY <2>1 DEF Init
  <2> QED BY <2>2, Counting DEF Limited, Locked, N
<1>2. Spec => []LimitInv
  BY <1>1, LimitStep, TypeInvariant, PTL DEF Spec
<1>3. LimitInv => FailuresBounded
  BY DEF LimitInv, Limited, FailuresBounded, N
<1> QED BY <1>2, <1>3, PTL
=============================================================================

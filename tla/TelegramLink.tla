----------------------------- MODULE TelegramLink -----------------------------
(***************************************************************************)
(* Telegram accounts and the parents they are linked to: by sharing a      *)
(* phone number with the bot, or by a code that the website generates.     *)
(*                                                                         *)
(* A slot of Reqs is a goroutine, of the webhook or of the website, and an *)
(* action is one GORM statement of it.  Telegram repeats an update that it *)
(* got no answer to: a slot may take up any message at any time, so that   *)
(* the same message may be handled twice, and at once.                     *)
(***************************************************************************)
EXTENDS Integers, FiniteSets

CONSTANTS
    Accounts,   \* Telegram accounts, one private chat each
    Parents,    \* rows of table parents
    Codes,      \* rows of table link_codes, each with a value of its own
    Reqs,       \* request goroutines
    Names,      \* the names and user names accounts go by
    None

ASSUME NoneAssumption    == None \notin Parents \cup Accounts \cup Codes \cup Reqs \cup Names

VARIABLES
    parent,   \* does the parent exist?
    user,     \* table telegram_users, by account
    lastUser, \* the greatest id given to a row of it
    code,     \* table link_codes
    req,      \* what each goroutine is doing
    told,     \* history: the parent that an account was last told it is linked to,
              \* if that message was about the last link that was written
    writer,   \* history: who wrote an account's link last and has yet to say so
    spent     \* history: the codes that somebody has redeemed

history == <<told, writer, spent>>
vars == <<parent, user, lastUser, code, req, history>>

\* An id of 0 is no row.
UserRow == [id : Nat, parent : Parents \cup {None}, deliverable : BOOLEAN,
            name : Names \cup {None}]
CodeRow == [row : {"none", "live", "deleted"}, parent : Parents \cup {None},
            used : BOOLEAN, age : {"fresh", "expired", "old"}]

Commands == {"none", "contact", "link", "my"}
ReqState == [cmd : Commands,
             pc : {"idle", "upsert", "dispatch", "update", "spend", "load", "save",
                   "say", "unlink", "clean", "create"},
             account : Accounts \cup {None}, name : Names \cup {None}, row : BOOLEAN,
             parent : Parents \cup {None}, code : Codes \cup {None}]

Idle == [cmd |-> "none", pc |-> "idle", account |-> None, name |-> None, row |-> FALSE,
         parent |-> None, code |-> None]

Init ==
    /\ parent = [p \in Parents |-> TRUE]
    /\ user = [a \in Accounts |-> [id |-> 0, parent |-> None, deliverable |-> FALSE,
                                 name |-> None]]
    /\ lastUser = 0
    /\ code = [k \in Codes |-> [row |-> "none", parent |-> None, used |-> FALSE,
                                age |-> "fresh"]]
    /\ req = [q \in Reqs |-> Idle]
    /\ told = [a \in Accounts |-> None]
    /\ writer = [a \in Accounts |-> None]
    /\ spent = {}

\* A goroutine forgets what none of its statements to come will use.
Become(q, s) == req' = [req EXCEPT ![q] = s]
At(q, pc) == req[q].pc = pc
Free(q) == At(q, "idle")

HasRow(a) == user[a].id # 0

(***************************************************************************)
(* Dispatcher.Handle.  FirstOrCreate looks for a row with ALL of the       *)
(* fields it would create (id, chat, names, deliverable), and then inserts *)
(* one.  The id is unique: for an account that was unlinked, or goes by    *)
(* another name, the SELECT finds nothing, the INSERT fails, the error is  *)
(* ignored, and the handler goes on with a row that has no primary key.    *)
(***************************************************************************)
Receive(q, a, cmd, k) ==
    /\ Free(q)
    /\ cmd = "link" <=> k # None
    /\ \E n \in Names :
          LET found == HasRow(a) /\ user[a].deliverable /\ user[a].name = n IN
          Become(q, [Idle EXCEPT !.cmd = cmd, !.account = a, !.code = k, !.name = n,
                       !.pc = IF found THEN "dispatch" ELSE "upsert",
                       !.row = found])
    /\ UNCHANGED <<parent, user, lastUser, code, history>>

Upsert(q) ==
    /\ At(q, "upsert")
    /\ LET a == req[q].account IN
       IF HasRow(a)
       THEN UNCHANGED <<user, lastUser>> /\ Become(q, [req[q] EXCEPT !.pc = "dispatch"])
       ELSE /\ lastUser' = lastUser + 1
            /\ user' = [user EXCEPT ![a] = [id |-> lastUser + 1, parent |-> None,
                                           deliverable |-> TRUE, name |-> req[q].name]]
            /\ Become(q, [req[q] EXCEPT !.pc = "dispatch", !.row = TRUE])
    /\ UNCHANGED <<parent, code, history>>

\* My registrations, Register, Add child, Account: answered from the row held.
Answer(q) ==
    /\ At(q, "dispatch") /\ req[q].cmd = "my"
    /\ Become(q, Idle)
    /\ UNCHANGED <<parent, user, lastUser, code, history>>

\* A shared contact: the parent of the phone, if there is one, ...
FindParent(q) ==
    /\ At(q, "dispatch") /\ req[q].cmd = "contact"
    /\ \/ \E p \in Parents :
             /\ parent[p]
             /\ Become(q, [req[q] EXCEPT !.cmd = "none", !.pc = "update", !.row = FALSE,
                                         !.parent = p])
       \/ Become(q, Idle)
    /\ UNCHANGED <<parent, user, lastUser, code, history>>

\* ... an UPDATE by account, which needs no row in hand, ...
Saying(q) == [Idle EXCEPT !.pc = "say", !.account = req[q].account, !.parent = req[q].parent]

Wrote(q) ==
    /\ writer' = [writer EXCEPT ![req[q].account] = q]
    /\ Become(q, Saying(q))
    /\ UNCHANGED <<parent, lastUser, code, told, spent>>

UpdateUserSilently(q) ==
    /\ At(q, "update")
    /\ user' = [user EXCEPT ![req[q].account].parent = req[q].parent,
                            ![req[q].account].name = req[q].name]
    /\ Wrote(q)

UpdateDeliverable(q) ==
    /\ At(q, "update")
    /\ IF user[req[q].account].deliverable
       THEN user' = [user EXCEPT ![req[q].account].parent = req[q].parent,
                                 ![req[q].account].name = req[q].name]
       ELSE UNCHANGED user
    /\ Wrote(q)

UpdateUser(q) ==
    /\ At(q, "update")
    /\ user' = [user EXCEPT ![req[q].account] =
                   [@ EXCEPT !.parent = req[q].parent, !.deliverable = TRUE,
                             !.name = req[q].name]]
    /\ Wrote(q)

\* ... and, after either kind of link, "Linked to" that parent.  The call to
\* Telegram may fail, which nobody asks.  The message is about the last link that
\* was written if nobody, an unlinking included, has written it since q did.
Say(q) ==
    /\ At(q, "say")
    /\ LET a == req[q].account
           current == writer[a] = q
       IN  /\ \/ told' = [told EXCEPT ![a] = IF current THEN req[q].parent ELSE None]
              \/ told' = [told EXCEPT ![a] = IF current THEN None ELSE @]
           /\ writer' = IF current THEN [writer EXCEPT ![a] = None] ELSE writer
    /\ Become(q, Idle)
    /\ UNCHANGED <<parent, user, lastUser, code, spent>>

(***************************************************************************)
(* handleLinkCode: find the code, save it as used, load its parent, save   *)
(* the row that FirstOrCreate left, which without a key is an INSERT that  *)
(* fails.  Either way the bot goes on to say that the account is linked.   *)
(***************************************************************************)
Unexpired(k) == code[k].row = "live" /\ code[k].age = "fresh"
Redeemable(k) == code[k].row = "live" /\ ~code[k].used /\ code[k].age = "fresh"

FindCode(q) ==
    /\ At(q, "dispatch") /\ req[q].cmd = "link"
    /\ IF Redeemable(req[q].code)
       THEN Become(q, [req[q] EXCEPT !.cmd = "none", !.pc = "spend",
                                     !.parent = code[req[q].code].parent])
       ELSE Become(q, Idle)
    /\ UNCHANGED <<parent, user, lastUser, code, history>>

\* Save is an INSERT when the row has been deleted meanwhile.
SpendCode(q) ==
    /\ At(q, "spend")
    /\ code' = [code EXCEPT ![req[q].code] = [@ EXCEPT !.row = "live", !.used = TRUE]]
    /\ spent' = spent \cup {req[q].code}
    /\ Become(q, [req[q] EXCEPT !.pc = "load", !.code = None])
    /\ UNCHANGED <<parent, user, lastUser, told, writer>>

LoadParent(q) ==
    /\ At(q, "load")
    /\ IF parent[req[q].parent] THEN Become(q, [req[q] EXCEPT !.pc = "save"])
                                ELSE Become(q, Idle)
    /\ UNCHANGED <<parent, user, lastUser, code, history>>

SaveUser(q) ==
    /\ At(q, "save")
    /\ IF req[q].row
       THEN LET a == req[q].account IN
            /\ user' = [user EXCEPT ![a] = [id |-> user[a].id, parent |-> req[q].parent,
                                           deliverable |-> TRUE, name |-> req[q].name]]
            /\ writer' = [writer EXCEPT ![a] = q]
       ELSE UNCHANGED <<user, writer>>
    /\ Become(q, Saying(q))
    /\ UNCHANGED <<parent, lastUser, code, told, spent>>

(***************************************************************************)
(* The website: AccountUnlinkTelegram and AccountGenerateLinkCode, both    *)
(* for the parent of the cookie, and AdminParentDelete, which leaves links *)
(* and codes behind.                                                       *)
(***************************************************************************)
ReadForUnlink(q, p) ==
    /\ Free(q) /\ parent[p]
    /\ Become(q, [Idle EXCEPT !.pc = "unlink", !.parent = p])
    /\ UNCHANGED <<parent, user, lastUser, code, history>>

UnlinkWithZero(q) ==
    /\ At(q, "unlink")
    /\ user' = [a \in Accounts |-> IF HasRow(a) /\ user[a].parent = req[q].parent
                   THEN [user[a] EXCEPT !.parent = 0, !.deliverable = FALSE] ELSE user[a]]
    /\ Become(q, Idle)
    /\ UNCHANGED <<parent, lastUser, code, history>>

Unlink(q) ==
    /\ At(q, "unlink")
    /\ LET linked == {a \in Accounts : HasRow(a) /\ user[a].parent = req[q].parent} IN
       /\ user' = [a \in Accounts |-> IF a \in linked
                      THEN [user[a] EXCEPT !.parent = None, !.deliverable = FALSE] ELSE user[a]]
       /\ told' = [a \in Accounts |-> IF a \in linked THEN None ELSE told[a]]
       /\ writer' = [a \in Accounts |-> IF a \in linked THEN None ELSE writer[a]]
    /\ Become(q, Idle)
    /\ UNCHANGED <<parent, lastUser, code, spent>>

ReadForGenerate(q, p) ==
    /\ Free(q) /\ parent[p]
    /\ Become(q, [Idle EXCEPT !.pc = "clean", !.parent = p])
    /\ UNCHANGED <<parent, user, lastUser, code, history>>

RemoveOldCodes(q) ==
    /\ At(q, "clean")
    /\ code' = [k \in Codes |->
                  IF /\ code[k].row = "live" /\ code[k].parent = req[q].parent
                     /\ code[k].used \/ code[k].age = "old"
                  THEN [code[k] EXCEPT !.row = "deleted"] ELSE code[k]]
    /\ Become(q, [req[q] EXCEPT !.pc = "create"])
    /\ UNCHANGED <<parent, user, lastUser, history>>

\* A value that is taken is drawn again, and no value ten times: an error.
CreateCode(q) ==
    /\ At(q, "create")
    /\ \/ \E k \in Codes :
             /\ code[k].row = "none"
             /\ code' = [code EXCEPT ![k] = [row |-> "live", parent |-> req[q].parent,
                                             used |-> FALSE, age |-> "fresh"]]
       \/ UNCHANGED code
    /\ Become(q, Idle)
    /\ UNCHANGED <<parent, user, lastUser, history>>

DeleteParent(p) ==
    /\ parent[p]
    /\ parent' = [parent EXCEPT ![p] = FALSE]
    /\ UNCHANGED <<user, lastUser, code, req, history>>

\* Ten minutes, and another day.
Age(k) ==
    /\ code[k].row = "live" /\ code[k].age # "old"
    /\ code' = [code EXCEPT ![k].age = IF @ = "fresh" THEN "expired" ELSE "old"]
    /\ UNCHANGED <<parent, user, lastUser, req, history>>

\* Whom a parent's messages go to, of the accounts with its parent_id that are
\* deliverable: a promotion to the first by id, a reminder to the one that a map
\* by parent is left with, which is the last that a scan of the table returns.
Deliverable(p) == {a \in Accounts : HasRow(a) /\ user[a].parent = p /\ user[a].deliverable}
PromotionGoesTo(p) ==
    {a \in Deliverable(p) : \A b \in Deliverable(p) : user[a].id <= user[b].id}
ReminderGoesTo(p) ==
    {a \in Deliverable(p) : \A b \in Deliverable(p) : user[b].id <= user[a].id}

Start(q) ==
    \/ \E a \in Accounts, cmd \in Commands \ {"none"}, k \in Codes \cup {None} :
          Receive(q, a, cmd, k)
    \/ \E p \in Parents : ReadForUnlink(q, p) \/ ReadForGenerate(q, p)

Step(q) ==
    \/ Upsert(q) \/ Answer(q) \/ FindParent(q) \/ UpdateUser(q)
    \/ FindCode(q) \/ SpendCode(q) \/ LoadParent(q) \/ SaveUser(q) \/ Say(q)
    \/ Unlink(q) \/ RemoveOldCodes(q) \/ CreateCode(q)

Next ==
    \/ \E q \in Reqs : Start(q) \/ Step(q)
    \/ \E p \in Parents : DeleteParent(p)
    \/ \E k \in Codes : Age(k)

Spec == Init /\ [][Next]_vars

-----------------------------------------------------------------------------
(***************************************************************************)
(* Properties.                                                             *)
(***************************************************************************)

\* Every table row and local variable is well formed.
TypeOK ==
    /\ parent \in [Parents -> BOOLEAN]
    /\ user \in [Accounts -> UserRow]
    /\ code \in [Codes -> CodeRow]
    /\ req \in [Reqs -> ReqState]
    /\ lastUser \in Nat
    /\ told \in [Accounts -> Parents \cup {None}]
    /\ writer \in [Accounts -> Reqs \cup {None}] /\ spent \subseteq Codes

\* "make sure web sees this as 'linked'": the parent of a linked account is
\* reached.  Whatever was linked and unlinked, each promotion goes to one account
\* and each reminder to one, out of all that are linked, the rows of the table
\* that ask for deliverable = 1 or not.
Linked(p) == {a \in Accounts : user[a].parent = p}
LinkedIsReachable ==
    \A p \in Parents : Linked(p) # {} =>
        \E a, b \in Linked(p) : PromotionGoesTo(p) = {a} /\ ReminderGoesTo(p) = {b}

\* A code is read as unused in one statement and marked used in another, so that
\* concurrent or repeated updates may each redeem it, but only those that read
\* it before the first of them had: nobody finds a code that was redeemed fit
\* to be redeemed, even after it was cleaned up and saved back.
RedeemedWhileUnused ==
    [][\A q \in Reqs : At(q, "dispatch") /\ At(q, "spend")' => req[q].code \notin spent]_vars

\* An account that was told that it is linked is, until its link is written or
\* removed again.  Excepted are the messages about a link that is not the last
\* that was written, or was never stored: those of a request that held no row,
\* or that another request overtook between its write and its message, and a
\* message that never arrived.
LinkedAsTold ==
    \A a \in Accounts :
        told[a] # None /\ writer[a] = None => user[a].parent = told[a]
=============================================================================

# Verification of LOJF NextGen

LOJF NextGen is a Go program (chi, GORM, SQLite) with which the families of a
children's ministry register for classes. Parents register children over the
web, a class that is full keeps a FIFO waitlist, admins edit and cancel,
volunteers check children in, and a Telegram bot announces promotions and sends
reminders. This directory holds TLA+ models of the program, the TLC runs that
check them and TLAPS proofs about them. Everything is translated from the code
under `src/`; `PROJECT.json` maps each definition to its lines.

The program is one process. A request is a goroutine; a handler is a sequence
of GORM statements with ordinary Go in between, and nothing but the database
(and one mutex, `attemptsMu`) is shared. `db.Init` caps the pool at **one**
connection, so a statement, and a whole `Transaction(...)`, is atomic; two
handlers interleave *between* statements. That is where this program can go
wrong and where no test of the repository looks, so the models are written
statement by statement.

## 1. Inventory

| Part | State | Operations | Interacts with |
|---|---|---|---|
| Registration service `services/registration.go` | `registrations`, `classes.capacity` | `RecomputeClass`, `CancelByCode`, `recomputeClassTxCollect`, `notifyPromotions`, `CheckRegistrationConflicts` | called by every handler below; calls `events.OnPromotion` |
| Registration handlers `handlers/register*.go` | `registrations`, answers | `SelectClassSubmit`, `SelectClassConfirmSubmit`; phone, onboarding and child steps | the service; parents and children |
| Cancellation, roster actions `handlers/cancel.go`, `admin_registration_actions.go` | `registrations` | `CancelSubmit`, `AdminRegCancel`, `AdminRegDelete`, `AdminRegCheckin` | the service, audit |
| Class administration `handlers/admin.go`, `admin_classes_edit.go` | `classes`, `class_questions` | create, update, delete | the service (rebalance after an edit) |
| Check-in `handlers/checkin.go`, `checkin_station.go`, `campus.go` | `registrations.check_in_at` | `CheckinConfirm`, `guardCheckin`, station pages | admin accounts (role, campus), clock |
| Admin accounts `handlers/admin_users.go`, `admin_auth.go` | `admin_users`, `app_settings`, the map of failed attempts, the session key, cookies | bootstrap, login, `RequireRole`, create, toggle, password | gate of every admin handler |
| Parents and children `handlers/register.go`, `account.go`, `admin_parents.go`, `admin_families.go` | `parents`, `children` | onboarding, add/edit/delete child, edit/delete parent | deleting a parent frees seats |
| Telegram `bot/*`, `account_linkcode.go`, `account_unlink.go` | `telegram_users`, `link_codes` | webhook dispatch, link by phone or code, unlink | receives promotions and reminders |
| Reminder loop `bot/reminders.go` | a ticker | one query per minute and offset | `registrations`, `classes`, `telegram_users` |
| Promotion events `events/events.go`, `bot/subscription.go` | one function variable | deliver a promotion | service to bot |
| Reports and pages `my.go`, `admin_roster.go`, `admin_attendance.go`, `admin_capacity.go`, `admin_families.go`, `checkin_station.go` | none | queries over date windows, ranks, aggregation | read only |
| Class templates `admin_templates.go` | `class_templates` and their questions | create, update, delete | class creation copies questions |
| Database `db/db.go` | the pool, the schema | open, migrate | everything |

What makes each part correct, and what makes it hard:

* **Seats and waitlist.** The oldest waitlisted child gets a seat that is free,
  nobody is promoted beyond the capacity, nobody waits beside a free seat for
  good, each promotion is announced once. Hard because "count, then insert",
  "delete, then recompute", "save the class, then recompute" are several
  statements each, because edits change the capacity meanwhile, and because the
  process may die between two of them.
* **One place per child and day.** A child holds one place per class and per
  Jakarta day. Hard because the check and the insert are separate statements,
  and because dates are stored as text with `+07:00` and compared as text with
  bounds written in UTC.
* **Check-in.** Only a confirmed registration is checked in. Hard because the
  handlers save every column of a row they read statements earlier.
* **Deleting a class.** Nobody holds a place in a class that is gone.
* **Accounts.** Usernames are unique, a restart signs nobody out, an admin is
  always left, the limit of failed sign-ins holds and ends. Hard because each
  check precedes what it protects by one or more statements.
* **Reminders.** Nobody is reminded twice, and no minute is lost. Hard because
  the ticker drops ticks and buffers one, because sending is slow, and because
  a restart changes the phase of the ticker.
* **Families.** A child always has a parent, one family is never split over two
  rows, a browser is remembered only under a number that some parent had. Hard
  because every handler looks a phone up in one statement and writes in
  another, because GORM's `Save` inserts a row that was deleted meanwhile, and
  because only a unique index and a foreign key stand between.
* **Families and seats.** Deleting a family gives its seats to the waitlist,
  leaves no registration without a child, and spares families with classes to
  come. Hard because registrations carry no foreign key and the handler counts,
  gathers, deletes and recomputes in separate statements.
* **Telegram.** A parent that is linked can be written to, an account that was
  told so is linked, a code that was redeemed is not found again. Hard because
  Telegram repeats updates, because `FirstOrCreate` looks a row up by *all* of
  its fields, because each handler saves the row it read at the start, and
  because the message comes after the write.
* **Questions and templates.** The answers of a registration fit the questions
  of its class; no question outlives its template. Hard because the form of an
  admin is applied row by row while parents answer.
* **Pages.** Two pages that count the same thing agree, and the rank a waiting
  parent sees is the truth. Hard because each page has its own SQL, joins and
  day window.

## 2. Modules

| Module | Models | Section |
|---|---|---|
| `Enrollment` | registration service, registration, cancellation, class administration, check-in | 3 |
| `Waitlist` | what registration promises: seats and a line, no requests | 3a |
| `EnrollmentWaitlist` | the refinement mapping from `Enrollment` to `Waitlist` | 3a |
| `FamilySeats` | `Enrollment` composed with the deletion of parents and children | 3b |
| `WaitlistRank` | the rank that three pages show a waiting parent | 3c |
| `Pages` | what the parents' and the staff's pages show of `FamilySeats` | 3c |
| `AdminAccounts` | bootstrap, login and its limit, session key, role check, create, toggle | 4 |
| `ReminderLoop` | the ticker, its clock and `runReminders` | 4a |
| `Families` | parents, children, the cookie: onboarding, profile, child and admin handlers | 4b |
| `TelegramLink` | the dispatcher, linking by phone and code, unlinking | 4c |
| `Questions` | the questions of a class and the answers to them | 4d |
| `Templates` | class templates and their questions | 4d |
| `EnrollmentProofs`, `PagesProofs` (of `FamilySeats`, `Pages` and `WaitlistRank`), `AdminAccountsProofs`, `ReminderLoopProofs`, `FamiliesProofs`, `TelegramLinkProofs`, `QuestionsProofs`, `TemplatesProofs` | theorems | 7 |
| `MC*` | symmetry sets and tables for TLC | 5 |

`EnrollmentWaitlist`, `WaitlistRank` and `FamilySeats` extend `Enrollment`, and
`Pages` extends `FamilySeats`: what they compose is one specification, not a copy of it. Where
two other models have a table in common (`parents` in `Families` and
`TelegramLink`, `classes` in `Enrollment` and `Questions`), each keeps of it what
its own properties need.

In all models but `ReminderLoop` and `Waitlist`, `Reqs` is a set of goroutines.
`req[q]` is a handler between two statements: `pc` names the statement it runs next and the other fields are the
local variables it will still use (a variable that is dead is reset, which only
makes equal states equal). An *arrival* is the first statement of a handler
with its early returns: a request that is turned away at once changes nothing,
so such an arrival is not enabled. `CreateClass` has a single statement that
matters and needs no goroutine.

## 3. Enrollment and the code

| Model | Code |
|---|---|
| `class[c]`: `row`, `cap`, `day`, `late` | a row of `classes`; `late` is a start at 17:00 or later |
| `class[c].peak` | history variable: the largest capacity the class ever had |
| `reg[r]`: `status`, `child`, `class`, `in` | a row of `registrations`; `in` is `check_in_at IS NOT NULL` |
| `nextReg` | the AUTOINCREMENT counter |
| `told` | registrations for which `events.OnPromotion` has been called |
| `lost` | history variable: classes whose recompute was owed when the process died |
| `Submit`, `CheckDuplicate`, `LoadDate`, `CheckSameDay`, `TurnedAway`, `CountConfirmed`, `Insert`, `Recompute`, `Notify` | `SelectClassSubmit`, `register.go:456-545` |
| `Confirm`, then the same with `LoadClass` after the conflict checks | `SelectClassConfirmSubmit`, `register_questions.go:86-216` |
| `Rebalance`, `Promotions`, `Slots` | `recomputeClassTxCollect`, `registration.go:68-107` |
| `Cancel` | `CancelByCode`: one transaction; a class that is gone rolls it back |
| `ReadForDelete`, `Delete`, `Recompute` | `AdminRegDelete` |
| `CreateClass`; `ReadForUpdate`, `Save`, `Recompute` | `AdminCreateClass`, `AdminUpdateClass`; GORM's `Save` inserts the row again when the UPDATE touches none |
| `ReadForDrop`, `CountRoster`, `Drop` | `AdminDeleteClass` |
| `ReadForCheckin`, `Guard`, `Mark` | `AdminRegCheckin` and `CheckinConfirm` |
| `Crash` | `Restart=always` in the service file: the database stays, goroutines are gone |

Choices a reader should know:

* `created_at` is set while the only connection is held, so
  `ORDER BY created_at, id` is the order of ids; a promotion takes the least ids.
* `recomputeClassTxCollect` updates the promoted rows one by one inside its
  transaction, so the model takes the whole set at once.
* `WindowOf` is the same-day comparison as SQLite performs it, not as its
  comment describes it.
* Whether signup is open, whether a class asks questions (which decides between
  submit and confirm), and the verdict of `guardCheckin` are free choices.
  Children and parents are static here (`FamilySeats` lets them go). Answers are
  in `Questions`; codes and audit rows are left out.
* A statement that fails for reasons of its own (disk full) is not modelled.

## 3a. Waitlist, the abstract specification

`Waitlist` knows classes with a number of seats, the tickets that sit and the
line of those who wait. Somebody joins the end of the line or leaves, the
number of seats changes, a class opens or closes; each step ends with
`Settle`: the head of the line moves into what is free. There is no request, no
row, no statement.

`EnrollmentWaitlist` maps `Enrollment` to it. A ticket is a registration; those
that sit are the confirmed ones *and those a request under way still owes a
promotion* (`Promised`), because a deletion or a larger capacity is one step of
the promise and two statements of the code. `FirstComeFirstServed == W!Spec` is
checked by TLC in the run with one request at a time and proved for every
instance of that kind (`ServedInOrder`, section 7). It does not hold for concurrent requests, and is not meant to: between "count"
and "insert" another family may take the seat, and the class is overbooked
(`OverbookingBounded` says by how much).

## 3b. FamilySeats and the code

| Model | Code |
|---|---|
| `kid[k]`, `Owner` | rows of `children`; here a child is a constant that may cease to exist |
| `visit[q]` | the locals of `AdminParentDelete` between two statements |
| `CountFuture`, `GatherClasses`, `EraseFamily`, `NextClass` | `admin_parents.go:380-438`: the guard, the list of classes, the transaction, a recompute for each class of a Go map |
| `DropChild` | `AccountDeleteChild` and `AdminChildDelete`, which do not touch registrations |
| `Enroll`, `Continue`, `ChildNotFound` | the handlers of `Enrollment`; `SelectClassSubmit` loads the child first, the confirm handler right before the class |
| `gone`, `stale`, `missed` | history variables that name the known causes of exceptions |

The properties say that nothing but the named causes can go wrong. A deleted
family's seats are offered to the waitlist except in a class the family entered
between the list and the transaction (`missed`). A place without a child exists
only if the child alone was deleted, or a request of the family, or a check-in
that saved a row, was under way. The guard against classes to come is passed
only by what was registered, or brought back, since it counted. `Today` is
fixed: `UpcomingAreKept` holds as long as no admin moves a class to a later day
meanwhile, and the run has no class edits. It does delete the class.

## 3c. Pages and the code

Each page is an operator over the tables: `RosterRows` (`AdminRoster`), `CapacityRow` (`AdminCapacity`), `ClassOption` (`SelectClassForm`), `RegCount`
(`AdminClasses`), `AttendedClasses` (`queryAttendance`), `SessionRows`,
`FirstClassOn`, `NewFamily` (`AdminFamilies`), `MyList`, `Station`. `Joined` is
what the inner joins leave; a count without a join counts more, and
`PagesAgree` says exactly what: the places of children that are gone. A page is
read in one state; sorting, paging, CSV and wording are left out. `family_seats`
checks these pages while families, children and the class are deleted.

The rank of a waiting child has a module of its own, `WaitlistRank`:
`RankOnRoster` (`AdminRoster`), `RankOnDone` (`SelectClassSubmit`) and `RankOnQR`
(`MyQR`) are three queries. They are compared not with each other but with what
`RecomputeClass` does next (`RankPredictsPromotion`), in `enrollment_race`, where
capacities are edited and one step may promote several.

`AdminFamilies` uses a date in two ways: SQL compares its text with bounds in UTC
to select the families of a period (`SessionRows`), Go compares times to decide
which of them are new (`FirstClassOn`). For a class at 17:00 or later the two
differ, and a family whose first class it is counts as new on no day:
`pages_evening` shows it.

## 4. AdminAccounts and the code

| Model | Code |
|---|---|
| `user[u]` | a row of `admin_users` |
| `stored`, `key` | the row `session_secret` of `app_settings`; `secretVal` (0: not asked for) |
| `attempts[a]`: `n`, `left` | `loginAttempt`; `left` is the time that remains until `until` |
| `cookies` | signed cookies in browsers, with the key that signed them |
| `Start` | `main` up to `ListenAndServe`, with `EnsureBootstrapAdmin` |
| `Attempt`, `Lookup`, `Reject`/`Accept`, `SignIn` | `AdminLoginSubmit`; between them other attempts run |
| `LetIn` | `RequireRole`: the cookie verifies and the account is an active admin; the handler never asks again |
| `Toggle`, `LoadTarget`, `CountOthers`, `Flip` | `AdminUserToggle` |
| `Create`, `CountName`, `Insert` | `AdminUserCreate`; the unique index refuses the second insert |
| `Tick`, `Expire`, `Crash` | the clock, the expiry of a cookie, the end of the process |

Whether a password matches is a free choice, so `AdminUserPassword` changes
nothing the model has. Random keys never collide: a new key is the number of
the process that made it. `SESSION_SECRET` is taken to be unset (with it the
key is a constant and `SessionsSurvive` is immediate). A check-in account is an
account that the admin handlers refuse. A request with a cookie that does not
verify also makes the process ask for its key; that has the effect of `SignIn`
followed by `Expire`, and is not an action of its own.

## 4a. ReminderLoop and the code

| Model | Code |
|---|---|
| `clock` | wall-clock minute and one of `Instants` instants in it; `Advance` is external |
| `up`, `boot` | the process, and when `time.NewTicker` was called: its ticks fall on that instant of each minute |
| `fired` | the channel of the ticker, which holds one tick; a tick that finds it full is dropped (`Fire`) |
| `run` | the goroutine: `wait` at `range ticker.C`, or a statement of `runReminders` with its locals: the minute `tick`, the index of the offset, the rows read (`Row`: registration and class date) |
| `date`, `status`, `linked` | what the queries read of `classes`, `registrations`, `telegram_users` |
| `sent` | messages handed to Telegram, by registration, offset and date |
| `begun`, `late` | history variables: runs that began in each minute; some run began after the minute of its tick. No guard reads them |
| `Begin`, `Query`, `Lookup`, `Send` | `reminders.go:54-62`, `:64-104`, `:106-119`, `:121-142` |
| `Reschedule`, `ChangeStatus`, `LinkOrUnlink` | the net effect of the web and bot handlers, at any time |

The window `[tick+ahead, next+ahead)` holds one minute, and class dates are
whole minutes (`datetime-local` or hours and minutes), written in the same
`+07:00` form as the bounds, so the text comparison is the comparison of times
and `Due` compares minutes. Both statements may fail: a failed first one skips
the offset, a failed second one leaves nobody to send to. Whether Telegram
takes a message is not asked by the code nor by the model: `sent` counts calls.

`Prompt` says where time may pass. `FALSE` lets it pass between any two steps,
the most general schedule, and is what the run and the proofs cover (the proofs
do not depend on it). `TRUE` lets time pass only while the loop waits for its
ticker or sends messages: the same exceptions to `OnceUnlessLate` remain, so
that they cannot be blamed on an absurdly slow database.

## 4b. Families and the code

| Model | Code |
|---|---|
| `parent[p]`, `child[k]` | rows of `parents`, `children`; of a parent's columns only the phone |
| `jar[q]` | the cookie `parent_phone` of the browser that slot serves |
| `known`, `moved`, `typed` | history variables: phones some parent had, phones given up by an edit or a deletion, the phone a child was entered under |
| `RegisterPhoneForm`, `RegisterPhoneSubmit`, `RegisterKidsForm`, `ByUrl`, `AccountLogout` | pages that read and set or clear the cookie |
| `Onboard`, `CreateParent` / `SaveParent`, `CreateChild` | `RegisterOnboardSubmit`, `register.go:88-186` |
| `NewChild`, `CreateChild` | `RegisterNewChildSubmit`, `AccountNewChildSubmit` |
| `Profile`, `LookupTyped`, `SaveParent` / `CreateParent` | `AccountProfileSubmit`, `account.go:97-148`; without a cookie it saves an empty row, a new parent |
| `AdminParentUpdate`, `SaveParent` | the same name in `admin_parents.go` |
| `AdminParentDelete` | its transaction; the rest is in `FamilySeats` |
| `AccountEditChild`, `CheckOwner`, `SaveChild`; `AdminChildUpdate`; `ReadForDropChild`, `DropChild` | editing and deleting a child |

`Put` is GORM's `Save`: an UPDATE by id, an INSERT if it touches no row, so a
parent that was deleted comes back. The unique index on `phone` and the foreign
key of `children` (`_foreign_keys=on` in `db.go:16`) refuse a statement, as `Refused`.
Phones are normal forms: every writer of the column applies `svc.NormPhone`,
and which spellings share a normal form is a function on strings.

## 4c. TelegramLink and the code

| Model | Code |
|---|---|
| `user[a]`, `lastUser` | a row of `telegram_users`: the id (0: no row), the parent, `deliverable`, the name; the id given last |
| `code[k]` | a row of `link_codes`; `age` is fresh, expired (10 minutes) or old (a day more) |
| `req[q].row` | does the handler's row have a primary key? |
| `Receive`, `Upsert` | `FirstOrCreate`, `dispatcher.go:36-45`: a SELECT by id, chat, names *and* `deliverable`, then an INSERT, whose error is ignored |
| `FindParent`, `UpdateUser` | a shared contact, an UPDATE by account, `dispatcher.go:47-71` |
| `FindCode`, `SpendCode`, `LoadParent`, `SaveUser` | `handleLinkCode` up to `handlers_parent.go:50` |
| `Say` | the message after either link, `dispatcher.go:72`, `handlers_parent.go:52`: sent, or lost |
| `ReadForUnlink`, `Unlink`; `ReadForGenerate`, `RemoveOldCodes`, `CreateCode` | `AccountUnlinkTelegram`; `AccountGenerateLinkCode` |
| `PromotionGoesTo`, `ReminderGoesTo` | the one account that `First` selects (`subscription.go:27`, `handlers_parent.go:138`), and the one that the map of `reminders.go:114-118` is left with |

Any message may be taken up at any time and by two slots at once, which covers
repeated and reordered updates. After an unlink, or a change of name,
`FirstOrCreate` finds nothing and its INSERT fails on the unique id: the
handler holds no row, `handleLinkCode` saves nothing, and the bot says "Linked"
all the same. "Linked to" is an HTTP call of its own after the write: another
request may unlink the account, or link it elsewhere, before it, and the call may
fail, which no code asks. `writer` remembers who wrote a link last and has yet
to say so, `told` what the account was told last. `told` is `None` while that
message was not about the link that was written last: it came from a request that
held no row, or was overtaken, or is missing. `LinkedAsTold` is about all other
messages: they are still true when no link of the account is being announced. A
message carries any of `Names`.

Several accounts may link one parent, and nothing unlinks the others. A promotion
then goes to the oldest row and a reminder to the newest, and the remaining
accounts get neither, though each was told "Linked". `LinkedIsReachable` says
that a parent with any linked account has exactly one of them selected for each.
The time between that SELECT and the message is not modelled: an account that is
unlinked in it is still written to.

`spent` is the codes that somebody has redeemed. Two requests that both found a
code before either saved it as used both redeem it; `RedeemedWhileUnused` says
that nobody finds it redeemable afterwards, though a row that was cleaned up is
inserted again, as used, by the late `Save`.

## 4d. Questions, Templates and the code

`Questions` is one class with the handlers that read or write its questions:
`SelectClassSubmit` (does the class ask anything?), `SelectClassConfirmSubmit`
(load the questions, judge the answers, load the class, insert both in one
transaction), `AdminCreateClass` (one INSERT per question), `AdminUpdateClass`
(the class, then row by row: find, then delete or save, or insert), and
`AdminDeleteClass` (count, delete the questions, delete the class). A form is a
set of rows that were shown at some earlier time, oldest first, and a number of
rows that were added.
`caught` and `newer` are history variables: the questions that changed while a
registration was being made, or since. `AnswersFit` holds for every other.

`Templates` is one template: `AdminTemplatesCreate`, `AdminTemplatesUpdate`
(header, then all rows in one transaction), `AdminTemplatesDelete`.

Both forms have a check box `q_delete[]` per row. A browser sends the ticked
boxes only and the handlers take the i-th value for the i-th row
(`admin_classes_edit.go:156-164`, `admin_templates.go:152-186`), so with n boxes
ticked the first n rows go, whichever they are. The models do the same
(`Deletes`, `Dropped`); nothing in the repository says which row must go, so no
property does.

## 5. Runs

| Run | Instance | States | Shows |
|---|---|---|---|
| `enrollment_race` | 1 class, 3 children, 2 concurrent requests, 3 registrations, capacity up to 2, 1 crash; everything but check-in | 1,186,869 | the recompute protocol works in spite of the races: no stranded waitlist, promotions in order, announced once, overbooking bounded, status only moves forward, the rank of a waiting child predicts its promotion |
| `enrollment_serial` | 2 classes, 2 days, 2 children, 2 registrations, one request at a time, every handler | 992,291 | what each handler's checks achieve without a race: no double place, only confirmed children checked in, and `Waitlist` implemented: first come, first served |
| `enrollment_station` | 1 class, 2 children, 2 requests, check-in with stale rows, fairness, no crash | 176,699 | the waitlist survives check-ins that write stale rows, is served, and promotions are announced |
| `enrollment_evening` | one request at a time, a class at 17:00 or later | violation | the same-day rule misses an evening class, without any race |
| `family_seats` | 1 class, 2 days, 2 families of one child, 2 concurrent requests, 2 registrations, capacity up to 1 | 590,635 | what deleting families, children and the class beside registration, cancellation and check-in leaves behind, and that the pages agree |
| `pages_evening` | 1 class, 2 days, 2 families, a class at 17:00 or later, one request at a time | violation | a family whose first class is in the evening is new on no day |
| `accounts_race` | 2 names, 3 accounts, 2 requests, limit 2, 1 restart, fairness | 222,502 | unique names, cookies survive, failures bounded, a lockout ends, only a race loses the last admin |
| `reminders` | 2 families, 1 class, 2 offsets, 2 dates, 4 minutes of 2 instants, 1 restart, `Prompt = FALSE` | 2,650,392 | no reminder three times; none twice, and no minute skipped, until a run is late |
| `families` | 2 phones, 2 browsers, 2 parents, 2 children, every handler | 453,178 | no family split, no child without its parent, no cookie of a number nobody had |
| `telegram` | 2 accounts, 2 parents, 1 code, 1 name, 2 requests | 1,148,537 | a linked parent is reached through one account each for promotions and reminders, told is linked, a redeemed code is not found again |
| `questions` | 2 questions, 1 registration, 1 added row, 2 requests | 390,003 | answers fit the questions that did not change meanwhile |
| `templates` | 3 questions, 2 added rows, 2 requests | 132,574 | no question outlives its template |

What the code's own words promise and a race takes away is stated as an
exception of a property that holds, so that the rest of the promise is checked:

| Words | What holds |
|---|---|
| "RecomputeClass enforces capacity" (`registration.go:19`) | `OverbookingBounded`: with N requests at most N - 1 children more than the largest capacity; it never takes a seat back |
| only a confirmed registration is checked in (`flash.go:41`: "Hanya registrasi CONFIRMED yang bisa di-check-in.") | `OnlyConfirmedCheckedIn` for one request at a time; a check-in beside a cancellation brings the registration back |
| "Safe to delete" (`admin.go:98`) | `FirstComeFirstServed` (`Close`) for one request at a time; a submit beside the deletion slips through |
| "keep at least one active admin standing" (`admin_users.go:155`) | `LastAdminLostToRace`: two admins that switch each other off at once both go |
| "to avoid duplicate sends" (`reminders.go:57`) | `OnceUnlessLate`, `AtMostTwice`: a run slower than a minute reminds twice |
| "Linked to" (`handlers_parent.go:52`) | `LinkedAsTold`, but for a request without a row, one overtaken before its message, and a message lost |
| a link code is used once (`used_at IS NULL`, `handlers_parent.go:32`) | `RedeemedWhileUnused`, but for requests that had found it before the first was done |
| "block deletion if there are upcoming registrations" (`admin_parents.go:388`) | `UpcomingAreKept`, but for what was registered since the guard counted |

**Why the bounds are enough.** Each hazard is a race of two handlers over one
class (or one account), so two goroutines and one class show it; three
registrations are the least that separate "confirmed", "promoted" and "left
waiting" and so the order of promotions; capacity 0, 1 and 2 gives zero slots,
one and two, and cuts below the number of confirmed children. Requests are
not consumed: after one finishes the slot is free for the next, so long
sequences of calls are covered, up to the bound on rows ever created (`MaxRegs`,
`MaxUsers`) and crashes (`MaxCrashes`). The bounds are guards of the actions
(`RoomForOne`, `Create`, `Crash`); no run uses a state constraint.
`MaxFails = 2` and `Lockout = 1` keep the shape of the limit: with 2 requests
the count passes the limit by one. Two parents, two phones and two browsers are
the least for a phone to move from one parent to another while somebody
onboards under it. Two Telegram accounts and two parents to be linked to show every
race over one link, and two accounts linked to one parent, whose rows come in
either order, which of them is written to. One name is enough: an account that
was unlinked is a row `FirstOrCreate` cannot find, as one that changed its name
is, and the proofs are for any number of names. Two questions give a form one row
that stays and one that goes. Four minutes of two instants are enough for
the reminder loop: a tick early and late in the minute, a run that spans a
minute, the tick that waits behind it, the tick that is dropped, and the run
after. Every property has a mutant of the code in
`PROJECT.json` under which TLC refutes it in the same instance.

Deadlock is not checked: a state in which nobody sends a request and every
bound is used up is a legitimate end.

## 6. Fairness and liveness

`FairSpec` of `Enrollment` is weak fairness of each goroutine's steps: the Go
runtime runs every goroutine and no statement blocks for ever. Nobody has to
send a request and arrivals have no fairness. Under it `WaitlistServed` (a free
seat beside a waiting child is given away or goes away) and
`PromotionAnnounced` hold as long as the process does not die; nothing in the
database records that a recompute or an announcement is owed, so a crash loses
it, and the safety property `NoStrandedWaitlist` says precisely that.
`AdminAccounts` also needs time to pass (`WF(Tick)`) for `LockoutEnds`:
attempts made while an address is locked are refused before they are counted,
so only those already in flight can put the end off.

No other model states liveness: what `Families`, `TelegramLink`, `Questions` and
`Templates` owe is done when their requests end, and nothing waits for it.

Symmetry is used in safety runs only, never beside a liveness property.

## 7. Proofs

Every theorem holds for every value of the constants that meets the named
assumptions of the modules (`BoundsAssumption`, `ReqsAssumption`,
`DaysAssumption`, `NoneAssumption` in `Enrollment`; `OwnerAssumption`,
`TodayAssumption` in `FamilySeats`; `BoundsAssumption`, `LimitAssumption`,
`ReqsAssumption`, `NamesAssumption` in `AdminAccounts`; `TimeAssumption`,
`RowsAssumption` in `ReminderLoop`; `BoundsAssumption`, `ReqsAssumption`,
`NoneAssumption` in `Families`; `NoneAssumption` in
`TelegramLink`; `BoundsAssumption`, `ReqsAssumption`,
`OptionsAssumption` in `Questions`; `BoundsAssumption` in `Templates`): finitely
many goroutines, at least one where the text says so, natural bounds, a `None`
that is not a value, one parent per child, a mark for "not asked" that is no
answer. The number of
classes, children, addresses and names is arbitrary; so are the offsets, the
tables and the division of the minute of the reminder loop.

| Theorem | Property | Argument |
|---|---|---|
| `EnrollmentProofs!TypeCorrect` | `TypeOK` | `TypeInv` adds that ids are reserved for every registration in progress (`IdsReserved`: otherwise `Insert` could run past the table) and which locals are set at each `pc` |
| `WaitlistNeverStranded` | `NoStrandedWaitlist` | `WaitlistInv` adds `RowsInserted` (a row has an id below the counter and a class that exists or existed) and `Memory`: what a handler remembers of the rows it read is still true. `Memory` is the heart: the class a deletion recomputes is the class of the row it deletes, and a stale check-in only ever writes "confirmed", which can take a seat but never free one |
| `PromotionsInOrder` | `PromotionInOrder` | only `Rebalance` promotes, and what it promotes is a set of least ids that fits; check-in never moves a row off the waitlist, by `Memory` |
| `NeverBack` | `NeverBackOnWaitlist` | every writer of a status: a fresh row, a promotion, a cancellation, a deletion, a stale row, which by `Memory` is confirmed |
| `AnnouncedAtMostOnce` | `AnnouncedOnce` | `AnnounceInv`: whoever is or was announced has left the waitlist. A promotion collects rows that wait, so none of them is in other hands, and by `Memory` none of those who were announced ever waits again |
| `OverbookingStaysBounded` | `OverbookingBounded` | `SeatsInv`: the seats of a class that are taken *or claimed* (by a check-in that read a row as confirmed and will save it so), plus the requests about to insert a confirmed row, stay within `peak + N - 1`; and no request remembers a capacity above `peak` (`CapsSeen`). The bound on taken seats alone is not inductive: a stale check-in takes a seat nobody counted. A request that decides to insert saw a free seat, and is itself one of the N |
| `StatusesMoveForward` | `StatusMovesForward` | where `"checkin"` is not in `Handlers`: the other writers of a status never write over a canceled or deleted one |
| `NoSecondPlace` | `NoDoublePlace` | where requests come one at a time (`Alone`) and no class begins at 17:00 or later: `SerialInv`, the child found free on the day of its class is still free, and the day is still that of the class, at the insert |
| `CheckedInConfirmed` | `OnlyConfirmedCheckedIn` | where requests come one at a time: `CheckinInv`, the row a check-in has read is confirmed until it saves it |
| `ServedInOrder` | `FirstComeFirstServed` | the refinement of `Waitlist`, where requests come one at a time and the process does not die; see below |
| `PagesProofs!FamiliesLeaveNoStranded` | `FamilyLeavesNoStranded` | `WaitlistInv(E)` of `EnrollmentProofs`, whose lemmas allow a set `E` of classes to be stranded unnoticed; here `E` is the classes the loop of `AdminParentDelete` has still to recompute (`Pending`) and those it does not know (`missed`) |
| `PlacesHaveChildren` | `SeatsHaveChildren` | `SeatsCovered`: also of the rows that check-ins under way will save, and a child that is gone went before the next id was used |
| `UpcomingStayKept` | `UpcomingAreKept` | where no class is edited and no registration deleted on its own (`"update"`, `"delete"` not in `Handlers`: an edit moves a class to a later day, and a check-in brings back a row that `AdminRegDelete` removed): `UpcomingCounted`, the guard counted every row it should have, from the count to the transaction |
| `AttendanceShowsRoster`, `PagesAlwaysAgree` | `AttendanceIsRoster`, `PagesAgree` | `RowsRead`: a class that is offered has a day, and whoever loses the place is no longer checked in; the rest is counting over finite sets |
| `RankPredicts`, `RankPredictsForFamilies` | `RankPredictsPromotion`, under `Spec` and `FamilySpec` | the three SQL ranks are the number of waiting rows that are not younger (`Ranks`, from `OldestFirst` having one order, `OldestFirstOrdered`, `InPlace`), and a promotion takes a set of least ids |
| `AdminAccountsProofs!TypeCorrect` | `TypeOK` | `Consistent`: which locals are set at each `pc` |
| `OneAccountPerName` | `UsernamesUnique` | `NamesDiffer`, kept by the unique index alone; the count of `AdminUserCreate` is not needed |
| `CookiesSurvive` | `SessionsSurvive` | `KeysAgree`: the key in memory is the stored one, and every cookie was signed with it |
| `AdminLostOnlyToRace` | `LastAdminLostToRace` | a toggle's target is not its actor (`Consistent`), so an actor that is still an active admin is the admin left standing |
| `FailuresStayBounded` | `FailuresBounded` | `LimitInv`: while an address is locked nobody joins the attempts in flight, so failures plus attempts in flight stay below the bound |
| `ReminderLoopProofs!TypeCorrect` | `TypeOK` | `RunConsistent` (an offset index is in range while a run is under way, and rows were read for a date) and `BootConsistent` (the ticker was made in the past and dies with the process) |
| `NeverThreeTimes` | `AtMostTwice` | `RunsBounded`: runs begun in the current minute plus the buffered tick are at most two, and at most one before the minute's own tick. `SentBounded`: what was sent of a reminder, plus one if the run under way has yet to come to it (`ToSend`), is at most the number of runs begun in the reminder's minute; `ToSendShrinks` says a run comes to nothing twice |
| `OnceIfPunctual` | `OnceUnlessLate` | `OneRun`: while no run was late, the buffered tick is the tick of a minute that has had no run; with `SentBounded` |
| `NoMinuteLost` | `EveryMinuteOnce` | `Covered`: every minute since the ticker was made, up to the one whose tick is pending, has had exactly one run |
| `FamiliesProofs!TypeCorrect` | `TypeOK` | `TypeInv` adds which locals are set at each `pc`, that ids are reserved for every row in the making (`IdsReserved`) and that the phone of a live parent is a known one (`LivePhones`) |
| `FamiliesStayWhole` | `NoSplitFamily` | `FamilyInv`: phones of live parents differ (the unique index); and a child, a handler about to create one, and the phone it was entered under stay `Faithful` to the parent that held that phone, until somebody gives the phone up. `Keeps` is what every write of a parent, deletions and resurrections included, does to that; `Kept` follows from it once and for all handlers |
| `ChildrenKeepParents` | `ChildrenHaveParents` | part of `FamilyInv`: the foreign key at every INSERT and UPDATE of a child, the transaction at the deletion |
| `CookiesNameParents` | `CookieOfAParent` | part of `FamilyInv`: a cookie is set from a row just read, or from a phone just stored |
| `TelegramLinkProofs!TypeCorrect` | `TypeOK` | which locals are set at each `pc` |
| `LinkedStayReachable` | `LinkedIsReachable` | `LinkInv`: a linked account has a row, and that row is deliverable, since every write of the one column writes the other; ids differ (`RowsNumbered`). A set of ids that is not empty and bounded has a least and a greatest (`Least`), so that `First` and the map select one account each |
| `ToldTheTruth` | `LinkedAsTold` | `SaysSoon`: whoever wrote a link last is at its message, and the link is still what it wrote, so that the message is true if it comes before the next write |
| `CodeRunsOut` | `RedeemedWhileUnused` | `SpentCodes`: a code that was redeemed is marked used, deleted or not, and neither the cleaning, nor a late `Save`, nor a new code takes the mark off; only `FindCode` lets a request redeem, and it asks for the mark |
| `TemplatesProofs!NoOrphanedItems` | `ItemsHaveTemplate` | inductive as it stands: the foreign key at both ends, and the header is saved before the rows |
| `QuestionsProofs!TypeCorrect` | `TypeOK` | ids are reserved for every row a form may still add (`IdsReserved`), and a form has at least as many rows left as ticked boxes, and a row to write whenever it writes one (`Fits`) |
| `AnswersAlwaysFit` | `AnswersFit` | `AnswersInHand`: a request holding answers has answers that fit every question not in its `caught`; `Put` and the deletion move a question into `caught` and `newer` in the step that changes it |

The hypotheses of five theorems (`Alone`: any two members of `Reqs` are equal;
`MaxCrashes = 0`; a handler or an evening class left out) are not proof devices:
each names a race, a crash or a rule that makes the property false, as the
models show. The double place of two concurrent submits, the canceled row that a
check-in brings back and the evening class (`enrollment_evening`) are behaviours
of the code. Nothing in them bounds how many registrations, classes, children or
steps there are.

**The refinement.** `ServedInOrder` maps every step of `Enrollment` to a step of
`Waitlist` or to none. The mapping counts a promotion as made as soon as it is
owed, and the proof rests on three facts. `DebtsDue`: what a request owes is
exactly the oldest of those who wait, as many as there is room for. It is
`NoStrandedWaitlist` made exact: in a class without a debt there is nobody to
move, in a class with one the set is unique (`OldestUnique`). `LineInv`: what the
only request relies on is still true of the tables. The capacity it compares with is
that of the class, the seat it has worked out is the right one, the class it is
about to delete is empty, and whoever has a place has it in a class that exists.
Third, facts about lines: a set of ids has one order (`OneOrder`), the youngest
goes to its end (`AppendYoungest`), leaving one out leaves the others in order
(`RemoveOrdered`), and the oldest are its head (`TakeOldest`). With them each
handler is one lemma: `InsertJoins`, `CancelLeaves`, `DeleteLeaves`, `SaveResizes`,
`CreateOpens`, `DropCloses`; `RecomputeHidden` says that paying a debt is no step at
all. That an insert joins *the line*, and sits down at once exactly if nobody waits
and a seat is free, is where the two `if`s of `SelectClassSubmit` and
`recomputeClassTxCollect` have to agree.

Only model-checked: the liveness properties `WaitlistServed`, `PromotionAnnounced`
and `LockoutEnds` (out of reach of the prover); every invariant and action
property of the passing runs is a theorem. The two violations are TLC counterexamples.

Not modelled:

* statements that fail for reasons of their own, but for the two of the
  reminder loop; more than one process on the database file;
* `guardCheckin`'s comparison of role, campus and clock (a free choice), the
  expiry of a parent's cookie, the text of messages, the HTML of the pages;
* normal forms of phones and e-mail addresses: functions on strings;
* the connection pool as such: every transaction of the code was read to see
  that it uses its own handle only, so none waits for a second connection while
  it holds the first, and that is what makes a statement one action;
* what may change between the SELECT of the account a promotion goes to and the
  message; in `ReminderLoop` between the rows and the messages it is modelled;
* audit rows, which nothing reads but a page; home, health and flash pages;
  seeding, backups, deployment but for the restart.

## 8. What is left

In this order.

1. **Check-in guard**: role, campus and the clock in `Enrollment`'s `Guard`.
2. **Phones**: `NormPhone` and its variants as operators over short digit
   sequences, compared with a reference definition.
3. **A specification above `AdminAccounts`**: what the limit of sign-ins promises
   an address, without requests, and the race as its only exception.

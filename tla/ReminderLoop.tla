----------------------------- MODULE ReminderLoop -----------------------------
(***************************************************************************)
(* The reminder loop of the Telegram bot: a goroutine that takes the ticks *)
(* of a one-minute ticker and, for every offset, reminds the families of   *)
(* the classes that start in the minute `offset' ahead.                    *)
(*                                                                         *)
(* Class dates are whole minutes (the forms have hours and minutes),       *)
(* written like the bounds of the query with +07:00, and the offsets are   *)
(* whole minutes here: the half-open window [tick+ahead, next+ahead) of a  *)
(* run holds the one date window + offset.                                 *)
(***************************************************************************)
EXTENDS Integers, Sequences

CONSTANTS
    Regs,            \* ids of rows of table registrations
    Classes,         \* ids of rows of table classes
    Parents,         \* ids of rows of table parents
    ClassOf,         \* class_id of a registration
    ParentOf,        \* parent_id of a registration
    Dates,           \* the minutes at which classes may start
    Offsets,         \* REMIND_OFFSETS, in minutes
    IncludeWaitlist, \* REMIND_INCLUDE_WAITLIST
    Prompt,          \* does time pass only at the ticker and while sending?
    Instants,        \* distinguished instants of a minute
    MaxMinute,       \* bound: the clock
    MaxCrashes,      \* bound: process crashes
    None             \* no tick is pending

ASSUME TimeAssumption ==
    /\ Dates \subseteq Int /\ Offsets \in Seq(Nat) \ {<<>>}
    /\ Instants \in Nat \ {0} /\ MaxMinute \in Nat /\ MaxCrashes \in Nat
    /\ None \notin 0..MaxMinute
ASSUME RowsAssumption ==
    /\ ClassOf \in [Regs -> Classes] /\ ParentOf \in [Regs -> Parents]
    /\ IncludeWaitlist \in BOOLEAN /\ Prompt \in BOOLEAN

VARIABLES
    clock,  \* the minute, and the instant within it
    up,     \* the process runs
    boot,   \* when the ticker of the process was made
    fired,  \* the channel of the ticker: the minute of the tick it buffers
    run,    \* the loop: at its ticker, or what runReminders is doing
    date,   \* table classes: when each class starts
    status, \* table registrations: the status of each
    linked, \* parents with a deliverable Telegram user
    sent,   \* reminders handed to Telegram, by registration, offset and date
    begun,  \* history: how many runs began in each minute
    late,   \* history: some run began in a later minute than its tick fired
    crashes \* crashes so far

vars == <<clock, up, boot, fired, run, date, status, linked, sent, begun, late, crashes>>
tables == <<date, status, linked>>

Minutes == 0..MaxMinute
Clock == [min : Minutes, at : 0..Instants - 1]
Statuses == {"confirmed", "waitlisted", "canceled"}
Reminders == Regs \X (DOMAIN Offsets) \X Dates

\* A row of the query: the registration, and the date its class had then.
Row == [reg : Regs, date : Dates]

RunState == [pc : {"wait", "query", "lookup", "send"}, window : Minutes,
             i : {0} \cup DOMAIN Offsets, rows : SUBSET Row]

Waiting == [pc |-> "wait", window |-> 0, i |-> 0, rows |-> {}]

Init ==
    /\ clock \in {t \in Clock : t.min = 0}
    /\ up = TRUE
    /\ boot = clock
    /\ fired = None
    /\ run = Waiting
    /\ date \in [Classes -> Dates]
    /\ status \in [Regs -> Statuses]
    /\ linked \in SUBSET Parents
    /\ sent = [k \in Reminders |-> 0]
    /\ begun = [m \in Minutes |-> 0]
    /\ late = FALSE
    /\ crashes = 0

(***************************************************************************)
(* Time, and time.NewTicker: a tick every minute from the time the ticker  *)
(* was made, into a channel that buffers one; a tick that finds the buffer *)
(* full is dropped.  Time passes while a run waits for Telegram (up to 10  *)
(* seconds a message), and, unless Prompt, while the loop waits for a      *)
(* statement or to be scheduled.                                           *)
(***************************************************************************)
FireUnlessBusy(t) == fired' = IF up /\ t.at = boot.at /\ fired = None /\ run.pc = "wait"
                              THEN t.min ELSE fired
Fire(t) == fired' = IF up /\ t.at = boot.at /\ fired = None THEN t.min ELSE fired

Advance ==
    /\ Prompt => ~up \/ run.pc = "send" \/ (run.pc = "wait" /\ fired = None)
    /\ \E t \in Clock :
        /\ IF clock.at < Instants - 1
           THEN t = [clock EXCEPT !.at = @ + 1]
           ELSE t = [min |-> clock.min + 1, at |-> 0]
        /\ clock' = t
        /\ Fire(t)
        /\ UNCHANGED <<up, boot, run, tables, sent, begun, late, crashes>>

\* The next offset of the loop in runReminders, or back to the ticker.
NextOffsetPastEnd == IF run.i <= Len(Offsets)
                     THEN [run EXCEPT !.pc = "query", !.i = @ + 1, !.rows = {}]
                     ELSE Waiting
NextOffset == IF run.i < Len(Offsets)
              THEN [run EXCEPT !.pc = "query", !.i = @ + 1, !.rows = {}]
              ELSE Waiting

\* A tick is taken from the channel; the window is the minute it is now.
Begin ==
    /\ up /\ run.pc = "wait" /\ fired # None
    /\ fired' = None
    /\ run' = [pc |-> "query", window |-> clock.min, i |-> 1, rows |-> {}]
    /\ begun' = [begun EXCEPT ![clock.min] = @ + 1]
    /\ late' = (late \/ fired # clock.min)
    /\ UNCHANGED <<clock, up, boot, tables, sent, crashes>>

\* The rows to remind for offset i in a run of window w.
Remindable == {"confirmed"} \cup (IF IncludeWaitlist THEN {"waitlisted"} ELSE {})

DueInclusive(w, i) == {x \in Row : /\ status[x.reg] \in Remindable
                                    /\ x.date = date[ClassOf[x.reg]]
                                    /\ x.date \in {w + Offsets[i], w + 1 + Offsets[i]}}
Due(w, i) == {x \in Row : /\ status[x.reg] \in Remindable
                          /\ x.date = date[ClassOf[x.reg]]
                          /\ x.date = w + Offsets[i]}

\* A statement that fails skips the offset.
Query ==
    /\ run.pc = "query"
    /\ \/ run' = NextOffset
       \/ /\ Due(run.window, run.i) # {}
          /\ run' = [run EXCEPT !.pc = "lookup", !.rows = Due(run.window, run.i)]
    /\ UNCHANGED <<clock, up, boot, fired, tables, sent, begun, late, crashes>>

\* The Telegram users of the parents, in one query; the others are skipped,
\* and all of them when it fails.
Lookup ==
    /\ run.pc = "lookup"
    /\ LET reachable == {x \in run.rows : ParentOf[x.reg] \in linked} IN
       \/ run' = NextOffset
       \/ /\ reachable # {}
          /\ run' = [run EXCEPT !.pc = "send", !.rows = reachable]
    /\ UNCHANGED <<clock, up, boot, fired, tables, sent, begun, late, crashes>>

\* One message; whether Telegram took it is not asked.
Send(x) ==
    /\ run.pc = "send" /\ x \in run.rows
    /\ sent' = [sent EXCEPT ![<<x.reg, run.i, x.date>>] = @ + 1]
    /\ run' = IF run.rows = {x} THEN NextOffset ELSE [run EXCEPT !.rows = @ \ {x}]
    /\ UNCHANGED <<clock, up, boot, fired, tables, begun, late, crashes>>

(***************************************************************************)
(* The process dies with its ticker; the next one makes its own.           *)
(***************************************************************************)
Crash ==
    /\ up /\ crashes < MaxCrashes
    /\ up' = FALSE
    /\ crashes' = crashes + 1
    /\ fired' = None
    /\ run' = Waiting
    /\ UNCHANGED <<clock, boot, tables, sent, begun, late>>

Boot ==
    /\ ~up
    /\ up' = TRUE
    /\ boot' = clock
    /\ UNCHANGED <<clock, fired, run, tables, sent, begun, late, crashes>>

(***************************************************************************)
(* What the handlers of the web site and of the bot do to the tables.      *)
(***************************************************************************)
Reschedule(c, d) ==
    /\ date' = [date EXCEPT ![c] = d]
    /\ UNCHANGED <<clock, up, boot, fired, run, status, linked, sent, begun, late, crashes>>

ChangeStatus(r, s) ==
    /\ status' = [status EXCEPT ![r] = s]
    /\ UNCHANGED <<clock, up, boot, fired, run, date, linked, sent, begun, late, crashes>>

LinkOrUnlink(p) ==
    /\ linked' = IF p \in linked THEN linked \ {p} ELSE linked \cup {p}
    /\ UNCHANGED <<clock, up, boot, fired, run, date, status, sent, begun, late, crashes>>

Next ==
    \/ Advance \/ Begin \/ Query \/ Lookup \/ Crash \/ Boot
    \/ \E x \in Row : Send(x)
    \/ \E c \in Classes, d \in Dates : Reschedule(c, d)
    \/ \E r \in Regs, s \in Statuses : ChangeStatus(r, s)
    \/ \E p \in Parents : LinkOrUnlink(p)

Spec == Init /\ [][Next]_vars

-----------------------------------------------------------------------------
(***************************************************************************)
(* Properties.                                                             *)
(***************************************************************************)

\* Every table, the clock and the loop's local variables are well formed.
TypeOK ==
    /\ clock \in Clock /\ boot \in Clock
    /\ up \in BOOLEAN /\ late \in BOOLEAN
    /\ fired \in Minutes \cup {None}
    /\ run \in RunState
    /\ date \in [Classes -> Dates]
    /\ status \in [Regs -> Statuses]
    /\ linked \subseteq Parents
    /\ sent \in [Reminders -> Nat]
    /\ begun \in [Minutes -> Nat]
    /\ crashes \in 0..MaxCrashes

\* "A strict 1-minute window to avoid duplicate sends": nobody is reminded
\* twice of the same date for the same offset.  A run slower than a minute leaves a
\* tick behind that is answered in the minute of the next one, and breaks it.
NoDuplicates == \A k \in Reminders : sent[k] <= 1

\* What the window does guarantee.  Slow runs and restarts may put two runs
\* into one minute, but the channel buffers one tick: never three, so nobody
\* is reminded three times of the same date for the same offset.
AtMostTwice == \A k \in Reminders : sent[k] <= 2

\* Nobody is reminded twice as long as every run begins in the minute in
\* which its tick fired: restarts and changes of the tables do no harm.
OnceUnlessLate == late \/ NoDuplicates

\* As long as every run begins in the minute of its tick, a process runs
\* exactly once in every minute after the one it was started in.
EveryMinuteOnce ==
    up /\ ~late /\ run.pc = "wait" /\ fired = None =>
        \A m \in Minutes : boot.min < m /\ m < clock.min => begun[m] = 1
=============================================================================

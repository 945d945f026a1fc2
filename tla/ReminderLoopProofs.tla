-------------------------- MODULE ReminderLoopProofs --------------------------
(***************************************************************************)
(* Theorems about ReminderLoop for every table, every list of offsets,     *)
(* every division of the minute and every bound.                           *)
(***************************************************************************)
EXTENDS ReminderLoop, TLAPS

-----------------------------------------------------------------------------
(* The loop and the clock.                                                 *)

\* The local variables of runReminders at each of its statements.
RunConsistent ==
    /\ run.pc # "wait" => run.i \in DOMAIN Offsets /\ run.window <= clock.min
    /\ \A x \in run.rows : run.pc # "wait" /\ x.date = run.window + Offsets[run.i]

\* The ticker is not made in the future, and dies with the process.
BootConsistent ==
    /\ boot.min < clock.min \/ (boot.min = clock.min /\ boot.at <= clock.at)
    /\ ~up => fired = None /\ run.pc = "wait"

TypeInv == TypeOK /\ RunConsistent /\ BootConsistent

\* The minutes and instants of the clock and of the ticker are numbers.
LEMMA ClockType ==
    ASSUME TypeInv
    PROVE  /\ clock \in Clock /\ clock.min \in Minutes /\ clock.min \in Nat /\ clock.at \in Nat
           /\ clock.at <= Instants - 1
           /\ boot \in Clock /\ boot.min \in Nat /\ boot.at \in Nat /\ boot.at <= Instants - 1
           /\ fired # None => fired \in Minutes /\ fired \in Nat
           /\ run.window \in Nat
  BY TimeAssumption DEF TypeInv, TypeOK, Clock, Minutes, RunState

\* The offsets are a list of naturals that is not empty.
LEMMA OffsetsList ==
    /\ Len(Offsets) \in Nat \ {0}
    /\ DOMAIN Offsets = 1..Len(Offsets)
    /\ \A i \in DOMAIN Offsets : Offsets[i] \in Nat
<1>1. Offsets \in Seq(Nat) /\ Offsets # <<>>
  BY TimeAssumption
<1> QED BY <1>1

\* The loop that is at its ticker is well formed.
LEMMA WaitingType == Waiting \in RunState /\ Waiting.pc = "wait" /\ Waiting.rows = {}
  BY TimeAssumption DEF Waiting, RunState, Minutes

\* The next offset of a run, or its end.
LEMMA NextOffsetType ==
    ASSUME TypeInv, run.pc # "wait"
    PROVE  /\ NextOffset \in RunState
           /\ NextOffset.rows = {}
           /\ \/ NextOffset.pc = "wait"
              \/ /\ NextOffset.pc = "query"
                 /\ NextOffset.i = run.i + 1 /\ NextOffset.i \in DOMAIN Offsets
                 /\ NextOffset.window = run.window
<1>1. run \in RunState /\ run.i \in DOMAIN Offsets
  BY DEF TypeInv, TypeOK, RunConsistent
<1>2. CASE run.i < Len(Offsets)
  <2>1. NextOffset = [run EXCEPT !.pc = "query", !.i = @ + 1, !.rows = {}]
    BY <1>2 DEF NextOffset
  <2>2. run.i + 1 \in DOMAIN Offsets
    BY <1>1, <1>2, OffsetsList
  <2> QED BY <1>1, <2>1, <2>2 DEF RunState
<1>3. CASE ~(run.i < Len(Offsets))
  BY <1>3, WaitingType DEF NextOffset
<1> QED BY <1>2, <1>3

\* What an instant that passes does to the clock and to the ticker.
LEMMA AdvanceEffect ==
    ASSUME TypeInv, Advance
    PROVE  /\ clock' \in Clock /\ clock'.min \in Minutes /\ clock'.min \in Nat
           /\ clock'.at \in Nat
           /\ \/ clock'.min = clock.min /\ clock'.at = clock.at + 1
              \/ clock'.min = clock.min + 1 /\ clock'.at = 0 /\ clock.at = Instants - 1
           /\ \/ /\ up /\ clock'.at = boot.at /\ fired = None
                 /\ fired' = clock'.min
              \/ /\ ~up \/ clock'.at # boot.at \/ fired # None
                 /\ fired' = fired
<1>1. PICK t \in Clock : /\ IF clock.at < Instants - 1
                            THEN t = [clock EXCEPT !.at = @ + 1]
                            ELSE t = [min |-> clock.min + 1, at |-> 0]
                         /\ clock' = t
                         /\ Fire(t)
  BY DEF Advance
<1>2. clock \in Clock
  BY DEF TypeInv, TypeOK
<1> QED BY <1>1, <1>2, TimeAssumption DEF Clock, Minutes, Fire

\* A step of runReminders leaves a well-formed loop.
LEMMA RunType ==
    ASSUME TypeInv, Query \/ Lookup \/ \E x \in Row : Send(x)
    PROVE  /\ run' \in RunState
           /\ run'.pc # "wait" => run'.i \in DOMAIN Offsets /\ run'.window = run.window
           /\ \A x \in run'.rows :
                run'.pc # "wait" /\ run'.i = run.i /\ x.date = run.window + Offsets[run.i]
           /\ UNCHANGED <<clock, up, boot, fired, tables, begun, late, crashes>>
<1>1. run.pc # "wait" /\ run \in RunState /\ run.i \in DOMAIN Offsets
  BY DEF Query, Lookup, Send, TypeInv, TypeOK, RunConsistent
<1>2. CASE run' = NextOffset
  BY <1>1, <1>2, NextOffsetType DEF Query, Lookup, Send
<1>3. CASE Query /\ run' # NextOffset
  <2>1. run' = [run EXCEPT !.pc = "lookup", !.rows = Due(run.window, run.i)]
        /\ Due(run.window, run.i) # {}
    BY <1>3 DEF Query
  <2>2. /\ Due(run.window, run.i) \subseteq Row
        /\ \A x \in Due(run.window, run.i) : x.date = run.window + Offsets[run.i]
    BY DEF Due
  <2> QED BY <1>1, <1>3, <2>1, <2>2 DEF Query, RunState
<1>4. CASE Lookup /\ run' # NextOffset
  <2>1. PICK S \in SUBSET run.rows : run' = [run EXCEPT !.pc = "send", !.rows = S]
    BY <1>4 DEF Lookup
  <2> QED BY <1>1, <1>4, <2>1 DEF Lookup, RunState, TypeInv, RunConsistent
<1>5. ASSUME NEW r \in Row, Send(r), run' # NextOffset
      PROVE  /\ run' \in RunState
             /\ run'.pc # "wait" /\ run'.i = run.i /\ run'.window = run.window
             /\ \A x \in run'.rows : x.date = run.window + Offsets[run.i]
             /\ UNCHANGED <<clock, up, boot, fired, tables, begun, late, crashes>>
  <2>1. run' = [run EXCEPT !.rows = @ \ {r}] /\ r \in run.rows
    BY <1>5 DEF Send
  <2> QED BY <1>1, <1>5, <2>1 DEF Send, RunState, TypeInv, RunConsistent
<1> QED BY <1>1, <1>2, <1>3, <1>4, <1>5

\* A message is counted once, for the date of the window and offset.
LEMMA SentEffect ==
    ASSUME TypeInv, NEW x \in Row, Send(x)
    PROVE  /\ <<x.reg, run.i, x.date>> \in Reminders
           /\ x.date = run.window + Offsets[run.i]
           /\ sent' = [sent EXCEPT ![<<x.reg, run.i, x.date>>] = @ + 1]
           /\ sent' \in [Reminders -> Nat]
<1>1. <<x.reg, run.i, x.date>> \in Reminders
  BY DEF Send, TypeInv, RunConsistent, Reminders, Row
<1> QED BY <1>1 DEF Send, TypeInv, TypeOK, RunConsistent

\* The tables that other handlers change stay well formed, and the loop does
\* not notice.
LEMMA TablesType ==
    ASSUME TypeInv,
           \/ \E c \in Classes, d \in Dates : Reschedule(c, d)
           \/ \E r \in Regs, s \in Statuses : ChangeStatus(r, s)
           \/ \E p \in Parents : LinkOrUnlink(p)
    PROVE  /\ date' \in [Classes -> Dates]
           /\ status' \in [Regs -> Statuses]
           /\ linked' \subseteq Parents
           /\ UNCHANGED <<clock, up, boot, fired, run, sent, begun, late, crashes>>
  BY DEF Reschedule, ChangeStatus, LinkOrUnlink, TypeInv, TypeOK

LEMMA TypeInvStep == TypeInv /\ [Next]_vars => TypeInv'
<1> SUFFICES ASSUME TypeInv, [Next]_vars PROVE TypeInv'
  OBVIOUS
<1> USE TimeAssumption
<1>1. CASE Advance
  <2> UNCHANGED <<up, boot, run, tables, sent, begun, late, crashes>>
    BY <1>1 DEF Advance
  <2>1. TypeOK'
    BY <1>1, AdvanceEffect DEF TypeInv, TypeOK, tables
  <2>2. clock.min <= clock'.min
    BY <1>1, AdvanceEffect, ClockType
  <2>3. RunConsistent'
    BY <1>1, <2>2, AdvanceEffect, ClockType DEF TypeInv, RunConsistent
  <2>4. ~up => fired' = None
    BY <1>1, AdvanceEffect DEF TypeInv, BootConsistent
  <2>5. boot.min < clock'.min \/ (boot.min = clock'.min /\ boot.at <= clock'.at)
    BY <1>1, AdvanceEffect, ClockType DEF TypeInv, BootConsistent
  <2>6. run.pc = run'.pc /\ up = up' /\ boot' = boot
    OBVIOUS
  <2>7. BootConsistent'
    BY <2>4, <2>5, <2>6 DEF TypeInv, BootConsistent
  <2> QED BY <2>1, <2>3, <2>7 DEF TypeInv
<1>2. CASE Begin
  <2>1. /\ run' \in RunState /\ run'.pc = "query" /\ run'.window = clock.min
        /\ run'.i = 1 /\ run'.rows = {}
    <3>1. run' = [pc |-> "query", window |-> clock.min, i |-> 1, rows |-> {}]
      BY <1>2 DEF Begin
    <3>2. 1 \in DOMAIN Offsets /\ clock.min \in Minutes
      BY OffsetsList, ClockType
    <3> QED BY <3>1, <3>2 DEF RunState
  <2>2. begun' \in [Minutes -> Nat]
    <3>1. begun' = [begun EXCEPT ![clock.min] = @ + 1]
      BY <1>2 DEF Begin
    <3>2. begun \in [Minutes -> Nat]
      BY DEF TypeInv, TypeOK
    <3>3. begun' = [m \in Minutes |-> IF m = clock.min THEN begun[m] + 1 ELSE begun[m]]
      BY <3>1, <3>2
    <3> QED BY <3>2, <3>3
  <2>3. late' \in BOOLEAN
    BY <1>2 DEF Begin
  <2>4. fired' = None /\ UNCHANGED <<clock, up, boot, tables, sent, crashes>>
    BY <1>2 DEF Begin
  <2>5. TypeOK'
    BY <2>1, <2>2, <2>3, <2>4 DEF TypeInv, TypeOK, tables
  <2>6. RunConsistent'
    BY <1>2, <2>1, OffsetsList, ClockType DEF Begin, RunConsistent
  <2>7. BootConsistent'
    BY <1>2 DEF Begin, BootConsistent, TypeInv
  <2> QED BY <2>5, <2>6, <2>7 DEF TypeInv
<1>3. CASE Query \/ Lookup \/ \E x \in Row : Send(x)
  <2>1. sent' \in [Reminders -> Nat]
    BY <1>3, SentEffect DEF Query, Lookup, TypeInv, TypeOK
  <2>2. TypeOK'
    BY <1>3, <2>1, RunType DEF TypeInv, TypeOK, tables
  <2>3. RunConsistent'
    BY <1>3, RunType DEF TypeInv, TypeOK, RunConsistent, Query, Lookup, Send
  <2>4. BootConsistent'
    <3>1. up
      BY <1>3 DEF Query, Lookup, Send, TypeInv, TypeOK, BootConsistent
    <3> QED BY <1>3, <3>1, RunType DEF TypeInv, TypeOK, BootConsistent
  <2> QED BY <2>2, <2>3, <2>4 DEF TypeInv
<1>4. CASE Crash
  <2>0. crashes' \in 0..MaxCrashes /\ up' \in BOOLEAN
    <3>1. crashes' = crashes + 1 /\ crashes < MaxCrashes
      BY <1>4 DEF Crash
    <3>2. crashes' \in 0..MaxCrashes
      BY <3>1 DEF TypeInv, TypeOK
    <3> QED BY <1>4, <3>2 DEF Crash
  <2>1. TypeOK'
    BY <1>4, <2>0, WaitingType DEF Crash, TypeInv, TypeOK, tables
  <2>2. RunConsistent' /\ BootConsistent'
    BY <1>4, WaitingType DEF Crash, TypeInv, RunConsistent, BootConsistent
  <2> QED BY <2>1, <2>2 DEF TypeInv
<1>5. CASE Boot
  <2>1. TypeOK'
    BY <1>5 DEF Boot, TypeInv, TypeOK, tables
  <2>2. RunConsistent' /\ BootConsistent'
    BY <1>5 DEF Boot, TypeInv, TypeOK, RunConsistent, BootConsistent, Clock, Minutes
  <2> QED BY <2>1, <2>2 DEF TypeInv
<1>6. CASE \/ \E c \in Classes, d \in Dates : Reschedule(c, d)
           \/ \E r \in Regs, s \in Statuses : ChangeStatus(r, s)
           \/ \E p \in Parents : LinkOrUnlink(p)
  BY <1>6, TablesType DEF TypeInv, TypeOK, RunConsistent, BootConsistent
<1>7. CASE UNCHANGED vars
  BY <1>7 DEF vars, tables, TypeInv, TypeOK, RunConsistent, BootConsistent
<1> QED BY <1>1, <1>2, <1>3, <1>4, <1>5, <1>6, <1>7 DEF Next

LEMMA TypeInvInit == Init => TypeInv
<1> SUFFICES ASSUME Init PROVE TypeInv
  OBVIOUS
<1>1. up \in BOOLEAN /\ late \in BOOLEAN
  BY DEF Init
<1>2. clock \in Clock /\ boot \in Clock /\ fired = None /\ run \in RunState
  BY WaitingType DEF Init
<1>3. /\ date \in [Classes -> Dates] /\ status \in [Regs -> Statuses] /\ linked \subseteq Parents
      /\ sent \in [Reminders -> Nat] /\ begun \in [Minutes -> Nat] /\ crashes \in 0..MaxCrashes
  BY TimeAssumption DEF Init
<1>4. TypeOK
  BY <1>1, <1>2, <1>3 DEF TypeOK
<1> QED BY <1>4, WaitingType DEF Init, TypeInv, RunConsistent, BootConsistent, Clock, Minutes

LEMMA TypeInvariant == Spec => []TypeInv
  BY TypeInvInit, TypeInvStep, PTL DEF Spec

\* Every reachable state of ReminderLoop is well formed.
THEOREM TypeCorrect == Spec => []TypeOK
  BY TypeInvariant, PTL DEF TypeInv

-----------------------------------------------------------------------------
(* How many runs begin in a minute.                                        *)

\* The ticker has had its tick of this minute, or was made within it.
Passed == clock.at >= boot.at

Pending == IF fired = None THEN 0 ELSE 1

\* A minute has one tick of its own, and at most one buffered before it.
RunsBounded ==
    /\ \A m \in Minutes : begun[m] <= 2
    /\ \A m \in Minutes : m > clock.min => begun[m] = 0
    /\ up => begun[clock.min] + Pending <= 2
    /\ up /\ ~Passed => begun[clock.min] + Pending <= 1

\* A run that begins.
LEMMA BeginEffect ==
    ASSUME TypeInv, Begin
    PROVE  /\ fired # None /\ fired' = None
           /\ begun' = [m \in Minutes |-> IF m = clock.min THEN begun[m] + 1 ELSE begun[m]]
           /\ UNCHANGED <<clock, up, boot, tables, sent, crashes>>
<1>1. begun' = [begun EXCEPT ![clock.min] = @ + 1]
  BY DEF Begin
<1>2. begun \in [Minutes -> Nat]
  BY DEF TypeInv, TypeOK
<1>3. begun' = [m \in Minutes |-> IF m = clock.min THEN begun[m] + 1 ELSE begun[m]]
  BY <1>1, <1>2
<1> QED BY <1>3 DEF Begin

\* Every other step leaves the ticker and the count of runs alone.
LEMMA StepKinds ==
    ASSUME TypeInv, [Next]_vars
    PROVE  \/ Advance \/ Begin \/ Crash \/ Boot
           \/ UNCHANGED <<clock, up, boot, fired, begun, late>>
<1>1. CASE Query \/ Lookup \/ \E x \in Row : Send(x)
  BY <1>1, RunType
<1>2. CASE \/ \E c \in Classes, d \in Dates : Reschedule(c, d)
           \/ \E r \in Regs, s \in Statuses : ChangeStatus(r, s)
           \/ \E p \in Parents : LinkOrUnlink(p)
  BY <1>2, TablesType
<1>3. CASE UNCHANGED vars
  BY <1>3 DEF vars
<1> QED BY <1>1, <1>2, <1>3 DEF Next

LEMMA RunsBoundedStep == TypeInv /\ RunsBounded /\ [Next]_vars => RunsBounded'
<1> SUFFICES ASSUME TypeInv, RunsBounded, [Next]_vars PROVE RunsBounded'
  OBVIOUS
<1>0. begun \in [Minutes -> Nat] /\ Minutes \subseteq Nat
  BY DEF TypeInv, TypeOK, Minutes
<1>1. CASE Advance
  <2>1. UNCHANGED <<up, boot, begun>>
    BY <1>1 DEF Advance
  <2>2. CASE clock'.min = clock.min /\ clock'.at = clock.at + 1
    BY <1>0, <1>1, <2>1, <2>2, AdvanceEffect, ClockType DEF RunsBounded, Passed, Pending
  <2>3. CASE clock'.min = clock.min + 1 /\ clock'.at = 0
    <3>1. begun[clock'.min] = 0
      BY <1>0, <1>1, <2>3, AdvanceEffect, ClockType DEF RunsBounded
    <3> QED BY <1>0, <1>1, <2>1, <2>3, <3>1, AdvanceEffect, ClockType
            DEF RunsBounded, Passed, Pending
  <2> QED BY <1>1, <2>2, <2>3, AdvanceEffect
<1>2. CASE Begin
  <2>1. up
    BY <1>2 DEF Begin
  <2> QED BY <1>0, <1>2, <2>1, BeginEffect, ClockType DEF RunsBounded, Passed, Pending
<1>3. CASE Crash
  BY <1>3 DEF Crash, RunsBounded
<1>4. CASE Boot
  <2>1. fired = None
    BY <1>4 DEF Boot, TypeInv, BootConsistent
  <2>2. UNCHANGED <<clock, fired, begun>> /\ boot' = clock
    BY <1>4 DEF Boot
  <2> QED BY <1>0, <2>1, <2>2, ClockType DEF RunsBounded, Passed, Pending
<1>5. CASE UNCHANGED <<clock, up, boot, fired, begun, late>>
  BY <1>5 DEF RunsBounded, Passed, Pending
<1> QED BY <1>1, <1>2, <1>3, <1>4, <1>5, StepKinds

LEMMA RunsBoundedInit == Init => RunsBounded
<1> SUFFICES ASSUME Init PROVE RunsBounded
  OBVIOUS
<1>1. \A m \in Minutes : begun[m] = 0
  BY DEF Init
<1>2. clock.min \in Minutes /\ fired = None
  BY DEF Init, Clock
<1> QED BY <1>1, <1>2 DEF RunsBounded, Pending

LEMMA RunsInvariant == Spec => []RunsBounded
  BY RunsBoundedInit, TypeInvariant, RunsBoundedStep, PTL DEF Spec

-----------------------------------------------------------------------------
(* How many reminders the runs of a minute send.                           *)

\* The run under way has yet to come to registration r for offset i.
ToSend(r, i) ==
    /\ run.pc # "wait"
    /\ i > run.i \/ (i = run.i /\ (run.pc = "query"
                                   \/ [reg |-> r, date |-> run.window + Offsets[i]] \in run.rows))

\* A reminder is sent, or about to be, by a run of the minute it is for.
SentBounded ==
    \A r \in Regs, i \in DOMAIN Offsets, d \in Dates :
        /\ d - Offsets[i] \notin Minutes => sent[<<r, i, d>>] = 0
        /\ d - Offsets[i] \in Minutes =>
             sent[<<r, i, d>>]
               + (IF ToSend(r, i) /\ run.window = d - Offsets[i] THEN 1 ELSE 0)
               <= begun[d - Offsets[i]]

\* A run comes to nothing twice.
LEMMA ToSendShrinks ==
    ASSUME TypeInv, NEW r \in Regs, NEW i \in DOMAIN Offsets,
           Query \/ Lookup \/ \E x \in Row : Send(x),
           ToSend(r, i)'
    PROVE  ToSend(r, i) /\ run'.window = run.window
<1>a. run.pc # "wait" /\ run \in RunState
  BY DEF Query, Lookup, Send, TypeInv, TypeOK
<1>0. i \in Nat /\ run.pc # "wait" /\ run \in RunState /\ run.i \in Nat
  BY <1>a, OffsetsList DEF TypeInv, RunConsistent
<1>1. run'.window = run.window
  BY RunType DEF ToSend
<1>2. CASE run' = NextOffset
  BY <1>0, <1>2, NextOffsetType DEF ToSend
<1>3. CASE Query /\ run' # NextOffset
  BY <1>0, <1>3 DEF Query, ToSend, RunState
<1>4. CASE Lookup /\ run' # NextOffset
  BY <1>0, <1>4 DEF Lookup, ToSend, RunState
<1>5. ASSUME NEW x \in Row, Send(x), run' # NextOffset PROVE ToSend(r, i)
  BY <1>0, <1>5 DEF Send, ToSend, RunState
<1> QED BY <1>1, <1>2, <1>3, <1>4, <1>5

\* A reminder that has been sent is behind the run.
LEMMA SentBehind ==
    ASSUME TypeInv, NEW x \in Row, Send(x), NEW r \in Regs, r = x.reg,
           NEW i \in DOMAIN Offsets, i = run.i
    PROVE  ToSend(r, i) /\ ~ToSend(r, i)'
<1>0. run.pc = "send" /\ run \in RunState /\ i \in Nat /\ run.i = i /\ x \in run.rows
  BY OffsetsList DEF Send, TypeInv, TypeOK
<1>1. x = [reg |-> r, date |-> run.window + Offsets[i]]
  BY SentEffect DEF Row
<1>2. CASE run' = NextOffset
  <2>1. run'.pc = "wait" \/ run'.i = i + 1
    BY <1>0, <1>2, NextOffsetType
  <2>2. CASE run'.pc = "wait"
    <3>1. ~ToSend(r, i)'
      BY <2>2 DEF ToSend
    <3> QED BY <1>0, <1>1, <3>1 DEF ToSend
  <2>3. CASE run'.i = i + 1
    <3>1. ~(i > run'.i) /\ i # run'.i
      BY <1>0, <2>3
    <3>2. ~ToSend(r, i)'
      BY <3>1 DEF ToSend
    <3> QED BY <1>0, <1>1, <3>2 DEF ToSend
  <2> QED BY <2>1, <2>2, <2>3
<1>3. CASE run' # NextOffset
  <2>1. run' = [run EXCEPT !.rows = @ \ {x}]
    BY <1>3 DEF Send
  <2>2. run'.pc = "send" /\ run'.i = run.i /\ run'.window = run.window /\ x \notin run'.rows
    BY <1>0, <2>1 DEF RunState
  <2>3. ~(i > run'.i)
    BY <1>0, <2>2
  <2> QED BY <1>0, <1>1, <2>2, <2>3 DEF ToSend
<1>4. ToSend(r, i)
  BY <1>0, <1>1 DEF ToSend
<1> QED BY <1>2, <1>3, <1>4

LEMMA SentBoundedStep == TypeInv /\ SentBounded /\ [Next]_vars => SentBounded'
<1> SUFFICES ASSUME TypeInv, SentBounded, [Next]_vars,
                    NEW r \in Regs, NEW i \in DOMAIN Offsets, NEW d \in Dates
             PROVE  /\ d - Offsets[i] \notin Minutes => sent'[<<r, i, d>>] = 0
                    /\ d - Offsets[i] \in Minutes =>
                         sent'[<<r, i, d>>]
                           + (IF ToSend(r, i)' /\ run'.window = d - Offsets[i] THEN 1 ELSE 0)
                           <= begun'[d - Offsets[i]]
  BY DEF SentBounded
<1> DEFINE w == d - Offsets[i]
           k == <<r, i, d>>
<1>0. /\ w \in Int /\ i \in Nat /\ d \in Int /\ Offsets[i] \in Nat
      /\ k \in Reminders /\ sent \in [Reminders -> Nat] /\ sent[k] \in Nat
      /\ begun \in [Minutes -> Nat]
      /\ w \in Minutes => begun[w] \in Nat
  BY OffsetsList, TimeAssumption DEF TypeInv, TypeOK, Reminders
<1>h. /\ w \notin Minutes => sent[k] = 0
      /\ w \in Minutes => sent[k] + (IF ToSend(r, i) /\ run.window = w THEN 1 ELSE 0) <= begun[w]
  BY DEF SentBounded
<1> HIDE DEF w, k
<1>1. CASE Begin
  <2>1. ~ToSend(r, i) /\ sent' = sent
    BY <1>1 DEF Begin, ToSend
  <2>2. run'.window = clock.min
    BY <1>1 DEF Begin
  <2>3. w \in Minutes => begun'[w] = IF w = clock.min THEN begun[w] + 1 ELSE begun[w]
    BY <1>1, BeginEffect
  <2> QED BY <1>0, <1>h, <2>1, <2>2, <2>3 DEF w, k
<1>2. CASE Query \/ Lookup
  <2>1. sent' = sent /\ begun' = begun
    BY <1>2 DEF Query, Lookup
  <2>2. ToSend(r, i)' => ToSend(r, i) /\ run'.window = run.window
    BY <1>2, ToSendShrinks
  <2> QED BY <1>0, <1>h, <2>1, <2>2 DEF w, k
<1>3. ASSUME NEW x \in Row, Send(x)
      PROVE  /\ w \notin Minutes => sent'[k] = 0
             /\ w \in Minutes =>
                  sent'[k] + (IF ToSend(r, i)' /\ run'.window = w THEN 1 ELSE 0) <= begun'[w]
  <2>1. begun' = begun
    BY <1>3 DEF Send
  <2>2. ToSend(r, i)' => ToSend(r, i) /\ run'.window = run.window
    BY <1>3, ToSendShrinks
  <2>3. CASE k = <<x.reg, run.i, x.date>>
    <3>1. x.reg = r /\ run.i = i /\ d = run.window + Offsets[i]
      BY <1>3, <2>3, SentEffect DEF k
    <3>2. run.window \in Minutes /\ run.window \in Int
      BY DEF TypeInv, TypeOK, RunState, Minutes
    <3>3. w = run.window
      BY <1>0, <3>1, <3>2 DEF w
    <3>4. sent'[k] = sent[k] + 1
      BY <1>0, <1>3, <2>3, SentEffect
    <3>5. ToSend(r, i) /\ ~ToSend(r, i)'
      BY <1>3, <3>1, SentBehind
    <3> QED BY <1>0, <1>h, <2>1, <3>2, <3>3, <3>4, <3>5
  <2>4. CASE k # <<x.reg, run.i, x.date>>
    <3>1. sent'[k] = sent[k]
      BY <1>0, <1>3, <2>4, SentEffect
    <3> QED BY <1>0, <1>h, <2>1, <2>2, <3>1
  <2> QED BY <2>3, <2>4
<1>4. CASE Crash
  <2>1. ~ToSend(r, i)' /\ sent' = sent /\ begun' = begun
    BY <1>4, WaitingType DEF Crash, ToSend
  <2> QED BY <1>0, <1>h, <2>1 DEF w, k
<1>5. CASE UNCHANGED <<run, sent, begun>>
  BY <1>h, <1>5 DEF ToSend, w, k
<1>6. CASE \/ \E c \in Classes, e \in Dates : Reschedule(c, e)
           \/ \E q \in Regs, s \in Statuses : ChangeStatus(q, s)
           \/ \E p \in Parents : LinkOrUnlink(p)
  BY <1>5, <1>6, TablesType
<1>7. CASE Advance \/ Boot \/ UNCHANGED vars
  BY <1>5, <1>7 DEF Advance, Boot, vars
<1> QED BY <1>1, <1>2, <1>3, <1>4, <1>6, <1>7 DEF Next, w, k

LEMMA SentBoundedInit == Init => SentBounded
<1> SUFFICES ASSUME Init, NEW r \in Regs, NEW i \in DOMAIN Offsets, NEW d \in Dates
             PROVE  /\ d - Offsets[i] \notin Minutes => sent[<<r, i, d>>] = 0
                    /\ d - Offsets[i] \in Minutes =>
                         sent[<<r, i, d>>]
                           + (IF ToSend(r, i) /\ run.window = d - Offsets[i] THEN 1 ELSE 0)
                           <= begun[d - Offsets[i]]
  BY DEF SentBounded
<1>1. sent[<<r, i, d>>] = 0
  BY DEF Init, Reminders
<1>2. ~ToSend(r, i)
  BY WaitingType DEF Init, ToSend
<1>3. d - Offsets[i] \in Minutes => begun[d - Offsets[i]] = 0
  BY DEF Init
<1> QED BY <1>1, <1>2, <1>3

LEMMA SentInvariant == Spec => []SentBounded
  BY SentBoundedInit, TypeInvariant, SentBoundedStep, PTL DEF Spec

\* What a family gets of one reminder is bounded by the runs of its minute.
LEMMA SentByRuns ==
    ASSUME TypeInv, SentBounded, NEW n \in Nat, \A m \in Minutes : begun[m] <= n
    PROVE  \A k \in Reminders : sent[k] <= n
<1> SUFFICES ASSUME NEW r \in Regs, NEW i \in DOMAIN Offsets, NEW d \in Dates
             PROVE  sent[<<r, i, d>>] <= n
  BY DEF Reminders
<1>1. sent[<<r, i, d>>] \in Nat
  BY DEF TypeInv, TypeOK, Reminders
<1>2. CASE d - Offsets[i] \notin Minutes
  BY <1>1, <1>2 DEF SentBounded
<1>3. CASE d - Offsets[i] \in Minutes
  <2>1. /\ begun[d - Offsets[i]] \in Nat /\ begun[d - Offsets[i]] <= n
        /\ sent[<<r, i, d>>] + (IF ToSend(r, i) /\ run.window = d - Offsets[i] THEN 1 ELSE 0)
             <= begun[d - Offsets[i]]
    BY <1>3 DEF SentBounded, TypeInv, TypeOK
  <2> QED BY <1>1, <2>1
<1> QED BY <1>2, <1>3

\* However slow the runs and however often the process restarts, nobody is
\* reminded three times of one date for one offset.
THEOREM NeverThreeTimes == Spec => []AtMostTwice
<1>1. TypeInv /\ SentBounded /\ RunsBounded => AtMostTwice
  BY SentByRuns DEF RunsBounded, AtMostTwice
<1> QED BY <1>1, TypeInvariant, SentInvariant, RunsInvariant, PTL

-----------------------------------------------------------------------------
(* As long as every run begins in the minute of its tick.                  *)

\* The tick of a minute starts the one run of that minute.
OneRun ==
    ~late =>
        /\ \A m \in Minutes : begun[m] <= 1
        /\ fired = clock.min => begun[clock.min] = 0 /\ Passed
        /\ up /\ begun[clock.min] = 1 => Passed
        /\ fired # None => fired <= clock.min

\* The minutes since the ticker was made have had their run, up to the one
\* whose tick is pending.
Covered ==
    up /\ ~late =>
        /\ fired = None =>
             \A m \in Minutes : boot.min < m /\ (m < clock.min \/ (m = clock.min /\ Passed))
                 => begun[m] = 1
        /\ fired # None =>
             /\ boot.min < fired
             /\ \A m \in Minutes : boot.min < m /\ m < fired => begun[m] = 1

LEMMA OneRunStep == TypeInv /\ RunsBounded /\ OneRun /\ [Next]_vars => OneRun'
<1> SUFFICES ASSUME TypeInv, RunsBounded, OneRun, [Next]_vars, ~late' PROVE OneRun'
  BY DEF OneRun
<1>0. begun \in [Minutes -> Nat] /\ Minutes \subseteq Nat /\ late \in BOOLEAN
  BY DEF TypeInv, TypeOK, Minutes
<1>1. CASE Advance
  <2>1. UNCHANGED <<up, boot, begun, late>>
    BY <1>1 DEF Advance
  <2>2. CASE clock'.min = clock.min /\ clock'.at = clock.at + 1
    BY <1>0, <1>1, <2>1, <2>2, AdvanceEffect, ClockType DEF OneRun, Passed
  <2>3. CASE clock'.min = clock.min + 1 /\ clock'.at = 0
    <3>1. begun[clock'.min] = 0
      BY <1>0, <1>1, <2>3, AdvanceEffect, ClockType DEF RunsBounded
    <3>2. None \notin Minutes
      BY TimeAssumption DEF Minutes
    <3>3. fired' = clock'.min => clock'.at = boot.at
      BY <1>1, <2>1, <2>3, <3>2, AdvanceEffect, ClockType DEF OneRun
    <3> QED BY <1>0, <1>1, <2>1, <2>3, <3>1, <3>3, AdvanceEffect, ClockType DEF OneRun, Passed
  <2> QED BY <1>1, <2>2, <2>3, AdvanceEffect
<1>2. CASE Begin
  <2>1. ~late /\ fired = clock.min
    BY <1>2 DEF Begin
  <2>2. begun[clock.min] = 0 /\ Passed
    BY <2>1 DEF OneRun
  <2>3. None \notin Minutes
    BY TimeAssumption DEF Minutes
  <2> QED BY <1>0, <1>2, <2>1, <2>2, <2>3, BeginEffect, ClockType DEF OneRun, Passed
<1>3. CASE Crash
  <2>1. fired' = None /\ None \notin Minutes /\ ~up'
    BY <1>3, TimeAssumption DEF Crash, Minutes
  <2>2. UNCHANGED <<clock, boot, begun, late>>
    BY <1>3 DEF Crash
  <2> QED BY <2>1, <2>2, ClockType DEF OneRun
<1>4. CASE Boot
  <2>1. fired = None /\ None \notin Minutes
    BY <1>4, TimeAssumption DEF Boot, TypeInv, BootConsistent, Minutes
  <2>2. UNCHANGED <<clock, fired, begun, late>> /\ boot' = clock
    BY <1>4 DEF Boot
  <2> QED BY <2>1, <2>2, ClockType DEF OneRun, Passed
<1>5. CASE UNCHANGED <<clock, up, boot, fired, begun, late>>
  BY <1>5 DEF OneRun, Passed
<1> QED BY <1>1, <1>2, <1>3, <1>4, <1>5, StepKinds

LEMMA OneRunInit == Init => OneRun
<1> SUFFICES ASSUME Init PROVE OneRun
  OBVIOUS
<1>1. \A m \in Minutes : begun[m] = 0
  BY DEF Init
<1>2. clock.min \in Minutes /\ fired = None /\ None \notin Minutes
  BY TimeAssumption DEF Init, Clock, Minutes
<1> QED BY <1>1, <1>2 DEF OneRun

LEMMA OneRunInvariant == Spec => []OneRun
  BY OneRunInit, TypeInvariant, RunsInvariant, OneRunStep, PTL DEF Spec

\* Nobody is reminded twice unless some run began in a later minute than its
\* tick: restarts and changes of the tables repeat nothing.
THEOREM OnceIfPunctual == Spec => []OnceUnlessLate
<1>1. TypeInv /\ SentBounded /\ OneRun => OnceUnlessLate
  BY SentByRuns DEF OneRun, OnceUnlessLate, NoDuplicates
<1> QED BY <1>1, TypeInvariant, SentInvariant, OneRunInvariant, PTL

LEMMA CoveredStep ==
    TypeInv /\ RunsBounded /\ OneRun /\ Covered /\ [Next]_vars => Covered'
<1> SUFFICES ASSUME TypeInv, RunsBounded, OneRun, Covered, [Next]_vars, up', ~late'
             PROVE  Covered'
  BY DEF Covered
<1>0. begun \in [Minutes -> Nat] /\ Minutes \subseteq Nat /\ None \notin Minutes
  BY TimeAssumption DEF TypeInv, TypeOK, Minutes
<1>1. CASE Advance
  <2>1. UNCHANGED <<up, boot, begun, late>>
    BY <1>1 DEF Advance
  <2>b. boot.min < clock.min \/ (boot.min = clock.min /\ boot.at <= clock.at)
    BY DEF TypeInv, BootConsistent
  <2>2. CASE fired # None
    BY <1>0, <1>1, <2>1, <2>2, AdvanceEffect, ClockType DEF Covered
  <2>3. CASE fired = None /\ clock'.min = clock.min /\ clock'.at = clock.at + 1
    BY <1>0, <1>1, <2>1, <2>b, <2>3, AdvanceEffect, ClockType DEF Covered, Passed
  <2>4. CASE fired = None /\ clock'.min = clock.min + 1 /\ clock'.at = 0
                          /\ clock.at = Instants - 1
    <3>1. Passed
      BY <2>4, ClockType DEF Passed
    <3> QED BY <1>0, <1>1, <2>1, <2>b, <2>4, <3>1, AdvanceEffect, ClockType DEF Covered, Passed
  <2> QED BY <1>1, <2>2, <2>3, <2>4, AdvanceEffect
<1>2. CASE Begin
  <2>1. ~late /\ fired = clock.min /\ up
    BY <1>2 DEF Begin
  <2>2. begun[clock.min] = 0
    BY <2>1 DEF OneRun
  <2> QED BY <1>0, <1>2, <2>1, <2>2, BeginEffect, ClockType DEF Covered, Passed
<1>3. CASE Crash
  BY <1>3 DEF Crash
<1>4. CASE Boot
  <2>1. fired = None
    BY <1>4 DEF Boot, TypeInv, BootConsistent
  <2>2. UNCHANGED <<clock, fired, begun>> /\ boot' = clock
    BY <1>4 DEF Boot
  <2> QED BY <1>0, <2>1, <2>2, ClockType DEF Covered
<1>5. CASE UNCHANGED <<clock, up, boot, fired, begun, late>>
  BY <1>5 DEF Covered, Passed
<1> QED BY <1>1, <1>2, <1>3, <1>4, <1>5, StepKinds

LEMMA CoveredInit == Init => Covered
<1> SUFFICES ASSUME Init PROVE Covered
  OBVIOUS
<1>1. boot = clock /\ clock.min \in Nat /\ fired = None
  BY DEF Init, Clock, Minutes
<1> QED BY <1>1 DEF Covered, Minutes

LEMMA CoveredInvariant == Spec => []Covered
  BY CoveredInit, TypeInvariant, RunsInvariant, OneRunInvariant, CoveredStep, PTL DEF Spec

\* As long as every run begins in the minute of its tick, the loop runs
\* exactly once in every minute after the one its process was started in.
THEOREM NoMinuteLost == Spec => []EveryMinuteOnce
<1>1. Covered => EveryMinuteOnce
  BY DEF Covered, EveryMinuteOnce
<1> QED BY <1>1, CoveredInvariant, PTL
=============================================================================

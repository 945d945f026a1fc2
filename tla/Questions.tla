------------------------------- MODULE Questions -------------------------------
(***************************************************************************)
(* The questions of a class, and the answers registrations give to them.   *)
(*                                                                         *)
(* A slot of Reqs is a browser and the goroutine that serves it, and an    *)
(* action is one GORM statement (a transaction is one statement).  Labels  *)
(* and positions are left out (pages order by id): a question is what it   *)
(* accepts.  The forms of the admin are those of templates/pages/admin,    *)
(* and what a template prefills is what an admin might have typed.         *)
(***************************************************************************)
EXTENDS Integers, FiniteSets

CONSTANTS
    Reqs,
    Options,        \* option lists of radio questions, sets of answers
    MaxQuestions,   \* bound: class questions ever created
    MaxRegs,        \* bound: registrations ever made
    MaxNew          \* bound: new rows in one form

ASSUME BoundsAssumption == MaxQuestions \in Nat /\ MaxRegs \in Nat /\ MaxNew \in Nat
ASSUME ReqsAssumption == IsFiniteSet(Reqs)

VARIABLES
    class,      \* the row of the class
    question,   \* table class_questions
    nextQ,      \* its AUTOINCREMENT
    reg,        \* the registrations for the class, with registration_answers
    nextReg,
    req,        \* what each goroutine is doing
    caught,     \* history: questions that changed while a request registers
    newer       \* history: those that changed then, or after the registration

tables == <<class, question, nextQ, reg, nextReg>>
history == <<caught, newer>>
vars == <<tables, req, history>>

Ids == 1..MaxQuestions
Regs == 1..MaxRegs
Rows == {"none", "live", "deleted"}

Answers == {"", "anything"} \cup UNION Options
Unasked == "unasked"

ASSUME OptionsAssumption == Unasked \notin UNION Options

\* A text question, and a radio question without options, takes any answer.
Question == [row : Rows, required : BOOLEAN, choices : Options \cup {{}}]
NoQuestion == [row |-> "none", required |-> FALSE, choices |-> {}]
Deleted == [NoQuestion EXCEPT !.row = "deleted"]
Unanswered == [k \in Ids |-> Unasked]
Registration == [row : BOOLEAN, answer : [Ids -> Answers \cup {Unasked}]]

\* rows are the questions in the rows of a form that are still to be taken, added
\* is how many rows without one follow them, and boxes how many values of
\* q_delete[] are left.
ReqState == [pc : {"idle", "ask", "class", "insert", "save", "rows", "write", "count",
                   "dropall", "dropclass"},
             answer : [Ids -> Answers \cup {Unasked}],
             rows : SUBSET Ids, added : 0..MaxNew, boxes : Nat, edit : BOOLEAN]

Idle == [pc |-> "idle", answer |-> Unanswered, rows |-> {}, added |-> 0, boxes |-> 0,
         edit |-> FALSE]

Init ==
    /\ class = "none"
    /\ question = [k \in Ids |-> NoQuestion] /\ nextQ = 1
    /\ reg = [r \in Regs |-> [row |-> FALSE, answer |-> Unanswered]]
    /\ nextReg = 1
    /\ req = [q \in Reqs |-> Idle]
    /\ caught = [q \in Reqs |-> {}]
    /\ newer = [r \in Regs |-> {}]

Become(q, s) == req' = [req EXCEPT ![q] = s]
At(q, pc) == req[q].pc = pc
Go(q, pc) == Become(q, [req[q] EXCEPT !.pc = pc])
Done(q) == Become(q, Idle)

Asked == {k \in Ids : question[k].row = "live"}

(***************************************************************************)
(* SelectClassSubmit: a class with questions sends the parent to their     *)
(* page, a class without takes the registration as it is.                  *)
(***************************************************************************)
Registering == {q \in Reqs : req[q].pc \in {"ask", "class", "insert"}}
RoomForReg == nextReg + Cardinality(Registering) <= MaxRegs

Select(q) ==
    /\ At(q, "idle") /\ class = "live" /\ RoomForReg
    /\ Go(q, "ask")
    /\ UNCHANGED <<tables, history>>

NoneRequired == \A k \in Asked : ~question[k].required
NoneAsked == Asked = {}

Ask(q) ==
    /\ At(q, "ask")
    /\ IF NoneAsked THEN Go(q, "insert") ELSE Done(q)
    /\ UNCHANGED <<tables, history>>

(***************************************************************************)
(* SelectClassConfirmSubmit loads the questions again and judges what the  *)
(* parent typed by them, whatever the page had asked.                      *)
(***************************************************************************)
Chosen(k, a) == question[k].choices # {} /\ a # "" => a \in question[k].choices
Accepted(k, a) == (question[k].required => a # "") /\ Chosen(k, a)

\* In a text field one word is as good as another.
Typed(k) == IF question[k].choices = {} THEN {"", "anything"} ELSE Answers

Confirm(q, form) ==
    /\ At(q, "idle") /\ RoomForReg
    /\ \A k \in Ids : IF k \in Asked THEN form[k] \in Typed(k) /\ Accepted(k, form[k])
                    ELSE form[k] = Unasked
    /\ Become(q, [Idle EXCEPT !.pc = "class", !.answer = form])
    /\ UNCHANGED <<tables, history>>

LoadClass(q) ==
    /\ At(q, "class")
    /\ IF class = "live" THEN Go(q, "insert") /\ UNCHANGED caught
       ELSE Done(q) /\ caught' = [caught EXCEPT ![q] = {}]
    /\ UNCHANGED <<tables, newer>>

\* The registration and its answers are one transaction.
Insert(q) ==
    /\ At(q, "insert")
    /\ reg' = [reg EXCEPT ![nextReg] = [@ EXCEPT !.row = TRUE, !.answer = req[q].answer]]
    /\ nextReg' = nextReg + 1
    /\ newer' = [newer EXCEPT ![nextReg] = caught[q]]
    /\ caught' = [caught EXCEPT ![q] = {}]
    /\ Done(q)
    /\ UNCHANGED <<class, question, nextQ>>

(***************************************************************************)
(* Writing a question.                                                     *)
(***************************************************************************)
Put(k, row) ==
    /\ question' = [question EXCEPT ![k] = row]
    /\ IF question[k] = row
       THEN UNCHANGED history
       ELSE /\ caught' = [q \in Reqs |->
                            IF req[q].pc \in {"class", "insert"} THEN caught[q] \cup {k} ELSE {}]
            /\ newer' = [r \in Regs |-> IF reg[r].row THEN newer[r] \cup {k} ELSE {}]

Asking(required, choices) == [row |-> "live", required |-> required, choices |-> choices]

\* The questions that the forms being taken may still create, by request and row.
Pending == {e \in Reqs \X (1..MaxNew) : e[2] <= req[e[1]].added}
RoomFor(n) == nextQ - 1 + Cardinality(Pending) + n <= MaxQuestions

\* AdminCreateClass: the class, and then a statement for every question.
CreateClass(q, n) ==
    /\ At(q, "idle") /\ class = "none" /\ RoomFor(n)
    /\ class' = "live"
    /\ IF n = 0 THEN Done(q)
       ELSE Become(q, [Idle EXCEPT !.pc = "rows", !.added = n])
    /\ UNCHANGED <<question, nextQ, reg, nextReg, history>>

\* AdminUpdateClass takes a form that AdminEditClassForm showed a while ago: its
\* rows are questions of that time, in the order of the page, and n that were
\* added.  It finds the class, saves it (an INSERT if it is gone), ...
Submit(q, shown, n, boxes) ==
    /\ At(q, "idle") /\ class = "live" /\ RoomFor(n)
    /\ boxes <= Cardinality(shown) + n
    /\ Become(q, [Idle EXCEPT !.pc = "save", !.rows = shown, !.added = n, !.boxes = boxes,
                              !.edit = TRUE])
    /\ UNCHANGED <<tables, history>>

Left(q) == Cardinality(req[q].rows) + req[q].added

SaveClass(q) ==
    /\ At(q, "save")
    /\ class' = "live"
    /\ IF Left(q) = 0 THEN Done(q) ELSE Go(q, "rows")
    /\ UNCHANGED <<question, nextQ, reg, nextReg, history>>

\* ... and takes the rows one by one.  A browser sends the boxes "Delete this
\* question" that are ticked and no other: with n ticked, the first n rows of
\* the form are the ones that are deleted, whichever rows they are in.
Deletes(q) == req[q].boxes > 0

\* The first row left: the pages order by id.
Id(q) == CHOOSE k \in req[q].rows : \A j \in req[q].rows : k <= j
Rest(q) == IF req[q].rows = {} THEN [req[q] EXCEPT !.pc = "rows", !.added = @ - 1]
           ELSE [req[q] EXCEPT !.pc = "rows", !.rows = @ \ {Id(q)}]

NextRowUncounted(q) == IF Left(q) = 1 THEN Done(q) ELSE Become(q, Rest(q))

NextRow(q) ==
    IF Left(q) = 1 THEN Done(q)
    ELSE Become(q, [Rest(q) EXCEPT !.boxes = IF @ = 0 THEN 0 ELSE @ - 1])

FindQuestion(q) ==
    /\ At(q, "rows") /\ req[q].rows # {}
    /\ IF question[Id(q)].row = "live" THEN Go(q, "write") ELSE NextRow(q)
    /\ UNCHANGED <<tables, history>>

DropQuestion(q) ==
    /\ At(q, "write") /\ Deletes(q)
    /\ question' = [question EXCEPT ![Id(q)] = Deleted]
    /\ NextRow(q)
    /\ UNCHANGED <<class, nextQ, reg, nextReg, history>>

SaveQuestion(q, required, choices) ==
    /\ At(q, "write") /\ ~Deletes(q)
    /\ Put(Id(q), Asking(required, choices))
    /\ NextRow(q)
    /\ UNCHANGED <<class, nextQ, reg, nextReg>>

\* The box "Required" of a row added to an edited class has no index, and is
\* not looked at.
AddQuestion(q, required, choices) ==
    /\ At(q, "rows") /\ req[q].rows = {}
    /\ required => ~req[q].edit
    /\ IF Deletes(q)
       THEN UNCHANGED <<question, nextQ, history>>
       ELSE /\ Put(nextQ, Asking(required, choices))
            /\ nextQ' = nextQ + 1
    /\ NextRow(q)
    /\ UNCHANGED <<class, reg, nextReg>>

\* AdminDeleteClass: find, count, delete the questions, delete the class.
FindClass(q) ==
    /\ At(q, "idle") /\ class = "live"
    /\ Go(q, "count")
    /\ UNCHANGED <<tables, history>>

\* A registration of the class may have been canceled, and then it does not count.
CountRoster(q) ==
    /\ At(q, "count")
    /\ \/ Go(q, "dropall")
       \/ nextReg > 1 /\ Done(q)
    /\ UNCHANGED <<tables, history>>

DropQuestions(q) ==
    /\ At(q, "dropall")
    /\ question' = [k \in Ids |-> IF k \in Asked THEN Deleted ELSE question[k]]
    /\ Go(q, "dropclass")
    /\ UNCHANGED <<class, nextQ, reg, nextReg, history>>

DropClass(q) ==
    /\ At(q, "dropclass")
    /\ class' = "deleted"
    /\ Done(q)
    /\ UNCHANGED <<question, nextQ, reg, nextReg, history>>

Register(q) ==
    \/ Select(q) \/ Ask(q) \/ LoadClass(q) \/ Insert(q)
    \/ \E form \in [Ids -> Answers \cup {Unasked}] : Confirm(q, form)

EditClass(q) ==
    \/ SaveClass(q) \/ FindQuestion(q) \/ DropQuestion(q)
    \/ \E required \in BOOLEAN, choices \in Options \cup {{}} :
          SaveQuestion(q, required, choices) \/ AddQuestion(q, required, choices)
    \/ FindClass(q) \/ CountRoster(q) \/ DropQuestions(q) \/ DropClass(q)
    \/ \E n \in 0..MaxNew :
          \/ CreateClass(q, n)
          \/ \E shown \in SUBSET (1 .. nextQ - 1), boxes \in 0 .. MaxQuestions + n :
                Submit(q, shown, n, boxes)

Next == \E q \in Reqs : Register(q) \/ EditClass(q)

Spec == Init /\ [][Next]_vars

-----------------------------------------------------------------------------
(***************************************************************************)
(* Properties.                                                             *)
(***************************************************************************)

\* Every table row and local variable is well formed.
TypeOK ==
    /\ class \in Rows
    /\ question \in [Ids -> Question] /\ nextQ \in 1 .. MaxQuestions + 1
    /\ reg \in [Regs -> Registration] /\ nextReg \in 1 .. MaxRegs + 1
    /\ req \in [Reqs -> ReqState] /\ \A q \in Reqs : req[q].boxes <= Left(q)

\* "Load questions to validate": a registration has answered every question
\* of its class, and as the question demands, unless the question is newer
\* than the registration, or changed while the registration was being made.
AnswersFit ==
    \A r \in Regs, k \in Asked :
        reg[r].row /\ k \notin newer[r] =>
            reg[r].answer[k] # Unasked /\ Accepted(k, reg[r].answer[k])
=============================================================================

------------------------------- MODULE Waitlist -------------------------------
(***************************************************************************)
(* What registration promises, free of requests, rows and statements: a    *)
(* class has a number of seats and one line of waiting children.  Whoever  *)
(* joins gets in line, whoever may sit is taken from the head of the line, *)
(* and no operation leaves a seat free while somebody stands in line.      *)
(***************************************************************************)
EXTENDS Integers, Sequences, FiniteSets, SequencesExt

CONSTANTS
    Classes,
    Tickets,    \* one per registration, never used twice at the same time
    Closed      \* in place of the seats of a class that is not offered: no number

VARIABLES
    seats,      \* seats[c]: how many, or Closed
    seated,     \* seated[c]: the tickets that hold a seat
    line        \* line[c]: the tickets that wait, the head of the line first

vars == <<seats, seated, line>>

Init ==
    /\ seats = [c \in Classes |-> Closed]
    /\ seated = [c \in Classes |-> {}]
    /\ line = [c \in Classes |-> <<>>]

InLine(c) == {line[c][i] : i \in DOMAIN line[c]}
Holders(c) == seated[c] \cup InLine(c)
Offered == {c \in Classes : seats[c] # Closed}

\* How many of a line of l can sit when s of n seats are taken.
CanSit(n, s, l) == IF n <= s THEN 0 ELSE IF n - s < l THEN n - s ELSE l

\* Class c ends up with n seats, where S already sit and Q stand in line: the
\* line moves up into what is free.
Settle(c, n, S, Q) ==
    LET k == CanSit(n, Cardinality(S), Len(Q))
    IN  /\ seats' = [seats EXCEPT ![c] = n]
        /\ seated' = [seated EXCEPT ![c] = S \cup {Q[i] : i \in 1..k}]
        /\ line' = [line EXCEPT ![c] = SubSeq(Q, k + 1, Len(Q))]

Open(c) == c \notin Offered /\ seats'[c] \in Nat /\ Settle(c, seats'[c], {}, <<>>)

Join(c, t) ==
    /\ c \in Offered
    /\ \A d \in Classes : t \notin Holders(d)
    /\ Settle(c, seats[c], seated[c], Append(line[c], t))

Leave(c, t) ==
    /\ c \in Offered
    /\ \/ t \in seated[c] /\ Settle(c, seats[c], seated[c] \ {t}, line[c])
       \/ \E i \in DOMAIN line[c] :
             line[c][i] = t /\ Settle(c, seats[c], seated[c], RemoveAt(line[c], i))

Resize(c) ==
    /\ c \in Offered
    /\ seats'[c] \in Nat
    /\ Settle(c, seats'[c], seated[c], line[c])

Close(c) ==
    /\ c \in Offered
    /\ Holders(c) = {}
    /\ seats' = [seats EXCEPT ![c] = Closed]
    /\ UNCHANGED <<seated, line>>

Next ==
    \E c \in Classes :
        \/ Open(c) \/ Resize(c) \/ Close(c)
        \/ \E t \in Tickets : Join(c, t) \/ Leave(c, t)

Spec == Init /\ [][Next]_vars
=============================================================================

----------------------------- MODULE WaitlistRank -----------------------------
(***************************************************************************)
(* The rank that three pages show a waiting parent (admin_roster.go,       *)
(* register.go, my.go), each by a query of its own, over the tables of     *)
(* Enrollment.                                                             *)
(***************************************************************************)
EXTENDS Enrollment

\* The rank of a waiting row: its place when the waitlist of the class is read
\* oldest first (the children of the waitlist need not exist).  The rows are
\* listed newest first, which is where the rank once came from.
RankListed(r) ==
    LET rows == Waiting(reg, reg[r].class)
        last == Cardinality(rows)
    IN  CHOOSE i \in 1..last : OldestFirst(rows)[last + 1 - i] = r

RankOnRoster(r) ==
    LET queue == OldestFirst(Waiting(reg, reg[r].class))
    IN  CHOOSE i \in DOMAIN queue : queue[i] = r

\* The page that answers a registration, and the page behind its QR code.
RankOnDone(r) == Cardinality({s \in Waiting(reg, reg[r].class) : s < r \/ s = r})
RankOnQR(r) == Cardinality({s \in Waiting(reg, reg[r].class) : s <= r})

-----------------------------------------------------------------------------
(***************************************************************************)
(* Properties.                                                             *)
(***************************************************************************)

\* The rank a waiting parent is shown is the number that must leave the waitlist,
\* the parent's own child included: a step that promotes a registration takes
\* off the waitlist exactly those that all three pages ranked before it.
RankPredictsPromotion ==
    [][\A c \in Classes :
         LET left == {r \in Waiting(reg, c) : reg'[r].status # "waitlisted"}
         IN  \A r \in left : reg'[r].status = "confirmed" =>
                LET n == Cardinality({s \in left : s <= r})
                IN  RankOnRoster(r) = n /\ RankOnDone(r) = n /\ RankOnQR(r) = n]_vars
=============================================================================

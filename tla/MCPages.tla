------------------------------- MODULE MCPages -------------------------------
(* Model-checking instances of FamilySeats, and of what Pages shows of it. *)
EXTENDS Pages, TLC

CONSTANTS k1, k2, p1, p2

\* Two families of one child each, which are interchangeable, as requests are.
OneEach == (k1 :> p1) @@ (k2 :> p2)
FamiliesSwapped == (k1 :> k2) @@ (k2 :> k1) @@ (p1 :> p2) @@ (p2 :> p1)
Interchangeable == Permutations(Reqs) \cup {FamiliesSwapped}
=============================================================================

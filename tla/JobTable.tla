----------------------------- MODULE JobTable -----------------------------
(***************************************************************************)
(* What ingestion promises of the jobs table.                              *)
(*                                                                         *)
(* Postings are added and never removed or added twice, and a posting is   *)
(* counted as new (new_saved, total_new) at most once by all the runs      *)
(* there ever are, and only if it is in the table.  The counts may fall    *)
(* short: a row whose insert was committed but not confirmed is counted by *)
(* nobody.  Ingestion implements it.                                       *)
(***************************************************************************)
EXTENDS Naturals

CONSTANT Postings

VARIABLES
    table,     \* how many rows a posting has
    counted    \* how often it has been counted as new

Init ==
    /\ table = [p \in Postings |-> 0]
    /\ counted = [p \in Postings |-> 0]

Plus(f, S) == [p \in Postings |-> IF p \in S THEN f[p] + 1 ELSE f[p]]

\* A statement stores the postings S; the client learns of those in C.
Add(S, C) ==
    /\ \A p \in S : table[p] = 0
    /\ table' = Plus(table, S)
    /\ \A p \in C : counted[p] = 0 /\ table'[p] = 1
    /\ counted' = Plus(counted, C)

Next == \E S, C \in SUBSET Postings : Add(S, C)

Spec == Init /\ [][Next]_<<table, counted>>
=============================================================================

-------------------------- MODULE MCApplications --------------------------
(* The application of one pair, on a small instance.                       *)
EXTENDS Applications, TLC

CONSTANTS w1, w2

RequestSymmetry == Permutations(Requests)
=============================================================================

---------------------------- MODULE MCDocuments ----------------------------
(* The generated documents of one pair, on a small instance.              *)
EXTENDS Documents, TLC

CONSTANTS w1, w2

RequestSymmetry == Permutations(Requests)
=============================================================================

-------------------------- MODULE MCOrganizations --------------------------
(* The members and invites of one organization, on a small instance.      *)
EXTENDS Organizations, TLC

CONSTANTS u1, u2, w1, w2

\* Users and request slots are interchangeable.
Symmetry == Permutations(Users) \cup Permutations(Requests)
=============================================================================

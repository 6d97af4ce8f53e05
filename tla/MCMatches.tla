----------------------------- MODULE MCMatches -----------------------------
(* A job of the start, one ingested later; the edited track drops the       *)
(* former.                                                                  *)
EXTENDS Matches, TLC

MCPassing == <<{"j1", "j2"}, {"j2"}>>
RunSymmetry == Permutations(Runs)
=============================================================================

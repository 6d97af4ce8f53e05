-------------------------- MODULE MCMatchingRuns --------------------------
(* TLC instance of MatchingRuns.                                           *)
EXTENDS MatchingRuns

CONSTANTS v1, v2

\* Two requests or runs at a time, killed and replaced by new ones.
MCTwo == {v1, v2}
=============================================================================

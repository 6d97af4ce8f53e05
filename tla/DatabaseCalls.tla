--------------------------- MODULE DatabaseCalls ---------------------------
(***************************************************************************)
(* What a caller of SupabaseClient sees of one database call.              *)
(*                                                                         *)
(* select, insert, update, delete and rpc all go through _request, which   *)
(* tries the HTTP request up to MaxAttempts times on transport errors and  *)
(* turns every other failure into a SupabaseError at once.  A transport    *)
(* error says nothing about whether the server has committed: a write may  *)
(* be applied once per attempt, and applied although the call raises.      *)
(* An attempt that is applied is applied before its caller goes on: what   *)
(* an attempt given up by its timeout does on the server after that is     *)
(* left out.                                                               *)
(***************************************************************************)
EXTENDS Naturals

CONSTANT MaxAttempts    \* tries of one database call (3 in the code)

ASSUME AttemptsAssumption == MaxAttempts \in Nat \ {0}

(* The outcomes of one attempt.                                            *)
(*   "ok"            the server committed and the response arrived         *)
(*   "reply_lost"    committed, then a transport error                     *)
(*   "request_lost"  a transport error, nothing committed                  *)
(*   "refused"       an HTTP error response: raised at once, no retry      *)
Outcomes == {"ok", "reply_lost", "request_lost", "refused"}
Committed(outcome) == outcome \in {"ok", "reply_lost"}

\* Mutant: a retry loop that never gives up.
MutantRetries(tries, outcome) == outcome \in {"reply_lost", "request_lost"}

\* Only transport errors are retried, and only MaxAttempts times in all:
\* tries attempts have failed before this one.
Retries(tries, outcome) ==
    /\ outcome \in {"reply_lost", "request_lost"}
    /\ tries + 1 < MaxAttempts
=============================================================================

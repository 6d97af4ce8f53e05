---------------------------- MODULE TrackedTask ----------------------------
(***************************************************************************)
(* What a row promises that a background task reports to.                  *)
(*                                                                         *)
(* matching_runs and cv_uploads are two tables with one protocol: a        *)
(* request inserts a row and starts the task, the task ends in             *)
(* mark_completed or, in its except block, in mark_failed, and clients     *)
(* poll the row.  A client may rely on this: a row is open first, it gets  *)
(* an outcome at most once, and what it has been told of a failure is      *)
(* final.  A success may be taken back once, because mark_completed is     *)
(* inside the try block and may be committed although it raises.  MatchingRuns *)
(* and CvUploads implement it.                                             *)
(***************************************************************************)
CONSTANT Tasks

VARIABLE status

Statuses == {"absent", "open", "completed", "failed"}

Init == status = [t \in Tasks |-> "absent"]

Move(t, from, to) ==
    /\ status[t] \in from
    /\ status' = [status EXCEPT ![t] = to]

Open(t) == Move(t, {"absent"}, "open")
Complete(t) == Move(t, {"open"}, "completed")
Fail(t) == Move(t, {"open", "completed"}, "failed")

Next == \E t \in Tasks : Open(t) \/ Complete(t) \/ Fail(t)

Spec == Init /\ [][Next]_status
=============================================================================

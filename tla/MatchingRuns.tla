--------------------------- MODULE MatchingRuns ---------------------------
(***************************************************************************)
(* Background matching runs of one CV track.                               *)
(*                                                                         *)
(* POST /tracks/{id}/match is served by a serverless invocation: it looks  *)
(* for a matching_runs row that is still 'running' (reaping it when it is  *)
(* stale), answers 409 if there is one, otherwise inserts a row and, after *)
(* the response, runs the matching loop in the same invocation, recording  *)
(* progress and the outcome in the row.  The platform kills an invocation  *)
(* at maxDuration without running its except block.                        *)
(*                                                                         *)
(* Every database call goes through SupabaseClient._request (module        *)
(* DatabaseCalls): a write may be committed although the caller is told    *)
(* that it failed, and is made again when its response is lost.            *)
(*                                                                         *)
(* Rows of different tracks never meet, so one track is modelled.  Time is *)
(* kept as ages: of an invocation, and of a row since its started_at.      *)
(***************************************************************************)
EXTENDS DatabaseCalls

CONSTANTS
    Invocations,    \* the slots in which the platform runs invocations
    MaxRuns,        \* bound: rows the table can hold for this track
    MaxJobs,        \* bound: largest job snapshot a run can read
    ProgressEvery,  \* jobs between two progress writes (50 in the code)
    MaxDuration,    \* age at which the platform kills an invocation (300 s)
    StaleAfter      \* STALE_RUN_SECONDS (1200 s)

ASSUME BoundsAssumption ==
    /\ MaxRuns \in Nat /\ MaxJobs \in Nat
    /\ ProgressEvery \in Nat \ {0}

\* STALE_RUN_SECONDS is "set well above the function's maxDuration".
ASSUME DurationAssumption ==
    /\ MaxDuration \in Nat /\ StaleAfter \in Nat
    /\ MaxDuration <= StaleAfter

VARIABLES
    rows,     \* the track's matching_runs rows, in insertion order
    nextRow,  \* the row the next insert creates
    inv       \* what each invocation slot is doing

vars == <<rows, nextRow, inv>>

RunId == 1..MaxRuns
NoRun == 0
NoTotal == MaxJobs + 1    \* jobs_total is null until the first progress write
Capped == StaleAfter + 1  \* every age above StaleAfter is the same to the code

\* What error_message says: nothing, "Auto-reaped as stale ...", or str(exc)
\* of an exception of run_matching_for_track or of mark_completed.
Errors == {"none", "reaped", "matching", "completion"}

Row == [status : {"absent", "running", "completed", "failed"},
        error : Errors,
        processed : 0..MaxJobs,
        total : 0..NoTotal,
        age : 0..Capped]

\* The next thing an invocation does.  "idle": the slot runs nothing.
Steps == {"idle", "select", "reap", "insert", "start", "jobs", "progress",
          "complete", "fail"}

Invocation == [pc : Steps,
               tries : 0..MaxAttempts,         \* failed attempts of the call
               run : RunId \cup {NoRun},       \* reap: the row read as stale;
                                               \* from start on: its own row
               error : Errors,                 \* the exception being handled
               done : 0..MaxJobs,              \* jobs handled by the loop
               total : 0..MaxJobs,             \* size of its job snapshot
               age : 0..MaxDuration]

Idle == [pc |-> "idle", tries |-> 0, run |-> NoRun, error |-> "none",
         done |-> 0, total |-> 0, age |-> 0]

AbsentRow == [status |-> "absent", error |-> "none", processed |-> 0,
              total |-> NoTotal, age |-> 0]

TypeOK ==
    /\ rows \in [RunId -> Row]
    /\ nextRow \in 1..(MaxRuns + 1)
    /\ inv \in [Invocations -> Invocation]

Init ==
    /\ rows = [r \in RunId |-> AbsentRow]
    /\ nextRow = 1
    /\ inv = [v \in Invocations |-> Idle]

-----------------------------------------------------------------------------
(* The parts of the operations.                                            *)

Tried(v) == [inv EXCEPT ![v].tries = @ + 1]

\* The row get_running_run_for_track reads: status running, newest first,
\* limit 1.
NewestRunning(r) ==
    /\ rows[r].status = "running"
    /\ \A s \in RunId : rows[s].status = "running" => s <= r

\* Mutant: the newest row is read and its status tested afterwards.
MutantNoneRunning ==
    \A r \in RunId : rows[r].status = "running" =>
        \E s \in RunId : s > r /\ rows[s].status \notin {"absent", "running"}

NoneRunning == \A r \in RunId : rows[r].status # "running"

\* Mutants: a threshold that a live run can reach; no reaper at all, as before
\* orphaned rows were found in production.
MutantIsStale(r) == rows[r].age >= MaxDuration
MutantNeverStale(r) == FALSE

\* started_at is more than STALE_RUN_SECONDS ago.
IsStale(r) == rows[r].age > StaleAfter

\* MatchingRunRepository.mark_failed: unconditional on the current status.
MarkFailed(r, error) ==
    rows' = [rows EXCEPT ![r].status = "failed", ![r].error = error]

\* The invocation after an attempt: it goes on when acknowledged, tries again,
\* or handles the SupabaseError.
AfterCall(v, outcome, acknowledged, raised) ==
    IF outcome = "ok" THEN [inv EXCEPT ![v] = acknowledged]
    ELSE IF Retries(inv[v].tries, outcome) THEN Tried(v)
    ELSE [inv EXCEPT ![v] = raised]

At(v, pc) == [inv[v] EXCEPT !.pc = pc, !.tries = 0]
Failing(v, error) == [inv[v] EXCEPT !.pc = "fail", !.tries = 0, !.error = error]

-----------------------------------------------------------------------------
(* The request: trigger_matching.                                          *)

\* Authentication and _get_owned_track have passed; nothing is read yet.
Trigger(v) ==
    /\ inv[v].pc = "idle"
    /\ inv' = [inv EXCEPT ![v] = [Idle EXCEPT !.pc = "select"]]
    /\ UNCHANGED <<rows, nextRow>>

\* What the request does with the row it has read: create a run if there was
\* none, reap a stale one, answer 409 to a fresh one.
Admitted(v) ==
    \/ /\ NoneRunning
       /\ inv' = [inv EXCEPT ![v] = At(v, "insert")]
    \/ \E r \in RunId :
          /\ NewestRunning(r)
          /\ inv' = [inv EXCEPT ![v] =
                       IF IsStale(r)
                       THEN [At(v, "reap") EXCEPT !.run = r]
                       ELSE Idle]

\* get_running_run_for_track's SELECT.
SelectRunning(v) ==
    /\ inv[v].pc = "select"
    /\ \/ Admitted(v)
       \/ \E outcome \in {"request_lost", "refused"} :
             inv' = AfterCall(v, outcome, Idle, Idle)
    /\ UNCHANGED <<rows, nextRow>>

\* get_running_run_for_track's mark_failed of the row it read as stale; then
\* the track counts as free.
ReapStale(v) ==
    /\ inv[v].pc = "reap"
    /\ \E outcome \in Outcomes :
          /\ IF Committed(outcome)
             THEN MarkFailed(inv[v].run, "reaped")
             ELSE UNCHANGED rows
          /\ inv' = AfterCall(v, outcome,
                       [At(v, "insert") EXCEPT !.run = NoRun], Idle)
    /\ UNCHANGED nextRow

\* MatchingRunRepository.create_run: an attempt whose response is lost leaves
\* a row behind, and the retry inserts another.
CreateRun(v) ==
    /\ inv[v].pc = "insert"
    /\ \E outcome \in Outcomes :
          /\ IF Committed(outcome)
             THEN /\ nextRow <= MaxRuns
                  /\ rows' = [rows EXCEPT ![nextRow] =
                                [AbsentRow EXCEPT !.status = "running"]]
                  /\ nextRow' = nextRow + 1
             ELSE UNCHANGED <<rows, nextRow>>
          /\ inv' = AfterCall(v, outcome,
                       [At(v, "start") EXCEPT !.run = nextRow], Idle)

-----------------------------------------------------------------------------
(* The background task: run_matching_for_track_tracked.                    *)

\* run_matching_for_track up to its loop: profile, track and the snapshot of
\* the jobs table, or an exception (a missing row, a failed read).
StartMatching(v) ==
    /\ inv[v].pc = "start"
    /\ \/ \E n \in 0..MaxJobs :
             inv' = [inv EXCEPT ![v] =
                       [At(v, IF n = 0 THEN "complete" ELSE "jobs")
                           EXCEPT !.total = n, !.done = 0]]
       \/ inv' = [inv EXCEPT ![v] = Failing(v, "matching")]
    /\ UNCHANGED <<rows, nextRow>>

\* Mutant: reports by the zero-based index, and none after the last job.
MutantReportsProgress(done, total) == (done - 1) % ProgressEvery = 0

\* _on_progress: every ProgressEvery jobs, and after the last one.
ReportsProgress(done, total) == done % ProgressEvery = 0 \/ done = total

\* One iteration of the loop: the job fails stage 1, or is scored, upserted
\* and offered to auto-apply; the upsert may raise.
ProcessJob(v) ==
    /\ inv[v].pc = "jobs"
    /\ \/ LET done == inv[v].done + 1
          IN  inv' = [inv EXCEPT ![v] =
                        [At(v, IF ReportsProgress(done, inv[v].total) THEN "progress"
                               ELSE IF done = inv[v].total THEN "complete"
                               ELSE "jobs")
                            EXCEPT !.done = done]]
       \/ inv' = [inv EXCEPT ![v] = Failing(v, "matching")]
    /\ UNCHANGED <<rows, nextRow>>

\* MatchingRunRepository.update_progress, called inside run_matching_for_track:
\* its SupabaseError is the run's.
UpdateProgress(v) ==
    /\ inv[v].pc = "progress"
    /\ \E outcome \in Outcomes :
          /\ IF Committed(outcome)
             THEN rows' = [rows EXCEPT ![inv[v].run].processed = inv[v].done,
                                       ![inv[v].run].total = inv[v].total]
             ELSE UNCHANGED rows
          /\ inv' = AfterCall(v, outcome,
                       At(v, IF inv[v].done = inv[v].total THEN "complete"
                             ELSE "jobs"),
                       Failing(v, "matching"))
    /\ UNCHANGED nextRow

\* MatchingRunRepository.mark_completed, inside the same try block: its
\* SupabaseError is handled as a failed run.
MarkCompleted(v) ==
    /\ inv[v].pc = "complete"
    /\ \E outcome \in Outcomes :
          /\ IF Committed(outcome)
             THEN rows' = [rows EXCEPT ![inv[v].run].status = "completed"]
             ELSE UNCHANGED rows
          /\ inv' = AfterCall(v, outcome, Idle, Failing(v, "completion"))
    /\ UNCHANGED nextRow

\* The except block: mark_failed, then raise, whether or not that worked.
HandleFailure(v) ==
    /\ inv[v].pc = "fail"
    /\ \E outcome \in Outcomes :
          /\ IF Committed(outcome)
             THEN MarkFailed(inv[v].run, inv[v].error)
             ELSE UNCHANGED rows
          /\ inv' = AfterCall(v, outcome, Idle, Idle)
    /\ UNCHANGED nextRow

-----------------------------------------------------------------------------
(* The platform.                                                           *)

\* SIGTERM: no except block runs.  It comes at maxDuration at the latest, and
\* a crash may bring the same end earlier.
Kill(v) ==
    /\ inv[v].pc # "idle"
    /\ inv' = [inv EXCEPT ![v] = Idle]
    /\ UNCHANGED <<rows, nextRow>>

Expired(v) == inv[v].pc # "idle" /\ inv[v].age = MaxDuration

\* Time passes for every row and every invocation at once; no invocation
\* outlives maxDuration.
Tick ==
    /\ \A v \in Invocations : ~Expired(v)
    /\ inv' = [v \in Invocations |->
                 IF inv[v].pc = "idle" THEN inv[v]
                 ELSE [inv[v] EXCEPT !.age = @ + 1]]
    /\ rows' = [r \in RunId |->
                  IF rows[r].status = "running" /\ rows[r].age < Capped
                  THEN [rows[r] EXCEPT !.age = @ + 1]
                  ELSE rows[r]]
    /\ UNCHANGED nextRow

Work(v) ==
    \/ SelectRunning(v) \/ ReapStale(v) \/ CreateRun(v)
    \/ StartMatching(v) \/ ProcessJob(v) \/ UpdateProgress(v)
    \/ MarkCompleted(v) \/ HandleFailure(v)

Next ==
    \/ \E v \in Invocations : Trigger(v) \/ Work(v) \/ Kill(v)
    \/ Tick

Spec == Init /\ [][Next]_vars

-----------------------------------------------------------------------------
(* Safety.                                                                 *)

\* An invocation that owns a row: it has been given a run_id and is working.
Working(v) == inv[v].pc \in {"start", "jobs", "progress", "complete", "fail"}

\* As long as the matching loop of a run executes, its row says 'running' and
\* nobody has reaped it: the 409 check can see every live run, and
\* STALE_RUN_SECONDS never reaps a run "out from under itself".
LiveRunHoldsTheTrack ==
    \A v \in Invocations :
        /\ inv[v].pc \in {"start", "jobs", "progress"} =>
              rows[inv[v].run].status = "running"
        /\ Working(v) => rows[inv[v].run].error # "reaped"

\* A run reported as completed has reported all of its jobs: jobs_processed
\* equals jobs_total, or the jobs table was empty and neither was written.
Whole(r) ==
    \/ rows[r].processed = rows[r].total
    \/ rows[r].processed = 0 /\ rows[r].total = NoTotal
CompletedRunsAreWhole ==
    \A r \in RunId : rows[r].status = "completed" => Whole(r)

\* The request that gets past get_running_run_for_track (no 409) does so at a
\* moment at which no other run of the track is in its matching loop: runs can
\* only overlap when one is inserted between another request's check and its
\* own insert.
AdmissionSeesNoLiveRun ==
    [][\A v \in Invocations :
          inv[v].pc = "select" /\ inv'[v].pc \in {"insert", "reap"} =>
             \A w \in Invocations :
                inv[w].pc \notin {"start", "jobs", "progress"}]_vars

\* What a client polling match-status has been told is final, with one
\* exception.  A failed row never changes again: neither its own worker nor a
\* second request that reaps it late touches it.  A completed row changes only
\* when its own worker could not confirm mark_completed and ran the except
\* block: then the run turns failed although all of its matching was done.
ReportedOutcomeIsFinal ==
    [][\A r \in RunId :
          /\ rows[r].status = "failed" => rows'[r] = rows[r]
          /\ rows[r].status = "completed" =>
                \/ rows'[r] = rows[r]
                \/ rows'[r].status = "failed" /\ rows'[r].error = "completion"
       ]_vars

\* The claim of get_running_run_for_track's docstring, that the check closes
\* the root cause of overlapping runs.  Two requests that both pass the check
\* before either inserts refute it, and so does a create_run whose response
\* is lost.
AtMostOneRunning ==
    \A r, s \in RunId :
        rows[r].status = "running" /\ rows[s].status = "running" => r = s

\* A run is a tracked task: its row is open, then gets one outcome, as
\* TrackedTask says.  Reapers, workers and except blocks of several invocations
\* write the same rows without looking at their status.
Status(r) ==
    IF rows[r].status = "running" THEN "open" ELSE rows[r].status
Reported == [r \in RunId |-> Status(r)]
Task == INSTANCE TrackedTask WITH Tasks <- RunId, status <- Reported
RunsAreTrackedTasks == Task!Spec

-----------------------------------------------------------------------------
(* The inductive invariant behind the safety properties.                   *)

\* Each worker has a row of its own, which has been inserted.
Ownership ==
    \A v \in Invocations : Working(v) =>
        /\ inv[v].run \in RunId /\ inv[v].run < nextRow
        /\ \A w \in Invocations :
              Working(w) /\ v # w => inv[v].run # inv[w].run

\* The rows from nextRow on have not been inserted yet.
Unused == \A r \in RunId : rows[r].status = "absent" <=> r >= nextRow

\* A row is not older than its worker: started_at is taken inside the
\* invocation.
Ages == \A v \in Invocations :
    Working(v) => rows[inv[v].run].age <= inv[v].age

\* Of two running rows the one inserted first is at least as old.
Sorted ==
    \A r, s \in RunId :
        /\ rows[r].status = "running" /\ rows[s].status = "running"
        /\ r <= s
        => rows[s].age <= rows[r].age

\* A row about to be reaped is past the threshold, and nobody but another
\* reaper has written to it since it was read.
Reaping ==
    \A v \in Invocations : inv[v].pc = "reap" =>
        /\ inv[v].run \in RunId
        /\ rows[inv[v].run].age = Capped
        /\ \/ rows[inv[v].run].status = "running"
           \/ /\ rows[inv[v].run].status = "failed"
              /\ rows[inv[v].run].error = "reaped"

\* What a worker's own row says at each point of its run.
OwnRow(v) ==
    LET row == rows[inv[v].run] IN
    /\ inv[v].pc \in {"start", "jobs", "progress"} =>
          row.status = "running" /\ row.error = "none"
    /\ inv[v].pc = "complete" =>
          row.status \in {"running", "completed"} /\ row.error = "none"
    /\ inv[v].pc = "fail" =>
          /\ inv[v].error \in {"matching", "completion"}
          /\ \/ row.status = "running" /\ row.error = "none"
             \/ row.status = "failed" /\ row.error = inv[v].error
             \/ /\ row.status = "completed" /\ row.error = "none"
                /\ inv[v].error = "completion"
OwnRows == \A v \in Invocations : OwnRow(v)

\* How far the loop is, and that a run at mark_completed has reported it.
LoopAt(v) ==
    /\ inv[v].pc = "start" =>
          /\ rows[inv[v].run].processed = 0
          /\ rows[inv[v].run].total = NoTotal
    /\ inv[v].pc = "jobs" => inv[v].done < inv[v].total
    /\ inv[v].pc = "progress" => inv[v].done <= inv[v].total
    /\ inv[v].pc = "complete" => Whole(inv[v].run)
Loop == \A v \in Invocations : LoopAt(v)

IInv ==
    /\ TypeOK
    /\ Ownership
    /\ Unused
    /\ Ages
    /\ Sorted
    /\ Reaping
    /\ OwnRows
    /\ Loop
    /\ CompletedRunsAreWhole

-----------------------------------------------------------------------------
(* Liveness.                                                               *)

\* Invocations execute, the platform kills at maxDuration, clients keep asking
\* for runs, and a database call that is made again and again succeeds at some
\* time.  Nothing is assumed of kills and crashes: they may hit every run.
Fairness ==
    /\ WF_vars(Tick)
    /\ \A v \in Invocations :
          /\ WF_vars(Trigger(v))
          /\ WF_vars(Work(v))
          /\ WF_vars(Expired(v) /\ Kill(v))
          /\ SF_vars(SelectRunning(v) /\ Admitted(v))
          /\ SF_vars(ReapStale(v) /\ inv'[v].pc = "insert")

FairSpec == Spec /\ Fairness

\* Whatever row blocks the track with 409s, a request gets past the check again:
\* a row orphaned by a SIGTERM, or by a retried insert, is reaped or gives way.
\* Only the newest running row is ever looked at, so an older orphan may say
\* 'running' for ever, hidden by newer rows; it blocks nobody.
TrackIsFreed ==
    \A r \in RunId :
        NewestRunning(r) ~> \E v \in Invocations : inv[v].pc = "insert"
=============================================================================

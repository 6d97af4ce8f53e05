------------------------------ MODULE Matches ------------------------------
(***************************************************************************)
(* The match rows of one CV track, and the processes that write them.      *)
(*                                                                         *)
(* A matching run (of the API or of scripts/run_matching.py, which knows   *)
(* nothing of matching_runs) reads the track, then the jobs table page by  *)
(* page, and upserts a match for every job that passes Stage 1: a SELECT,  *)
(* then an UPDATE by id or an INSERT.  scripts/cleanup_stale_matches.py    *)
(* and scripts/backfill_match_rationales.py read the jobs first, then the  *)
(* track and its matches, and delete the stale ones or write rationales.   *)
(* Meanwhile ingestion adds jobs and the candidate edits the track.        *)
(*                                                                         *)
(* Nothing is locked: a run may abort because another one inserted its     *)
(* row first, or because cleanup deleted the row it was about to update.   *)
(* Updates and deletes are by id and repeat harmlessly; an insert whose    *)
(* response is lost is refused when it is repeated.                        *)
(***************************************************************************)
EXTENDS DatabaseCalls, Paging

CONSTANTS
    Jobs, FirstJobs,   \* all jobs; those ingested before the start
    Passing,           \* the jobs that pass Stage 1, per version of the track
    Runs, Cleanups, Backfills,    \* the processes
    MaxRows,           \* bound: rows ever inserted
    MaxFaults          \* bound: lost or failed calls and killed processes

ASSUME MatchesAssumption ==
    /\ FirstJobs \subseteq Jobs /\ IsFiniteSet(FirstJobs)
    /\ MaxRows \in Nat /\ MaxFaults \in Nat /\ 1 \in DOMAIN Passing
    /\ \A v \in DOMAIN Passing : v \in Nat \ {0} /\ Passing[v] \subseteq Jobs
    /\ Runs \cap Cleanups = {} /\ (Runs \cup Cleanups) \cap Backfills = {}

VARIABLES
    jobs,      \* the jobs table
    track,     \* version of the track
    rows,      \* user_job_matches of the track
    nextId,    \* the id of the next row
    proc,      \* what each process is doing
    faults     \* failures so far

vars == <<jobs, track, rows, nextId, proc, faults>>

Processes == Runs \cup Cleanups \cup Backfills
Versions == DOMAIN Passing

\* scored: the version of the track the score was computed with.
MatchRow == [id : 1..MaxRows, job : Jobs, scored : Versions, rationale : BOOLEAN]

Process == [pc : {"idle", "track", "jobs", "matches", "loop", "write"},
            track : {0} \cup Versions,
            offset : Nat,
            read : SUBSET Jobs,        \* the jobs list_all returned
            todo : SUBSET Jobs,        \* run: jobs to score
            list : SUBSET MatchRow,    \* script: rows it still has to handle
            job : Jobs \cup {"none"},  \* run: the job being upserted
            found : 0..MaxRows,        \* run: its row, or 0
            tries : 0..MaxAttempts,
            before : SUBSET Jobs,      \* history of a cleanup: the table at its start
            deleted : SUBSET Jobs]     \* history of a run: matches deleted since

Idle == [pc |-> "idle", track |-> 0, offset |-> 0, read |-> {}, todo |-> {},
         list |-> {}, job |-> "none", found |-> 0, tries |-> 0,
         before |-> {}, deleted |-> {}]

\* The types.  The id found for a job is not kept for the next one.
TypeOK ==
    /\ jobs \in SUBSET Jobs /\ track \in Versions
    /\ rows \in SUBSET MatchRow /\ nextId \in 1..(MaxRows + 1)
    /\ proc \in [Processes -> Process] /\ faults \in 0..MaxFaults
    /\ \A p \in Processes : proc[p].found # 0 => proc[p].pc = "write"

Init ==
    /\ jobs = FirstJobs /\ track = 1
    /\ rows = {} /\ nextId = 1
    /\ proc = [p \in Processes |-> Idle] /\ faults = 0

-----------------------------------------------------------------------------
(* Reading.                                                                *)

Become(p, x) == proc' = [proc EXCEPT ![p] = x]

\* A run begins with reading the track, a script with the jobs.
Start(p) ==
    /\ proc[p].pc = "idle"
    /\ Become(p, [Idle EXCEPT !.pc = "jobs",
                              !.track = IF p \in Runs THEN track ELSE 0,
                              !.before = IF p \in Cleanups THEN jobs ELSE {}])
    /\ UNCHANGED <<jobs, track, rows, nextId, faults>>

\* One page of list_all.  The jobs a run filters out take no step.
ReadJobs(p) ==
    LET x == proc[p]
    IN  /\ x.pc = "jobs"
        /\ \E page \in PagesAt(jobs, x.offset) :
              LET read == x.read \cup page
              IN  Become(p, IF ~LastPage(page)
                            THEN [x EXCEPT !.read = read, !.offset = @ + PageSize]
                            ELSE IF p \in Runs
                            THEN [x EXCEPT !.read = read, !.pc = "loop", !.offset = 0,
                                           !.todo = read \cap Passing[x.track]]
                            ELSE [x EXCEPT !.read = read, !.offset = 0,
                                           !.pc = "track"])
        /\ UNCHANGED <<jobs, track, rows, nextId, faults>>

ReadTrack(p) ==
    /\ proc[p].pc = "track"
    /\ Become(p, [proc[p] EXCEPT !.pc = "matches", !.track = track])
    /\ UNCHANGED <<jobs, track, rows, nextId, faults>>

\* Mutant: a job that fails for any of the tracks is stale for all.
MutantStale(x, m) ==
    m.job \notin x.read \/ \E v \in Versions : m.job \notin Passing[v]

\* cleanup: the job fails the filters, or is not among the jobs read.
Stale(x, m) == m.job \notin x.read \/ m.job \notin Passing[x.track]

\* backfill: no rationale yet, and the job is among the jobs read.  Which
\* scores reach min_score is left open.
Lacking(x, m) == ~m.rationale /\ m.job \in x.read

\* list_matches_for_track.
ListMatches(p) ==
    LET x == proc[p]
        chosen == {m \in rows : IF p \in Cleanups THEN Stale(x, m)
                                ELSE Lacking(x, m)}
    IN  /\ x.pc = "matches"
        /\ Become(p, [x EXCEPT !.pc = "loop", !.read = {}, !.list = chosen])
        /\ UNCHANGED <<jobs, track, rows, nextId, faults>>

-----------------------------------------------------------------------------
(* upsert_match.                                                           *)

\* Mutant: the id found for a job is taken for the next one.
MutantNextJob(x) == [x EXCEPT !.pc = "loop", !.todo = @ \ {x.job}, !.job = "none",
                              !.tries = 0]

NextJob(x) == [x EXCEPT !.pc = "loop", !.todo = @ \ {x.job}, !.job = "none",
                        !.found = 0, !.tries = 0]

GetMatch(r) ==
    LET x == proc[r]
    IN  /\ x.pc = "loop"
        /\ \E j \in x.todo, found \in {m.id : m \in rows} \cup {0} :
              /\ IF found = 0 THEN \A m \in rows : m.job # j
                 ELSE \E m \in rows : m.id = found /\ m.job = j
              /\ Become(r, [x EXCEPT !.pc = "write", !.job = j, !.found = found])
        /\ UNCHANGED <<jobs, track, rows, nextId, faults>>

\* Mutant: the update writes the ai_rationale it was not given.
MutantRescored(m, x) == [m EXCEPT !.scored = x.track, !.rationale = FALSE]

Rescored(m, x) == [m EXCEPT !.scored = x.track]

\* The update by id; without a row, rows[0] raises and the run aborts.
UpdateMatch(r) ==
    LET x == proc[r]
        hit == {m \in rows : m.id = x.found}
    IN  /\ x.pc = "write" /\ x.found # 0
        /\ rows' = (rows \ hit) \cup {Rescored(m, x) : m \in hit}
        /\ Become(r, IF hit = {} THEN Idle ELSE NextJob(x))
        /\ UNCHANGED <<jobs, track, nextId, faults>>

\* The unique index; and the bound.
Accepts(j) == nextId <= MaxRows /\ \A m \in rows : m.job # j

\* Mutant: an insert that fails is skipped, not raised.
MutantInsertFailed(x) == NextJob(x)

\* The SupabaseError of an insert aborts the run.
InsertFailed(x) == Idle

InsertMatch(r) ==
    LET x == proc[r]
        added == {[id |-> nextId, job |-> x.job, scored |-> x.track,
                   rationale |-> FALSE]}
    IN  /\ x.pc = "write" /\ x.found = 0
        /\ \E outcome \in Outcomes :
              /\ outcome = "ok" => Accepts(x.job)
              /\ IF Committed(outcome) /\ Accepts(x.job)
                 THEN rows' = rows \cup added /\ nextId' = nextId + 1
                 ELSE UNCHANGED <<rows, nextId>>
              /\ IF outcome = "ok" \/ (outcome = "refused" /\ ~Accepts(x.job))
                 THEN UNCHANGED faults
                 ELSE faults < MaxFaults /\ faults' = faults + 1
              /\ Become(r, IF outcome = "ok" THEN NextJob(x)
                           ELSE IF Retries(x.tries, outcome)
                           THEN [x EXCEPT !.tries = @ + 1]
                           ELSE InsertFailed(x))
        /\ UNCHANGED <<jobs, track>>

-----------------------------------------------------------------------------
(* The scripts, ends and surroundings.                                     *)

\* delete_match.  A row that is gone already is no error.
DeleteMatch(c) ==
    LET x == proc[c]
    IN  /\ x.pc = "loop"
        /\ \E m \in x.list :
              /\ rows' = {n \in rows : n.id # m.id}
              /\ proc' = [p \in Processes |->
                             IF p = c THEN [x EXCEPT !.list = @ \ {m}]
                             ELSE IF p \in Runs /\ proc[p].pc # "idle"
                             THEN [proc[p] EXCEPT !.deleted = @ \cup {m.job}]
                             ELSE proc[p]]
        /\ UNCHANGED <<jobs, track, nextId, faults>>

\* A rationale is generated and written by id; an LLMError skips the match;
\* without a row, rows[0] raises and the script ends.
WriteRationale(b) ==
    LET x == proc[b]
    IN  /\ x.pc = "loop"
        /\ \E m \in x.list :
              LET hit == {n \in rows : n.id = m.id}
                  rest == [x EXCEPT !.list = @ \ {m}]
              IN  \/ Become(b, rest) /\ UNCHANGED rows
                  \/ /\ rows' = (rows \ hit) \cup
                                {[n EXCEPT !.rationale = TRUE] : n \in hit}
                     /\ Become(b, IF hit = {} THEN Idle ELSE rest)
        /\ UNCHANGED <<jobs, track, nextId, faults>>

\* The loop is through.
Finish(p) ==
    /\ proc[p].pc = "loop" /\ proc[p].todo = {} /\ proc[p].list = {}
    /\ Become(p, Idle)
    /\ UNCHANGED <<jobs, track, rows, nextId, faults>>

\* A call fails for good, or the process is killed.
Abort(p) ==
    /\ proc[p].pc # "idle"
    /\ faults < MaxFaults /\ faults' = faults + 1
    /\ Become(p, Idle)
    /\ UNCHANGED <<jobs, track, rows, nextId>>

\* JobTable: jobs are only added.
Ingest ==
    /\ \E j \in Jobs \ jobs : jobs' = jobs \cup {j}
    /\ UNCHANGED <<track, rows, nextId, proc, faults>>

\* update_track.
EditTrack ==
    /\ track + 1 \in Versions /\ track' = track + 1
    /\ UNCHANGED <<jobs, rows, nextId, proc, faults>>

Next ==
    \/ \E p \in Processes : Start(p) \/ ReadJobs(p) \/ Finish(p) \/ Abort(p)
    \/ \E p \in Cleanups \cup Backfills : ReadTrack(p) \/ ListMatches(p)
    \/ \E r \in Runs : GetMatch(r) \/ UpdateMatch(r) \/ InsertMatch(r)
    \/ \E c \in Cleanups : DeleteMatch(c)
    \/ \E b \in Backfills : WriteRationale(b)
    \/ Ingest \/ EditTrack

Spec == Init /\ [][Next]_vars

-----------------------------------------------------------------------------
(* Properties.                                                             *)

\* Nothing but a deletion takes a rationale away: not a run that scores the
\* match again, whenever it read it.  Docstring of upsert_match ("would
\* silently null out every rationale").
RationaleSurvives ==
    [][\A m \in rows : m.rationale =>
          \A n \in rows' : n.id = m.id => n.rationale]_vars

\* A run that has handled a job leaves one match for it, although upsert_match
\* is two calls, and whatever other runs, failures and retries did, unless a
\* cleanup deleted it meanwhile: no job of a run that completes is silently
\* unmatched (the migration 0007 bug) or matched twice (docstring of
\* get_match).
HandledJobsAreMatched ==
    \A r \in Runs : LET x == proc[r] IN
        x.pc \in {"loop", "write"} =>
            \A j \in (x.read \cap Passing[x.track]) \ (x.todo \cup x.deleted) :
                \E m \in rows : {n \in rows : n.job = j} = {m}

\* While the jobs fit into a page, a cleanup deletes no match whose job passes
\* the track it read, unless the job was ingested after the cleanup had
\* started: it then takes the job for deleted and the match for stale.
\* Docstring of cleanup_stale_matches.
CleanupDeletesStaleOrUnseen ==
    [][Cardinality(jobs) <= PageSize =>
        \A m \in rows : (\A n \in rows' : n.id # m.id) =>
            \E c \in Cleanups :
                m.job \in Passing[proc[c].track] => m.job \notin proc[c].before]_vars

-----------------------------------------------------------------------------
(* The inductive invariant behind them.                                    *)

\* An id is never given twice, and the unique index holds.
RowsAreDistinct ==
    /\ \A m, n \in rows : m.id = n.id \/ m.job = n.job => m = n
    /\ \A m \in rows : m.id < nextId

\* The row with this id, if there still is one, is that of this job.
Means(id, j) == id < nextId /\ \A m \in rows : m.id = id => m.job = j

\* What a process remembers of the rows may be gone, but not another's.
Remembers(x) ==
    /\ \A m \in x.list : Means(m.id, m.job)
    /\ x.pc = "write" => x.job \in x.todo /\ Means(x.found, x.job)

\* The jobs a run is through with have a match, unless it was deleted.
MatchesItsJobs(x) ==
    /\ x.pc # "idle" => x.track \in Versions
    /\ x.pc \in {"loop", "write"} =>
          \A j \in (x.read \cap Passing[x.track]) \ (x.todo \cup x.deleted) :
             \E m \in rows : m.job = j

\* What a cleanup has read, if the jobs fit into a page: all jobs there were
\* when it started, with its first page.
KnowsTheTable(x) ==
    /\ x.before \subseteq jobs
    /\ x.pc \in {"track", "matches"} \/ (x.pc = "jobs" /\ x.offset > 0)
          => x.before \subseteq x.read
    /\ x.pc = "loop" =>
          \A m \in x.list : m.job \in Passing[x.track] => m.job \notin x.before

IInv ==
    /\ TypeOK /\ IsFiniteSet(jobs)
    /\ RowsAreDistinct
    /\ \A p \in Processes : Remembers(proc[p])
    /\ \A r \in Runs : MatchesItsJobs(proc[r])
    /\ Cardinality(jobs) <= PageSize =>
          \A c \in Cleanups : KnowsTheTable(proc[c])
=============================================================================

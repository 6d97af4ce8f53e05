# A verification project for the ElitePro job platform

TLA+ modules for the parts of the platform where several actors meet on the same
database rows, TLC runs that check them on small instances, and TLAPS proofs of
the main results for every value of the constants. Paths below are relative to
the repository; `api/`, `matching/`, ... are under `src/eliteprocareers/`.

## 1. The system

A FastAPI application runs as serverless invocations (`vercel.json`: at most
300 s each). It keeps no state of its own. Everything is in a Postgres database
behind PostgREST, and one HTTP call is one transaction: a handler that reads and
then writes makes two transactions, and other handlers run in between. The only
atomic units larger than a row are the SQL functions of `migrations/0017` and
`0018`. The only mutual exclusion is that of unique indexes and, in those
functions, row locks. Work that outlives the response (matching, CV parsing) is a
background task of the same invocation and dies with it.

### Components

**Database client** (`db/client.py`). No state. `select`, `insert`, `update`,
`delete`, `rpc` go through `_request`: three attempts on transport errors, an
exception at once on an HTTP error. Hard: a transport error does not say whether
the server has committed, and inserts are retried like reads. Correct if callers
cope with a write that happens twice, or happens and raises.

**Matching runs** (`api/routers/tracks.py`, `matching/matching_service.py`,
`matching/repository.py`). State: `matching_runs` rows (status, progress, start).
Operations: `trigger_matching` (409 if a run is running, reap a stale row, create
a row, start the background task), the loop with its progress writes,
`mark_completed`, `mark_failed`, polling. It reads tracks, profiles and jobs, writes
matches and calls auto-apply for each. Hard: check-then-insert by concurrent
requests, kills without clean-up, the reaper against a live run. Correct if a live
run is never taken for a dead one, dead ones stop blocking the track, a reported
outcome is final and a completed run is whole.

**Matches** (`matching/repository.py`, `scripts/run_matching.py`,
`scripts/cleanup_stale_matches.py`, `scripts/backfill_match_rationales.py`). State:
`user_job_matches`, unique per user, job and track. Operations: `upsert_match` (a
select, then an insert or an update by id), delete stale rows, write rationales. Hard:
the scripts know nothing of `matching_runs` and overlap everything; they work for
minutes with jobs and rows they read at their start. Correct if a job is matched once,
what a run has handled is matched, a rationale survives a new score, and a cleanup
deletes only stale rows.

**Generated documents** (`profiles/document_repository.py`, `generation/`,
`api/routers/documents.py`). State: `generated_documents`, never overwritten.
Operations: generate (LLM, then list versions, then insert the next one), link to
an application, read the latest. Hard: concurrent generations by the members of
an organization and by auto-apply. Correct if a history has no holes, and, says its
docstring, no two equal versions.

**Applications and auto-apply** (`matching/auto_apply.py`,
`profiles/application_repository.py`, `api/routers/applications.py`). State:
`applications`, unique per track and job. Operations: queue automatically with an
undo deadline, create by hand, advance when listed, cancel, move on. They start
generations and link documents. Hard: four kinds of actors, every write based on
an earlier read and conditional on nothing; nothing but a read moves time-outs on.
Correct if there is one application per pair, the undo window is respected, the
status and its date agree, a cancelled application stays cancelled, links stay.

**Organizations** (`organizations/`, `api/routers/organizations.py`,
`api/dependencies.py`, migrations 0007, 0011-0018). State: organizations, members
with a role, invites, assignments. Operations: create, leave and delete an
organization, accept an invite (SQL functions), remove and re-role members,
revoke, assign (REST). Hard: the last-owner rule is checked by count in both worlds,
with locks that do not exclude each other; invites are accepted, revoked and
expire concurrently; roles are read once per request. Correct if an organization
keeps an owner and an invite is used once.

**Job ingestion** (`jobs/ingestion_service.py`, `jobs/repository.py`) and
**connectors** (`jobs/connectors/`). State: `jobs`, unique per source and external id;
in a crawl the pages, the listings seen and extracted, and the ids reported. Operations:
crawl sources page by page, hand each finished source to `save_batch`, insert a batch,
fall back to single rows. Hard: overlapping and killed runs, batches refused because of
one row or committed without a reply, jobs delivered twice, pages read without an order
while rows are inserted. Correct if nothing found by a finished source is lost, nothing
is stored twice, and a crawl reaches the pages it should.

**CV uploads, profiles and style samples** (`parsing/`, `profiles/repository.py`,
`profiles/upload_repository.py`, `profiles/cover_letter_sample_repository.py`,
`api/routers/profile.py`). State: `cv_uploads`, the profile with its entries, the
global `skills`, one style sample per user. Operations: upload, parse in the background,
save each entry by lookup and write, mark the outcome. Hard: a parse that is killed or
fails half-way and is repeated, two parses at once, check-then-insert with and without an
index, five waits of up to 60 s for the LLM. Correct if a completed upload has saved
everything, entries are not duplicated, and an upload gets an outcome.

**Stage 1 filters** (`matching/filtering.py`, `matching/location.py`), **attribute
extraction and taxonomy** (`jobs/attribute_extraction.py`, `taxonomy/industries.py`) and
**tracks** (`profiles/track_repository.py`). Pure functions of track, job and home, over
data that changes under them: tracks are edited and migrated, attributes extracted with
the taxonomy of the day and again by a backfill. Hard: eight criteria that must treat
"unset" and "unknown" as no objection, two of which share the country; a location parser
of six tiers. Correct if wider preferences and richer jobs never do worse, and if what the
taxonomy drops is reported.

**LLM client** (`generation/llm_client.py`). Retries a rate-limited call up to five
times with waits of up to 60 s, against a platform limit of 300 s.

**Frontend** (`frontend/src`): the environment. It triggers runs, polls for a fixed time and offers the six candidate statuses; the endpoint takes all ten.

### How they interact

`tracks.py` starts a matching run, which reads the track, the profile (built by CV
uploads) and the jobs (filled by ingestion), filters (`JobFilters`), writes matches
(`Matches`) and calls auto-apply (`Applications`), which generates documents
(`Documents`). Members of an organization (`Organizations`) are the users who make these
requests at the same time. Only the database connects the parts; each module takes from
the others what their rows may look like (jobs are only added, see `JobTable`; a track has
versions; an application composes the actions of `Documents`).

## 2. Modules

| module | models | proofs |
| --- | --- | --- |
| `DatabaseCalls` | one attempt of `_request` and whether it is repeated | used by all |
| `TrackedTask` | abstract: what the row of a background task promises | |
| `MatchingRuns` | the runs of one track; implements `TrackedTask` (proved) | `MatchingRunsProofs` |
| `Documents` | the documents of one (track, job) pair | `DocumentsProofs` |
| `Applications` | the application of one pair; composes `Documents` | `ApplicationsProofs` |
| `Organizations` | the members and invites of one organization | `OrganizationsProofs` |
| `Paging` | reading a table page by page | used by `Ingestion`, `Matches` |
| `JobTable` | abstract: what the `jobs` table promises | |
| `Ingestion` | ingestion runs with their connectors; implements `JobTable` (proved) | `IngestionProofs` |
| `Matches` | the matches of one track and all that writes them | `MatchesProofs` |
| `CvUploads` | uploads and profile of one candidate; implements `TrackedTask` (proved) | `CvUploadsProofs` |
| `Locations`, `JobAttributes` | pure: country and remote flag of a text; attributes of a posting | used by `JobFilters` |
| `JobFilters` | Stage 1 over changing tracks, jobs and taxonomies | `JobFiltersProofs` |

`MC*` modules add the model values, the cfg files the bounds. The refinements are
`INSTANCE`s with a mapping: `MatchingRuns` and `CvUploads` map the status of their rows
(`"running"` or `"processing"` is `"open"`), `Ingestion` keeps the two variables of
`JobTable`. `Applications` is built from the actions of `Documents`, so that it implements
`Documents` by its shape; no property is made of that.

### DatabaseCalls
`Outcomes` has the four things that can happen to one attempt; `Retries` is the
loop of `_request`. A write in the other modules is an action per attempt: its row
changes if the attempt is `Committed`, and the caller goes on, tries again or
raises. So every write may take effect more than once, may take effect and raise,
and other actors run between two attempts. Reads are one atomic step (a read that
is retried is the read of its last attempt). An attempt that is applied is applied
before its caller goes on: what an attempt given up by its timeout does on the
server later is left out.

### MatchingRuns
`rows` is the table for one track (rows of different tracks do not meet), `inv`
what each invocation does: the request first (`select`, `reap`, `insert`), then in
the same invocation the background task (`start`, `jobs`, `progress`, `complete`,
`fail`). `SelectRunning` is the query of `get_running_run_for_track` together with
what its caller does with the answer; `ReapStale`, `CreateRun`, `UpdateProgress`,
`MarkCompleted`, `HandleFailure` are one attempt of one write; `StartMatching` reads
the job snapshot; `ProcessJob` is one iteration, including the exception its upsert
may raise. `Kill` is SIGTERM. `Tick` ages rows and invocations together; ages above
the threshold are one value. What happens to a match or an application in an iteration is
left to the other modules, and the text of error messages to three causes.

### Documents
`docs` are the rows of one pair, `gen` the generation each request has under way:
`list` (waiting for the LLM, then listing versions), `insert`, `saved` or `failed`.
`FailGeneration` covers the LLM, parsing its answer, and the select. `Leave` is the
caller taking the result, or being killed.

### Applications
`apps` are the `applications` rows of one pair, `req` what each request or background
run does on it, `clock` the time. Generations are those of `Documents`, whose
actions are conjuncts of this module's. `Apply ... LinkDocument` are `maybe_auto_apply`
and `create_application`; they share control points, and `kind` tells where they
differ (which documents, generating or looking for one, going on after an error).
`ListApplications`/`AdvanceExpired`, `CancelQueued`, `UpdateStatus` each read the row
and end in `WriteStatus`, the update by id. `Accepts` is the unique index of
migration 0010. Guards of `maybe_auto_apply` on the track's settings and the score are
the choice whether `Apply` happens; `undo_window_minutes` is chosen at the insert.

`UpdateStatus` takes every status, as `PATCH /applications/{id}` does: `ApplicationUpdateRequest` names no
subset, only the frontend does. A PATCH may therefore set `ready_to_submit` inside the undo window, or `queued` on an
application that was created by hand. The property about the window is one about what the code itself
advances (`AdvancesOnlyExpired`).

Left out: notes; `mark_needs_attention` and `increment_retry`, which nothing calls; the read-only
submission package. Behaviours of the model that no run singles out: a cancellation overwrites a status
written since it was checked, is accepted after the deadline until somebody lists the
track (only the status is checked), and two racing submissions write `applied_at`
twice; a document regenerated after applying is not linked, while the submission
package shows the latest version.

### Organizations
`members` and `invites` are the rows of one organization, which exists from `Init`
(`create_organization_with_owner`) until `Erase`; a deleted member row stays in the
sequence with the role `Gone`, so that `via` can say which invite led to it. `req` is
what each request does. A REST handler is one action per database call:
`ManageMember` (authentication and permission), `ReadTarget`, `CountOwners`,
`WriteMember`; `StartInvite`, `CreateInvite`; `StartRevoke`, `RevokeInvite`. A SQL
function is one action per statement that matters, and its locks are read off the
control points (`InviteLocked`, `MembershipLocked`): `BeginAccept`, `LockInvite`, `Join`;
`LockMembership`, `CountOwnersToLeave`, `Depart`; `CheckOwner`, `CheckAlone`, `Erase`. The
transactions are READ COMMITTED, the default of the database: each statement sees what
is committed when it starts. `AfterCall` repeats the call after a lost reply, for a
SQL function from its beginning. `CheckAlone` may also refuse for the reasons that lie outside
the module (the caller's only organization, career data). An invite never says
`expired`, because the exception raised after that update takes it back.

Left out: candidate assignments, name and `sharing_mode`, other organizations of the same
user and how a request chooses between them, e-mail addresses (an invite names its user).

`counted` keeps what a request based its decision on: the owners it counted, or the members
it saw, and `role` the role its target had when it read it. `LastOwnerLostOnlyToAStaleCount` says that the last
owner goes only by a request that counted two owners at least, one of them gone when it writes, or that did
not have to count because its target was no owner when it looked. It and `DeletionTakesOnlyLateJoiners` say with it what
the last-owner rule and the emptiness test are worth when requests overlap.

### Ingestion, Paging, JobTable
`run[r]` is what each process does; `pc` names the call it is before. `ReadIds` is a page of
`get_existing_external_ids`; `FetchPage`, `ExtractUrl`, `EndPage`, `ReturnJobs` are the
loops of `fetch_jobs` in the two crawlers, which differ only in their markup; `FetchBoard` is
`fetch_jobs` of Greenhouse and Lever for one target. `SaveBatch` is the callback
up to its insert, `InsertBatch` and `InsertRow` one attempt of the inserts of
`bulk_create`. A listing is data: `IdOf` gives the posting it yields, `Malformed` those
whose row the table refuses. `CrawlFails` is an exception that leaves `fetch_jobs`, `Kill`
the end of the process at any point. `Connectors` has the sources with their pages; one
without targets is skipped. `MaxFaults` bounds failures of sites, calls and processes, so
that "nothing has disturbed this crawl" can be said. A page of `Paging` is any set of rows
of the right size: the queries have no order.

Left out: attributes (see `JobFilters`), delays, and sites that change between two requests.

### Matches
`rows` are the matches of one track, `jobs` the jobs table, `track` the version of the
track; a version is known by the jobs that pass its filters (`Passing`). A process is a
matching run (of the API or the command line: they do the same to this table), a cleanup or
a rationale backfill. `Start`, `ReadJobs`, `ReadTrack`, `ListMatches` are the reads, `GetMatch` and
`UpdateMatch`/`InsertMatch` the two calls of `upsert_match`, `DeleteMatch` and
`WriteRationale` those of the scripts. An update without a row raises IndexError and ends its process; so
does an insert another process was quicker with. `Ingest` and `EditTrack` are the
surroundings. Scores are data: a row says with which version it was scored.

### CvUploads
`uploads` are the `cv_uploads` rows of one user, `stored` how many rows each profile entry
has, `task` what each invocation does. `Kind` says how an entry is stored; the seven kinds are
the seven ways the repository looks up and writes. `Find`, `Update`, `Insert` are those calls
for any entry, in the order of `save_parsed_profile`. `Parse` is the LLM call with its
loop on 429; `MarkCompleted` is inside the try block, `MarkFailed` in the except block. A
style sample is an entry that the request saves itself and `DeleteSample` removes. `Kill`
leaves the row as it is. `lost` remembers the uploads to which something happened that no handler can
answer: the invocation was killed, the reply of `create_upload` was lost (the retry inserts another row and nobody
works on the first), or the write of the failure failed itself.

Left out: what an update writes; `add_achievement` and `add_reference`, which nothing calls;
skills of other candidates that use the same catalog.

### Locations, JobAttributes, JobFilters
`Normalize` is `normalize_location` tier by tier; what `pycountry` and the tables say of a
segment of a text is the constant `About`, what the scans of a whole text find the constant `Whole`. `Extracted` are the two extractors,
`Canonical`/`Unmapped` is `normalize_categories`. `EmploymentType ... Location` are the eight
criteria of `filtering.py`, `Results` and `Passes` their composition, `Penalty` the industry
mismatch penalty of `scoring/embeddings.py`. Around them the state that moves: `EditTrack` (the fields
sent), `MigrateIndustries`, `MoveHome` (a new CV), `Ingest` (extract and save), `ExtendTaxonomy`
(a release), `StartBackfill`/`BackfillRow`/`EndBackfill`/`BackfillFails` (the two backfill scripts; their
queries name no order, so the rows come in any). What a backfill cannot map it collects (`met`) and prints after the
last row; one that fails before prints nothing, so `StaleIndustriesWereReported` rests on what ingestion logged. `places` holds the places
of all texts, parsed once: it is a variable only so that TLC does not parse them again in every state.

Left out: the state, city and confidence of a location, which no criterion reads; the detail texts; tracks
that change their name.

## 3. Runs

| run | states | bounds | shows |
| --- | --- | --- | --- |
| `matching_runs_safety` | 220 k | 2 invocations, 2 rows, up to 2 jobs, progress every 2, 2 attempts, `MaxDuration` 1 = `StaleAfter`; no symmetry, with fairness | `TypeOK`, `LiveRunHoldsTheTrack`, `CompletedRunsAreWhole`, `AdmissionSeesNoLiveRun`, `ReportedOutcomeIsFinal`, `TrackIsFreed` |
| `matching_runs_overlap` | violation | as above | `AtMostOneRunning` |
| `documents_safety` | 335 k | 2 requests, 2 types, 4 rows, 2 attempts | `TypeOK`, `VersionsHaveNoGaps` |
| `applications_safety` | 2.0 M | 2 requests, 2 documents, room for 2 applications, clock 1..2, window 1, 2 attempts, PATCH to `queued`, `ready_to_submit` or `submitted` | `TypeOK`, `OneApplicationPerPair`, `SubmittedIsDated`, `AdvancesOnlyExpired`, `LinksAreStable` |
| `applications_liveness` | 32 k | no documents, 1 attempt, PATCH to `queued` or `submitted` | `QueuedIsSettled` |
| `applications_resurrected` | violation | no documents | see findings |
| `organizations_safety` | 4.1 M | 2 requests, 2 users, 3 membership rows, 2 invites, roles owner and admin, 1 attempt | `TypeOK`, `OneMembershipPerUser`, `InviteUsedOnce`, `RevokedInvitesSeatNobody`, `LastOwnerLostOnlyToAStaleCount`, `DeletionTakesOnlyLateJoiners` |
| `organizations_owner` | violation | 2 requests, 2 membership rows, 1 invite, 3 roles | see findings |
| `ingestion` | 167 k | 2 runs; a crawler with 2 sources of 1 and 3 pages, an unwired connector, a board; 5 listings of 4 postings, one malformed; page limit 2, 2 rows per page, 2 attempts, 2 faults | `TypeOK`, `FinishedSourcesAreSaved`, `CrawlReachesItsPages`, `IngestionFillsJobTable` |
| `matches` | 6.3 M | 2 runs, a cleanup, a backfill; 2 jobs, one ingested later; 2 versions of the track; 2 rows, 2 attempts, 1 fault; runs symmetric | `TypeOK`, `HandledJobsAreMatched`, `RationaleSurvives`, `CleanupDeletesStaleOrUnseen` |
| `cv_uploads` | 194 k | 2 invocations, 2 uploads, 2 CVs (every kind; a repeated job), 1 wait for the LLM, 2 attempts, 2 faults; with fairness | `TypeOK`, `StoredOnce`, `CompletedIsSaved`, `UploadsAreTrackedTasks`, `UploadsEnd` |
| `job_filters` | 241 k | 2 jobs, 4 location texts, 3 raw postings (one broken), 2 homes, every preference with 2 values, 2 releases of the taxonomy, 2 edits | `TypeOK`, `OnlyMismatchesReject`, `WrittenCountryDecides`, `StaleIndustriesWereReported`, `WiderTrackNeverWorse`, `RicherJobNeverRejected` |

Why the bounds are enough. Every hazard here is a read of one actor, a write of
another and a write of the first: two actors suffice. Two attempts are the
smallest number with a retry (the code's third adds nothing that a second does not).
Two jobs with a progress write every two have a report that is not due and one that is,
one job a last one off the rhythm; an empty snapshot is included. Two rows are a
stale one and a new one, or the two rows of a duplicated insert; no property relies on the table being full
(`TrackIsFreed` also passes with three rows, one job and one attempt). The room for a
second application is there so that only the index keeps it out. Two users, two
invites and three membership rows are the least with which one user can be seated twice, by
two invites or, after a removal, by the same one. The crawler has the cases its comments
tell of: a source that starts with a page of another, a page past the limit, two listings of
one posting, a malformed one. The job texts have one of each tier that can disagree with another
("Georgia, CA"; a city; "Remote - UAE based"). In `matches` a second row for a job has room, so
that only the index keeps it out. Two failures are the least with which a retry and its
fallback both fail. Deadlock is
checked in every run: the systems here never stop. Where the bounds are exhausted (no room
for a row) an insert can only fail.

**Fairness.** `UploadsEnd` assumes only that an invocation that has been started is run (weak
fairness of its next step, whichever it is; it may be killed). Its right side asks for `completed` or `failed`, and
excuses only the uploads in `lost`. The other two assume that
invocations run, the platform kills at `maxDuration`, clients ask again and again (for a run; for a listing), and a
database call that is tried for ever gets through at some time. The first two are the platform's
contract; the third is the environment's, and the code depends on it: there is no
scheduler, reaping and advancing happen only inside requests. No assumption is
made that a particular request survives: `Kill` may hit each of them.

**Findings** (violation runs; the quoted lines are in `PROJECT.json`).
1. `AtMostOneRunning`: the 409 check does not close the race it was written for; two
   requests may both pass it. What does hold is `AdmissionSeesNoLiveRun`.
2. `CancelledNeverAdvances`: a listing revives an application cancelled meanwhile.
3. `OwnerRemains`: two overlapping removals, demotions or departures that both count
   two owners leave none. What does hold is `LastOwnerLostOnlyToAStaleCount`; in particular
   a request that runs alone leaves an owner.

**Seen while modelling, without a run of its own.**
- A PATCH may set `ready_to_submit` while the undo window is open
  (`api/routers/applications.py:188`), although the comment of `ApplicationStatus`
  (`profiles/models.py:369`) has it follow from the window. `AdvancesOnlyExpired` says who else may: nobody.
- A PATCH to `queued` on an application created by hand leaves it queued for ever: it has no `undo_deadline`, and
  `advance_expired_queued` passes it over. `QueuedIsSettled` is about those that have one.
- An orphaned run that is hidden by a newer one may say `running` for ever: `get_running_run_for_track` looks at
  the newest running row only (`matching/repository.py:298`), and each request that reaps that one
  adds another. Hence `TrackIsFreed` says that a request gets past the check again, not that every orphan is reaped.
- Auto-apply whose insert is committed without a reply takes its own row for somebody else's
  (`matching/auto_apply.py:76`) and generates no documents for it.
- With more than one page of jobs a snapshot may miss some (`jobs/repository.py:97` names no order), and a cleanup
  then deletes their matches; `CleanupDeletesStaleOrUnseen` is stated for one page.
- A malformed listing enters the reported ids before its insert fails (`jobs/ingestion_service.py:166`), so a good one
  of the same id that comes later in the run is skipped: an exception in `FinishedSourcesAreSaved`.
- Two concurrent generations of a document get the same version
  (`profiles/document_repository.py:35`; no index forbids it). What holds is `VersionsHaveNoGaps`.
- Who accepts an invite between the test for other members and the delete of
  `delete_organization` (`migrations/0018:114`) loses the membership at once. What holds is
  `DeletionTakesOnlyLateJoiners`.
- A cleanup takes the match of a job ingested after it read the jobs for that of a deleted job
  (`scripts/cleanup_stale_matches.py:55`): the exception in `CleanupDeletesStaleOrUnseen`.
- The docstring of `save_parsed_profile` (`parsing/pipeline.py:43`) says that list entries
  are appended without any dedup; the repository looks most of them up first (`StoredOnce`). Only an
  education without a degree and a project are still added each time.
- `filtering.py:11` and `profiles/models.py:177` call an unset preference non-restrictive. Clearing
  `preferred_countries` hands the decision to the home of the candidate, clearing
  `willing_to_relocate` rejects, and clearing `salary_currency` makes amounts of any currency
  comparable: the three exceptions in `OnlyMismatchesReject`.
- A `cv_uploads` row whose invocation is killed says `processing` for ever: there is no reaper like that
  of `matching_runs`. `UploadsEnd` says what holds without one.

## 4. Proofs

All for arbitrary constants (any number of actors, rows, retries, entries, jobs, preferences
and releases). What is assumed of them is named in the module that declares them:

- `MatchingRuns`, `Documents`, `Applications`: `MaxDuration <= StaleAfter` (300 s and the reaper's
  threshold), `ProgressEvery > 0`, windows in `Nat`; what a PATCH may set is any set of statuses, all ten included.
- `OrganizationBounds`: the roles of `permissions.py`, owner and admin among them.
- `IngestionAssumption`: a listing yields one posting; a board shows a target at once.
- `MatchesAssumption`: there are finitely many jobs at first; runs, cleanups and backfills are
  different processes.
- `UploadsAssumption`: a parsed CV has at least one entry (its profile) and no style sample.
- `AttemptsAssumption`, `PageAssumption`: a call is tried at least once, a page has at least one row.
- `LocationsAssumption`: the tables of the location parser are total, and a text has at least one segment.
- `JobFiltersAssumption`: preferences are taken from the vocabulary, the texts split into segments
  `About` knows, a release only adds entries to the taxonomy (its HOW TO EXTEND) and a mapping
  leads to industries of the list (its `_self_check`). `StaleIndustriesAreReported` and `RicherJobsStay` need the third: a
  release that took a category away would make both false.

TLC evaluates each of them on the run of its module. Each module has an inductive invariant
`IInv`; `InitIInv` and a lemma per action (`NextIInv` or the steps of `Inductive`) show
`Inductive == Spec => []IInv`, and the theorems are its consequences. TLC checked `IInv` on the
bounds of section 3 before it was proved; adding `INVARIANT IInv` to a cfg repeats that.

*MatchingRuns.* `LiveRunHoldsTheTrack` is not inductive. Why a live run cannot be
reaped: each worker has a row of its own (`Ownership`), the row is no older than the
worker (`Ages`), a worker's age is at most `MaxDuration <= StaleAfter`, and a row is
reaped only if read when older (`Reaping`). Why the check sees every live run:
it reads the newest running row, rows are ordered by age (`Sorted`), so if the newest is
stale all are. `OutcomeIsFinal` and `NoAdmissionDuringARun` are action properties
from the same invariant. `RunsImplementTrackedTask` shows with it that a step changes
the reported status of one row at most (`OneRowMoves`), and that change is a step of
`TrackedTask` (`StepIsTracked`). `OwnRow` and `LoopAt` say what a worker knows of its row at
each point, from which `CompletedIsWhole` follows.

*Documents.* A version about to be inserted has all its predecessors in the table
(`PendingVersions`); others may insert in between, which only adds versions.

*Applications.* What a request has read may be stale; `GoodRequest` says what of it
still holds: rows do not disappear, an `applied_at` once set stays set, a deadline
does not move and time does not run back, an insert is accepted only while
there is no row. `LinksStay` needs `OneApplicationPerPair`: an unconditional link can only
repeat itself. `NeverReadyEarly` is about a step: what is written as `ready_to_submit` was asked for by a PATCH, or by a
listing whose row had an expired deadline (`ReadyIsWritten` and `GoodRequest`); it holds whatever statuses
a PATCH may set.

*Organizations.* What a request has read may be stale, and `Sound` says what of it is not.
`HoldsInvite`: a transaction about to insert a membership has its invite pending under its lock; with
`LocksExclude` (no two at that point with one invite) and `InvitesAreSpent` (an invite that seated
somebody is pending no more) one invite gives one membership, also if the call is repeated after a
lost reply. `Decided`: who goes on to take an owner has counted more than one, who goes on to delete has seen nobody
else. From it the two action properties: if the last owner is lost, then by a request that counted at least two, so that
one of them is gone, or that read its target before it became the owner; whoever a deletion takes along was not seen. `ServedAloneAnOwnerRemains` completes the picture the run
`organizations_owner` begins: if there is at most one request (the theorem's hypothesis; requests
may still be killed, repeated and follow each other) the count is fresh until it is used
(`CountIsFresh`), and an owner remains. So the overlap is what breaks the rule, nothing else in the code.

*Ingestion.* `KnowsItsJobs` relates a run to the table: everything it has handed over is in its batch, in
the table, or a row the table refuses; and what it takes for existing is there. As rows
are only added, other runs disturb neither. `InsertBatch` and `InsertRow` keep it whether the attempt
is applied, refused or both raised and applied; this is `NothingIsLost`. `Follows` is the loop invariant of a
crawl without faults: at page n it has seen what the first n - 1 pages show, and what it has seen
is among its jobs; `Covered` is its result for a source. A page is skipped only after one that showed
nothing new. `IngestionImplementsJobTable` shows that each attempt of an insert is an `Add` of `JobTable`
(a lost reply adds rows and counts none) and everything else a stutter; that a posting is not counted twice
follows from `counted <= table` and the unique index.

*Matches.* `Remembers`: the ids a process has read are those of the jobs it believes, if the rows
are still there (`Means`: ids are never used again). `MatchesItsJobs`: a job a run is through with has a match, or it was
deleted since the run began. `RowsAreDistinct` is the unique index. `KnowsTheTable` is what a cleanup knows while the jobs
fit into a page: all jobs that were there when it started, so a match it lists as stale is of a job that
does not pass, or came later. Beyond a page it knows nothing of the kind, since pages have no order, and the
property says so.

*CvUploads.* `KeepsTrack`: of the entries of its CV, what is not stored is still to do; hence
`CompletedIsSaved`. `OwnsItsRow` and `OneOwner`: an upload's outcome is written by its own invocation,
and only from `processing`, with the exception of a confirmed `completed` that turns `failed` because its reply was
lost; this makes every step one of `TrackedTask`. `LookupIsFresh` is `StoredOnce` for keyed entries: without
overlaps and lost replies what a lookup did not find is not there when it is inserted.

*JobFilters.* No induction over requests here but over criteria: `PassesAdmits` shows that
`run_stage1_filters` lets a job through exactly if `Admits`, a conjunction of one "unset, unknown or in
agreement" per criterion. `ClearingAdmits`, `WideningAdmits`, `LowerFloorAdmits` and `RicherAdmits` are its monotonicity in
each field; `LastSegmentDecides` does the same for the tiers of the location parser. The invariant behind is
`Reflects`: the attributes of a row are what some release up to the present one extracts from its
raw data, and what that release did not map has been reported. A backfill keeps it without printing anything: what
the new release does not map, the release of the ingestion did not map either (`ReleasesGrow`).

Only model-checked: `TrackIsFreed`, `QueuedIsSettled`, `UploadsEnd`, since liveness under fairness
(and `ENABLED`) is out of the prover's reach; and the three violations, which are counterexamples.
Every other property of section 3 is a theorem.

## 5. Plan

Done: all modules of section 2 with their runs; a theorem for each safety property, action property and
refinement that a run checks. What is left:

1. To model: candidate assignments, and the choice of the active organization in
   `api/dependencies.py`.
2. To prove: for `MatchingRuns` and `Applications`, what the violations become when requests are
   served one at a time, as in `ServedAloneAnOwnerRemains`; for `Paging`, that one page of the
   whole table is the table whatever the order.

## 6. Not modelled

- **Frontend** and **dashboard**: rendering, forms and reads. The calls the frontend makes are
  the environment of the modules; that its polling stops after a fixed time changes no table.
- **Authentication, application shell, configuration, logging**: stateless calls of an external
  service; the modules start where a request has its user.
- **Roadmap connectors**: declarations without operations.
- **Embeddings and scoring** (but for the industry penalty): floating-point vectors of a neural
  model, nothing TLC or a prover could say anything about. Scores are a free choice in `Matches`.
- **Text extraction, prompts, parsing of answers**: what they do to a task is modelled (a
  result or an exception), the text is data.
- **Organizations**: creation, assignments, renaming and `sharing_mode`, the active organization.
- **Scripts that only print** (`export_top_matches.py`, `smoke_test_connectors.py`, `verify_v13_fix.py`,
  the experiments), and dry runs of the others.

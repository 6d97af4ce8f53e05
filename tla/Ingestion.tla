----------------------------- MODULE Ingestion -----------------------------
(***************************************************************************)
(* Ingestion runs that fill the jobs table.                                *)
(*                                                                         *)
(* A run polls every connector in turn.  It reads the external ids it      *)
(* already has, then lets the connector fetch jobs target by target.  The  *)
(* crawlers (BrighterMonday, MyJobMag) have one target with many listing   *)
(* sources, follow their pages, extract every listing once and hand the    *)
(* jobs of each source to a callback; the board connectors (Greenhouse,    *)
(* Lever) return the jobs of a target at once.  Both ways end in           *)
(* save_batch, which skips what has been reported or stored and calls      *)
(* bulk_create: one insert for the batch and, if that raises, one insert   *)
(* for each row.                                                           *)
(*                                                                         *)
(* Nothing keeps two runs apart but the index on (source, external_id).  A *)
(* run may be killed anywhere.  Sites, runs and the database fail; how     *)
(* often is bounded, so that a run that is left alone can be spoken of.    *)
(***************************************************************************)
EXTENDS Sequences, DatabaseCalls, Paging

CONSTANTS
    Runs,          \* processes that ingest at the same time
    Postings,      \* (source, external_id)
    Urls,          \* listings
    IdOf,          \* the posting a listing yields; several may yield one
    Malformed,     \* listings whose job the table refuses (no company)
    Connectors,    \* what is polled, in order
    MaxPages,      \* page limit per source (5 and 3 in the code)
    MaxFaults      \* bound: failures of sites, database and processes

ASSUME IngestionAssumption ==
    /\ IdOf \in [Urls -> Postings] /\ Malformed \subseteq Urls
    /\ Connectors \in Seq([crawls : BOOLEAN, sources : Seq(Seq(SUBSET Urls))])
    /\ \A c \in DOMAIN Connectors :    \* a board shows a target at once
          \/ Connectors[c].crawls
          \/ \A s \in DOMAIN Connectors[c].sources : Len(Connectors[c].sources[s]) = 1
    /\ MaxPages \in Nat \ {0} /\ MaxFaults \in Nat

VARIABLES
    table,     \* rows of each posting
    counted,   \* history: how often new_saved has counted it
    run,       \* what each process is doing
    faults     \* failures so far

vars == <<table, counted, run, faults>>

\* "ids": reading the stored ids; "page": before a listing page or a board;
\* "extract": the listings of a page; "batch", "row": in bulk_create;
\* "return": fetch_jobs of a crawler has returned.
Steps == {"idle", "ids", "page", "extract", "batch", "row", "return"}

Run == [pc : Steps,
        c : 0..Len(Connectors),           \* the connector
        s : Nat,                          \* its source or target
        n : 1..MaxPages,                  \* the page of the source
        offset : Nat,                     \* of get_existing_external_ids
        existing : SUBSET Postings,
        reported : SUBSET Postings,
        seen : SUBSET Urls,               \* source_seen
        extracted : SUBSET Urls,          \* extracted_urls
        todo : SUBSET Urls,               \* listings of the page to extract
        jobs : SUBSET Urls,               \* source_jobs
        all : SUBSET Urls,                \* the jobs given to save_batch
        batch : SUBSET Urls,              \* rows bulk_create has not done
        row : Urls \cup {"none"},         \* the row being retried
        dropped : SUBSET Urls,            \* history: rows given up by a fault
        tries : 0..MaxAttempts]

Idle == [pc |-> "idle", c |-> 0, s |-> 1, n |-> 1, offset |-> 0,
         existing |-> {}, reported |-> {}, seen |-> {}, extracted |-> {},
         todo |-> {}, jobs |-> {}, all |-> {}, batch |-> {}, row |-> "none",
         dropped |-> {}, tries |-> 0]

TypeOK ==
    /\ table \in [Postings -> Nat] /\ counted \in [Postings -> Nat]
    /\ run \in [Runs -> Run]
    /\ faults \in 0..MaxFaults

Init ==
    /\ table = [p \in Postings |-> 0]
    /\ counted = [p \in Postings |-> 0]
    /\ run = [r \in Runs |-> Idle]
    /\ faults = 0

-----------------------------------------------------------------------------
(* Helpers.                                                                *)

Ids(jobs) == {IdOf[u] : u \in jobs}
Sources(x) == Connectors[x.c].sources
Crawls(x) == Connectors[x.c].crawls

\* The constraints of the jobs table, for one statement.
Accepts(jobs) ==
    /\ jobs \cap Malformed = {}
    /\ \A u, v \in jobs : IdOf[u] = IdOf[v] => u = v
    /\ \A p \in Ids(jobs) : table[p] = 0

Store(jobs) ==
    table' = [p \in Postings |-> table[p] + (IF p \in Ids(jobs) THEN 1 ELSE 0)]
Count(jobs) ==
    counted' = [p \in Postings |->
                   counted[p] + (IF p \in Ids(jobs) THEN 1 ELSE 0)]

Fault == faults < MaxFaults /\ faults' = faults + 1
Become(r, x) == run' = [run EXCEPT ![r] = x]

\* The next connector with targets; a connector without is skipped, and after
\* the last the run returns its summary.
FirstFrom(c) ==
    {d \in DOMAIN Connectors :
        /\ d >= c /\ Connectors[d].sources # <<>>
        /\ \A e \in c..(d - 1) : Connectors[e].sources = <<>>}
StartConnector(c) ==
    IF FirstFrom(c) = {} THEN Idle
    ELSE [Idle EXCEPT !.pc = "ids", !.c = CHOOSE d \in FirstFrom(c) : TRUE]

\* After a source or target: the next one, then what a crawler returns, then
\* the next connector.
Continue(x) ==
    IF x.s < Len(Sources(x)) + (IF Crawls(x) THEN 1 ELSE 0)
    THEN [x EXCEPT !.pc = IF x.s < Len(Sources(x)) THEN "page" ELSE "return",
             !.s = @ + 1, !.n = 1, !.seen = {}, !.todo = {}, !.jobs = {},
             !.batch = {}, !.row = "none", !.tries = 0]
    ELSE StartConnector(x.c + 1)

\* save_batch up to its insert; bulk_create returns at once for no rows.  Both
\* filters look at the ids known before the batch: two of its jobs may share
\* one.
SaveBatch(x, jobs) ==
    LET fresh == {u \in jobs : IdOf[u] \notin x.reported}
        new == {u \in fresh : IdOf[u] \notin x.existing}
        y == [x EXCEPT !.reported = @ \cup Ids(fresh),
                       !.existing = @ \cup Ids(new), !.batch = new]
    IN  IF new = {} THEN Continue(y) ELSE [y EXCEPT !.pc = "batch", !.tries = 0]

\* Mutant: nothing is saved before the crawl returns.
MutantEndSource(x) == Continue([x EXCEPT !.all = @ \cup x.jobs])

\* The end of a crawler's source: its jobs join those it will return and go
\* to on_source_complete, if there are any.
EndSource(x) == SaveBatch([x EXCEPT !.all = @ \cup x.jobs], x.jobs)

\* Mutant: a page of listings that earlier sources had ends the source.
MutantNewToSource(x, listing) == listing \ (x.seen \cup x.extracted)

NewToSource(x, listing) == listing \ x.seen

\* Mutant: one page too many.
MutantMorePages(x) == x.n <= MaxPages

MorePages(x) == x.n < MaxPages

\* Mutant: the rows given to bulk_create are counted, not those it returns.
MutantSaved(jobs, outcome) == jobs

\* The rows an insert returns.
Saved(jobs, outcome) == IF outcome = "ok" THEN jobs ELSE {}

\* The batch is refused or its response lost: one row at a time.
Fallback(x) == [x EXCEPT !.pc = "row", !.tries = 0]

\* One attempt to insert jobs.  Only the constraints refuse without a fault.
Insert(jobs, outcome) ==
    /\ outcome = "ok" => Accepts(jobs)
    /\ IF Committed(outcome) /\ Accepts(jobs) THEN Store(jobs)
       ELSE UNCHANGED table
    /\ IF outcome = "ok" \/ (outcome = "refused" /\ ~Accepts(jobs))
       THEN UNCHANGED faults ELSE Fault

-----------------------------------------------------------------------------
(* run_ingestion.                                                          *)

Start(r) ==
    /\ run[r].pc = "idle"
    /\ Become(r, StartConnector(1))
    /\ UNCHANGED <<table, counted, faults>>

\* One page of get_existing_external_ids.  An error here is not caught: it
\* ends the run.
ReadIds(r) ==
    LET x == run[r]
        listed == UNION {UNION {Sources(x)[s][n] : n \in DOMAIN Sources(x)[s]} :
                            s \in DOMAIN Sources(x)}
        stored == {p \in Ids(listed) : table[p] > 0}
    IN  /\ x.pc = "ids"
        /\ \/ \E page \in PagesAt(stored, x.offset) :
                 Become(r, [x EXCEPT !.existing = @ \cup page,
                               !.pc = IF LastPage(page) THEN "page" ELSE "ids",
                               !.offset = IF LastPage(page) THEN 0
                                          ELSE @ + PageSize])
              /\ UNCHANGED faults
           \/ Become(r, Idle) /\ Fault
        /\ UNCHANGED <<table, counted>>

-----------------------------------------------------------------------------
(* fetch_jobs of a crawler.                                                *)

\* A listing page.  A failing request ends the source like an empty page or
\* one without anything new to the source.
FetchPage(r) ==
    LET x == run[r]
        source == Sources(x)[x.s]
        listing == IF x.n <= Len(source) THEN source[x.n] ELSE {}
        new == NewToSource(x, listing)
    IN  /\ x.pc = "page" /\ Crawls(x)
        /\ \/ /\ new # {}
              /\ Become(r, [x EXCEPT !.pc = "extract", !.seen = @ \cup new,
                                     !.todo = new \ x.extracted])
              /\ UNCHANGED faults
           \/ new = {} /\ Become(r, EndSource(x)) /\ UNCHANGED faults
           \/ Become(r, EndSource(x)) /\ Fault
        /\ UNCHANGED <<table, counted>>

\* A listing is marked as extracted before it is requested; if the request
\* or the page fails it yields nothing in this run.
ExtractUrl(r) ==
    LET x == run[r]
    IN  /\ x.pc = "extract"
        /\ \E u \in x.todo :
              LET y == [x EXCEPT !.todo = @ \ {u}, !.extracted = @ \cup {u}]
              IN  \/ /\ Become(r, [y EXCEPT !.jobs = @ \cup {u}])
                     /\ UNCHANGED faults
                  \/ Become(r, y) /\ Fault
        /\ UNCHANGED <<table, counted>>

EndPage(r) ==
    LET x == run[r]
    IN  /\ x.pc = "extract" /\ x.todo = {}
        /\ Become(r, IF MorePages(x) THEN [x EXCEPT !.pc = "page", !.n = @ + 1]
                     ELSE EndSource(x))
        /\ UNCHANGED <<table, counted, faults>>

\* fetch_jobs returns every job once more.
ReturnJobs(r) ==
    /\ run[r].pc = "return"
    /\ Become(r, SaveBatch(run[r], run[r].all))
    /\ UNCHANGED <<table, counted, faults>>

\* A parse error outside the try blocks: the target is listed as failed, and
\* the jobs of the source in progress are gone.
CrawlFails(r) ==
    /\ run[r].pc = "extract"
    /\ Fault
    /\ Become(r, StartConnector(run[r].c + 1))
    /\ UNCHANGED <<table, counted>>

-----------------------------------------------------------------------------
(* fetch_jobs of a board, and bulk_create.                                 *)

FetchBoard(r) ==
    LET x == run[r]
        jobs == Sources(x)[x.s][1]
    IN  /\ x.pc = "page" /\ ~Crawls(x)
        /\ \/ /\ Become(r, SaveBatch([x EXCEPT !.all = @ \cup jobs], jobs))
              /\ UNCHANGED faults
           \/ Become(r, Continue(x)) /\ Fault
        /\ UNCHANGED <<table, counted>>

InsertBatch(r) ==
    LET x == run[r]
    IN  /\ x.pc = "batch"
        /\ \E outcome \in Outcomes :
              /\ Insert(x.batch, outcome)
              /\ \/ /\ Retries(x.tries, outcome)
                    /\ Become(r, [x EXCEPT !.tries = @ + 1])
                    /\ UNCHANGED counted
                 \/ /\ ~Retries(x.tries, outcome)
                    /\ Become(r, IF outcome = "ok" THEN Continue(x)
                                 ELSE Fallback(x))
                    /\ Count(Saved(x.batch, outcome))

\* The next row; a row that is not saved is logged and skipped.
InsertRow(r) ==
    LET x == run[r]
    IN  /\ x.pc = "row"
        /\ \E u \in x.batch, outcome \in Outcomes :
              LET rest == [x EXCEPT !.batch = @ \ {u}, !.tries = 0, !.row = "none",
                             !.dropped = IF faults' > faults THEN @ \cup {u} ELSE @]
              IN  /\ x.row \in {"none", u}
                  /\ Insert({u}, outcome)
                  /\ \/ /\ Retries(x.tries, outcome)
                        /\ Become(r, [x EXCEPT !.tries = @ + 1, !.row = u])
                        /\ UNCHANGED counted
                     \/ /\ ~Retries(x.tries, outcome)
                        /\ Become(r, IF x.batch = {u} THEN Continue(rest)
                                     ELSE rest)
                        /\ Count(Saved({u}, outcome))

\* The process is killed (a closed laptop, in July).
Kill(r) ==
    /\ run[r].pc # "idle"
    /\ Fault
    /\ Become(r, Idle)
    /\ UNCHANGED <<table, counted>>

Next ==
    \E r \in Runs :
        \/ Start(r) \/ ReadIds(r) \/ FetchPage(r) \/ ExtractUrl(r) \/ EndPage(r)
        \/ ReturnJobs(r) \/ CrawlFails(r) \/ FetchBoard(r) \/ InsertBatch(r)
        \/ InsertRow(r) \/ Kill(r)

Spec == Init /\ [][Next]_vars

-----------------------------------------------------------------------------
(* Properties.                                                             *)

\* A job is saved, or its own insert failed, or it shares its external id
\* with a job that was handed over before it and whose insert failed.
Settled(x, p, stored) ==
    \/ stored[p] > 0
    \/ \E v \in x.all : IdOf[v] = p /\ v \in Malformed \cup x.dropped
SavedOrRefused(x, u) == Settled(x, IdOf[u], table)

\* Whatever a crawl has handed to save_batch is in the table as soon as its
\* insert is done, whatever happens to the crawl after that: one bad row, or
\* another run storing some of the rows first, never costs a good row of the
\* same batch.  Comments of bulk_create and save_batch (the Transport Manager
\* and the closed laptop).
FinishedSourcesAreSaved ==
    \A r \in Runs : LET x == run[r] IN
        \A u \in x.all \ x.batch : SavedOrRefused(x, u)

\* A crawl nothing has disturbed stores every listing on the pages it follows:
\* all pages up to the limit, as long as each shows something the source had
\* not shown before, no matter what other sources showed.  Comment of
\* fetch_jobs ("Doesn't trigger just because another source ...").
CrawlReachesItsPages ==
    \A r \in Runs : LET x == run[r] IN
        x.pc = "return" /\ faults = 0 =>
            \A s \in DOMAIN Sources(x) : LET pages == Sources(x)[s] IN
                \A n \in DOMAIN pages :
                    /\ n <= MaxPages
                    /\ \A m \in 1..n : ~ pages[m] \subseteq
                                         UNION {pages[k] : k \in 1..(m - 1)}
                    => \A u \in pages[n] : SavedOrRefused(x, u)

Table == INSTANCE JobTable

\* However runs overlap, fail, retry and are killed, the jobs table is what
\* JobTable promises: no posting twice, none counted as new twice or without
\* being there.
IngestionFillsJobTable == Table!Spec

-----------------------------------------------------------------------------
(* The inductive invariant behind them.                                    *)

\* Where a run is among the connectors and their sources.
KnowsItsPlace(x) ==
    /\ x.pc # "idle" => x.c \in DOMAIN Connectors /\ x.s > 0
    /\ x.pc \in {"ids", "page", "extract"} => x.s \in DOMAIN Sources(x)
    /\ x.pc \in {"extract", "return"} => Crawls(x)
    /\ x.pc = "return" => Len(Sources(x)) < x.s

\* What became of every posting a run will skip, and of every job it was given.
KnowsItsJobs(x, stored) ==
    /\ x.batch \subseteq x.all
    /\ x.pc \notin {"batch", "row"} => x.batch = {}
    /\ \A p \in x.reported \cup x.existing :
          Settled(x, p, stored) \/ \E v \in x.batch : IdOf[v] = p
    /\ \A u \in x.all \ x.batch : Settled(x, IdOf[u], stored)

\* What the first n pages of a source show.
Shown(x, s, n) == UNION {Sources(x)[s][k] : k \in (1..n) \cap DOMAIN Sources(x)[s]}

\* The pages of a source that are followed are among the jobs of the crawl.
Covered(x, s) ==
    \A n \in DOMAIN Sources(x)[s] :
        /\ n <= MaxPages
        /\ \A m \in 1..n : ~ Sources(x)[s][m] \subseteq Shown(x, s, m - 1)
        => Sources(x)[s][n] \subseteq x.all

\* The loop invariant of a crawl that nothing disturbs.
Follows(x) ==
    x.pc # "idle" /\ Crawls(x) =>
        /\ \A s \in DOMAIN Sources(x) :
              s < x.s \/ (s = x.s /\ x.pc \in {"batch", "row"}) => Covered(x, s)
        /\ x.pc \in {"ids", "page"} =>
              x.seen = Shown(x, x.s, x.n - 1) /\ x.seen \subseteq x.all \cup x.jobs
        /\ x.pc = "extract" =>
              x.seen = Shown(x, x.s, x.n) /\ x.seen \subseteq x.all \cup x.jobs \cup x.todo
        /\ x.extracted \subseteq
              x.all \cup (IF x.pc \in {"ids", "page", "extract"} THEN x.jobs ELSE {})

IInv ==
    /\ TypeOK
    /\ \A p \in Postings : counted[p] <= table[p]
    /\ \A r \in Runs : KnowsItsPlace(run[r]) /\ KnowsItsJobs(run[r], table)
    /\ faults = 0 => \A r \in Runs : Follows(run[r])
=============================================================================

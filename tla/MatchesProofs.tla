--------------------------- MODULE MatchesProofs ---------------------------
(***************************************************************************)
(* Proofs about the matches of a track, for any number of jobs, versions   *)
(* of the track, runs, scripts, rows and faults.                           *)
(*                                                                         *)
(* Reading steps move one process and nothing else: OnlyProcess covers     *)
(* them.  For the steps that write rows, RowsMove says what everybody's    *)
(* memory of the rows needs to survive.                                    *)
(***************************************************************************)
EXTENDS Matches, FiniteSetTheorems, TLAPS

USE MatchesAssumption, AttemptsAssumption, PageAssumption

-----------------------------------------------------------------------------
(* Typing.                                                                 *)

\* A process that does nothing is typed and remembers nothing.
LEMMA IdleFits ==
  /\ Idle \in Process /\ Idle.pc = "idle" /\ Idle.found = 0
  /\ Remembers(Idle) /\ MatchesItsJobs(Idle) /\ KnowsTheTable(Idle)
<1>1. 0 \in 0..MaxRows /\ 0 \in 0..MaxAttempts /\ 0 \in Nat
  OBVIOUS
<1> QED BY <1>1 DEF Idle, Process, Remembers, MatchesItsJobs, KnowsTheTable

\* A process stays typed when it starts,
LEMMA SetStart ==
  ASSUME NEW x \in Process, NEW v \in {0} \cup Versions, NEW S \in SUBSET Jobs
  PROVE  [x EXCEPT !.pc = "jobs", !.track = v, !.before = S] \in Process
  BY DEF Process

\* ... when it has read a page that is not the last,
LEMMA SetPage ==
  ASSUME NEW x \in Process, NEW S \in SUBSET Jobs, NEW n \in Nat
  PROVE  [x EXCEPT !.read = S, !.offset = n] \in Process
  BY DEF Process

\* ... when a run or a script has read the last one,
LEMMA SetRead ==
  ASSUME NEW x \in Process, NEW S \in SUBSET Jobs, NEW T \in SUBSET Jobs
  PROVE  /\ [x EXCEPT !.read = S, !.pc = "loop", !.offset = 0, !.todo = T] \in Process
         /\ [x EXCEPT !.read = S, !.offset = 0, !.pc = "track"] \in Process
  BY DEF Process

\* ... when it has read the track or the matches,
LEMMA SetTrack ==
  ASSUME NEW x \in Process, NEW v \in Versions
  PROVE  [x EXCEPT !.pc = "matches", !.track = v] \in Process
  BY DEF Process

\* ... when it has listed the matches,
LEMMA SetList ==
  ASSUME NEW x \in Process, NEW S \in SUBSET MatchRow
  PROVE  /\ [x EXCEPT !.pc = "loop", !.read = {}, !.list = S] \in Process
         /\ [x EXCEPT !.list = S] \in Process
  BY DEF Process

\* ... when it has looked a match up,
LEMMA SetFound ==
  ASSUME NEW x \in Process, NEW j \in Jobs, NEW id \in 0..MaxRows
  PROVE  [x EXCEPT !.pc = "write", !.job = j, !.found = id] \in Process
  BY DEF Process

\* ... when it goes on to its next job,
LEMMA SetNextJob ==
  ASSUME NEW x \in Process
  PROVE  NextJob(x) \in Process
<1>1. 0 \in 0..MaxRows /\ 0 \in 0..MaxAttempts
  OBVIOUS
<1> QED BY <1>1 DEF Process, NextJob

\* ... when it tries again,
LEMMA SetTries ==
  ASSUME NEW x \in Process, NEW outcome, Retries(x.tries, outcome)
  PROVE  [x EXCEPT !.tries = @ + 1] \in Process
<1>1. x.tries + 1 \in 0..MaxAttempts
  BY DEF Process, Retries
<1> QED BY <1>1 DEF Process

\* ... and when a match is deleted.
LEMMA SetDeleted ==
  ASSUME NEW x \in Process, NEW j \in Jobs
  PROVE  [x EXCEPT !.deleted = @ \cup {j}] \in Process
  BY DEF Process

-----------------------------------------------------------------------------
(* Steps that only move a process.                                         *)

\* A process in a state of the invariant.
LEMMA ProcessFacts ==
  ASSUME IInv, NEW p \in Processes
  PROVE  /\ proc[p] \in Process /\ Remembers(proc[p])
         /\ p \in Runs => MatchesItsJobs(proc[p])
         /\ p \in Cleanups /\ Cardinality(jobs) <= PageSize => KnowsTheTable(proc[p])
  BY DEF IInv, TypeOK

\* A step moves one process, which fits the tables as they are.
LEMMA OnlyProcess ==
  ASSUME IInv, NEW p \in Processes, NEW x \in Process, Become(p, x),
         x.found # 0 => x.pc = "write", Remembers(x),
         p \in Runs => MatchesItsJobs(x),
         p \in Cleanups /\ Cardinality(jobs) <= PageSize => KnowsTheTable(x),
         UNCHANGED <<jobs, track, rows, nextId>>, faults' \in 0..MaxFaults
  PROVE  IInv'
<1>1. /\ proc' \in [Processes -> Process] /\ proc'[p] = x
      /\ \A q \in Processes : q # p => proc'[q] = proc[q]
  BY DEF Become, IInv, TypeOK
<1>2. TypeOK' /\ IsFiniteSet(jobs)' /\ RowsAreDistinct'
  BY <1>1 DEF IInv, TypeOK, RowsAreDistinct
<1>3. \A q \in Processes : Remembers(proc[q])'
  <2>1. \A q \in Processes : Remembers(proc'[q])
    BY <1>1 DEF IInv
  <2> QED BY <2>1 DEF Remembers, Means
<1>4. \A r \in Runs : MatchesItsJobs(proc[r])'
  <2>1. \A r \in Runs : MatchesItsJobs(proc'[r])
    BY <1>1 DEF IInv, Processes
  <2> QED BY <2>1 DEF MatchesItsJobs
<1>5. Cardinality(jobs)' <= PageSize => \A c \in Cleanups : KnowsTheTable(proc[c])'
  <2>1. Cardinality(jobs) <= PageSize => \A c \in Cleanups : KnowsTheTable(proc'[c])
    BY <1>1 DEF IInv, Processes
  <2> QED BY <2>1 DEF KnowsTheTable
<1> QED BY <1>2, <1>3, <1>4, <1>5 DEF IInv

\* A process that ends or is killed.
LEMMA EndIInv ==
  ASSUME IInv, NEW p \in Processes, Become(p, Idle),
         UNCHANGED <<jobs, track, rows, nextId>>, faults' \in 0..MaxFaults
  PROVE  IInv'
<1> HIDE DEF Idle
<1> QED BY IdleFits, OnlyProcess

\* A process begins; a cleanup's history is the table.
LEMMA StartIInv ==
  ASSUME IInv, NEW p \in Processes, Start(p)
  PROVE  IInv'
<1> DEFINE v == IF p \in Runs THEN track ELSE 0
           S == IF p \in Cleanups THEN jobs ELSE {}
           x == [Idle EXCEPT !.pc = "jobs", !.track = v, !.before = S]
<1>1. v \in {0} \cup Versions /\ S \in SUBSET Jobs /\ faults \in 0..MaxFaults
  BY DEF IInv, TypeOK
<1>2. x \in Process
  BY <1>1, IdleFits, SetStart
<1>3. /\ x.pc = "jobs" /\ x.track = v /\ x.before = S /\ x.offset = 0 /\ x.list = {}
      /\ x.found = 0
  BY DEF Idle
<1>4. Become(p, x)
  BY DEF Start
<1>5. Remembers(x)
  BY <1>3 DEF Remembers
<1>6. p \in Runs => MatchesItsJobs(x)
  BY <1>3 DEF MatchesItsJobs, IInv, TypeOK
<1>7. KnowsTheTable(x)
  BY <1>3 DEF KnowsTheTable
<1> HIDE DEF x
<1> QED BY <1>1, <1>2, <1>3, <1>4, <1>5, <1>6, <1>7, OnlyProcess DEF Start

\* While the jobs fit into a page, the first page is all of them.
LEMMA FirstPage ==
  ASSUME IInv, Cardinality(jobs) <= PageSize, NEW page \in PagesAt(jobs, 0)
  PROVE  page = jobs
<1>1. IsFiniteSet(jobs) /\ Cardinality(jobs) \in Nat
  BY FS_CardinalityType DEF IInv
<1>2. page \subseteq jobs /\ Cardinality(page) = Cardinality(jobs)
  BY <1>1 DEF PagesAt, RowsFrom
<1> QED BY <1>1, <1>2, FS_Subset

\* A page is read; a run knows then what it has to score.
LEMMA ReadJobsIInv ==
  ASSUME IInv, NEW p \in Processes, ReadJobs(p)
  PROVE  IInv'
<1> DEFINE x == proc[p]
<1>0. /\ x \in Process /\ Remembers(x) /\ x.pc = "jobs" /\ x.found = 0
      /\ p \in Runs => MatchesItsJobs(x) /\ x.track \in Versions
      /\ p \in Cleanups /\ Cardinality(jobs) <= PageSize => KnowsTheTable(x)
      /\ faults \in 0..MaxFaults /\ x.offset \in Nat
  BY ProcessFacts DEF ReadJobs, IInv, TypeOK, MatchesItsJobs, Process
<1>1. PICK page \in PagesAt(jobs, x.offset) :
        LET read == x.read \cup page
        IN  Become(p, IF ~LastPage(page)
                      THEN [x EXCEPT !.read = read, !.offset = @ + PageSize]
                      ELSE IF p \in Runs
                      THEN [x EXCEPT !.read = read, !.pc = "loop", !.offset = 0,
                                     !.todo = read \cap Passing[x.track]]
                      ELSE [x EXCEPT !.read = read, !.offset = 0, !.pc = "track"])
  BY DEF ReadJobs
<1> DEFINE read == x.read \cup page
<1>2. /\ read \in SUBSET Jobs /\ x.offset + PageSize \in Nat
      /\ read \cap Passing[x.track] \in SUBSET Jobs
  BY <1>0 DEF PagesAt, Process, IInv, TypeOK
<1>3. p \in Cleanups /\ Cardinality(jobs) <= PageSize =>
        x.before \subseteq jobs /\ x.before \subseteq read
  <2> SUFFICES ASSUME p \in Cleanups, Cardinality(jobs) <= PageSize
               PROVE  x.before \subseteq jobs /\ x.before \subseteq read
    OBVIOUS
  <2>1. KnowsTheTable(x)
    BY <1>0
  <2>2. CASE x.offset > 0
    BY <1>0, <2>1, <2>2 DEF KnowsTheTable
  <2>3. CASE x.offset = 0
    BY <1>1, <2>1, <2>3, FirstPage DEF KnowsTheTable
  <2> QED BY <1>0, <2>2, <2>3
<1>4. \A m \in x.list : Means(m.id, m.job)
  BY <1>0 DEF Remembers
<1>5. ASSUME NEW y \in Process, Become(p, y), y.found = 0, y.list = x.list,
             y.before = x.before, y.read = read, y.track = x.track,
             \/ y.pc = "jobs"
             \/ y.pc = "loop" /\ p \in Runs /\ y.todo = read \cap Passing[x.track]
             \/ y.pc = "track"
      PROVE  IInv'
  <2>1. Remembers(y)
    BY <1>4, <1>5 DEF Remembers
  <2>2. p \in Runs => MatchesItsJobs(y)
    BY <1>0, <1>5 DEF MatchesItsJobs
  <2>3. p \in Cleanups /\ Cardinality(jobs) <= PageSize => KnowsTheTable(y)
    BY <1>3, <1>5 DEF KnowsTheTable
  <2> QED BY <1>0, <1>5, <2>1, <2>2, <2>3, OnlyProcess DEF ReadJobs
<1>6. CASE ~LastPage(page)
  <2> DEFINE y == [x EXCEPT !.read = read, !.offset = x.offset + PageSize]
  <2>1. y \in Process
    BY <1>0, <1>2, SetPage
  <2>2. /\ y.found = 0 /\ y.list = x.list /\ y.before = x.before /\ y.read = read
        /\ y.track = x.track /\ y.pc = "jobs"
    BY <1>0 DEF Process
  <2>3. Become(p, y)
    BY <1>1, <1>6
  <2> HIDE DEF y
  <2> QED BY <1>5, <2>1, <2>2, <2>3
<1>7. CASE LastPage(page) /\ p \in Runs
  <2> DEFINE y == [x EXCEPT !.read = read, !.pc = "loop", !.offset = 0,
                            !.todo = read \cap Passing[x.track]]
  <2>1. y \in Process
    BY <1>0, <1>2, SetRead
  <2>2. /\ y.found = 0 /\ y.list = x.list /\ y.before = x.before /\ y.read = read
        /\ y.track = x.track /\ y.pc = "loop" /\ y.todo = read \cap Passing[x.track]
    BY <1>0 DEF Process
  <2>3. Become(p, y)
    BY <1>1, <1>7
  <2> HIDE DEF y
  <2> QED BY <1>5, <1>7, <2>1, <2>2, <2>3
<1>8. CASE LastPage(page) /\ p \notin Runs
  <2> DEFINE y == [x EXCEPT !.read = read, !.offset = 0, !.pc = "track"]
  <2>1. y \in Process
    BY <1>0, <1>2, SetRead
  <2>2. /\ y.found = 0 /\ y.list = x.list /\ y.before = x.before /\ y.read = read
        /\ y.track = x.track /\ y.pc = "track"
    BY <1>0 DEF Process
  <2>3. Become(p, y)
    BY <1>1, <1>8
  <2> HIDE DEF y
  <2> QED BY <1>5, <2>1, <2>2, <2>3
<1> QED BY <1>6, <1>7, <1>8

\* A script reads the track.
LEMMA ReadTrackIInv ==
  ASSUME IInv, NEW p \in Cleanups \cup Backfills, ReadTrack(p)
  PROVE  IInv'
<1> DEFINE x == proc[p]
           y == [x EXCEPT !.pc = "matches", !.track = track]
<1>0. /\ p \in Processes /\ p \notin Runs /\ x \in Process /\ Remembers(x)
      /\ x.pc = "track" /\ x.found = 0 /\ track \in Versions /\ faults \in 0..MaxFaults
      /\ p \in Cleanups /\ Cardinality(jobs) <= PageSize => KnowsTheTable(x)
  BY ProcessFacts DEF ReadTrack, Processes, IInv, TypeOK
<1>1. y \in Process
  BY <1>0, SetTrack
<1>2. /\ y.pc = "matches" /\ y.found = 0 /\ y.list = x.list /\ y.before = x.before
      /\ y.read = x.read
  BY <1>0 DEF Process
<1>3. Become(p, y)
  BY DEF ReadTrack
<1> HIDE DEF y
<1>4. Remembers(y) /\ (KnowsTheTable(x) => KnowsTheTable(y))
  BY <1>0, <1>2 DEF Remembers, KnowsTheTable
<1> QED BY <1>0, <1>1, <1>2, <1>3, <1>4, OnlyProcess DEF ReadTrack

\* A script lists the matches it will handle; a cleanup that knows the table
\* takes only those for stale that fail the track or are new.
LEMMA ListMatchesIInv ==
  ASSUME IInv, NEW p \in Cleanups \cup Backfills, ListMatches(p)
  PROVE  IInv'
<1> DEFINE x == proc[p]
           chosen == {m \in rows : IF p \in Cleanups THEN Stale(x, m) ELSE Lacking(x, m)}
           y == [x EXCEPT !.pc = "loop", !.read = {}, !.list = chosen]
<1>0. /\ p \in Processes /\ p \notin Runs /\ x \in Process
      /\ x.pc = "matches" /\ x.found = 0 /\ faults \in 0..MaxFaults
      /\ p \in Cleanups /\ Cardinality(jobs) <= PageSize => KnowsTheTable(x)
      /\ chosen \in SUBSET MatchRow /\ chosen \subseteq rows
  BY ProcessFacts DEF ListMatches, Processes, IInv, TypeOK
<1>1. y \in Process
  BY <1>0, SetList
<1>2. /\ y.pc = "loop" /\ y.found = 0 /\ y.list = chosen /\ y.before = x.before
      /\ y.track = x.track
  BY <1>0 DEF Process
<1>3. Become(p, y)
  BY DEF ListMatches
<1>4. p \in Cleanups => \A m \in chosen : Stale(x, m)
  OBVIOUS
<1> HIDE DEF y, chosen
<1>5. Remembers(y)
  BY <1>0, <1>2 DEF Remembers, Means, IInv, RowsAreDistinct
<1>6. p \in Cleanups /\ KnowsTheTable(x) => KnowsTheTable(y)
  BY <1>0, <1>2, <1>4 DEF KnowsTheTable, Stale
<1> QED BY <1>0, <1>1, <1>2, <1>3, <1>5, <1>6, OnlyProcess DEF ListMatches

\* A run looks for the match of a job.
LEMMA GetMatchIInv ==
  ASSUME IInv, NEW r \in Runs, GetMatch(r)
  PROVE  IInv'
<1> DEFINE x == proc[r]
<1>0. /\ r \in Processes /\ r \notin Cleanups /\ x \in Process /\ Remembers(x)
      /\ MatchesItsJobs(x) /\ x.pc = "loop" /\ faults \in 0..MaxFaults
  BY ProcessFacts DEF GetMatch, Processes, IInv, TypeOK
<1>1. PICK j \in x.todo, found \in {m.id : m \in rows} \cup {0} :
        /\ IF found = 0 THEN \A m \in rows : m.job # j
           ELSE \E m \in rows : m.id = found /\ m.job = j
        /\ Become(r, [x EXCEPT !.pc = "write", !.job = j, !.found = found])
  BY DEF GetMatch
<1> DEFINE y == [x EXCEPT !.pc = "write", !.job = j, !.found = found]
<1>2. j \in Jobs /\ found \in 0..MaxRows
  BY <1>0 DEF Process, IInv, TypeOK, MatchRow
<1>3. y \in Process
  BY <1>0, <1>2, SetFound
<1>4. /\ y.pc = "write" /\ y.job = j /\ y.found = found /\ y.list = x.list
      /\ y.todo = x.todo /\ y.read = x.read /\ y.track = x.track /\ y.deleted = x.deleted
  BY <1>0 DEF Process
<1>5. Become(r, y)
  BY <1>1
<1> HIDE DEF y
<1>6. Means(found, j)
  <2>1. CASE found = 0
    BY <2>1 DEF Means, IInv, TypeOK, MatchRow
  <2>2. CASE found # 0
    BY <1>1, <2>2 DEF Means, IInv, RowsAreDistinct
  <2> QED BY <2>1, <2>2
<1>7. Remembers(y) /\ MatchesItsJobs(y)
  BY <1>0, <1>1, <1>4, <1>6 DEF Remembers, MatchesItsJobs
<1> QED BY <1>0, <1>3, <1>4, <1>5, <1>7, OnlyProcess DEF GetMatch

\* A process that is through with its loop, or is killed.
LEMMA EndsIInv ==
  ASSUME IInv, NEW p \in Processes, Finish(p) \/ Abort(p)
  PROVE  IInv'
<1>1. faults' \in 0..MaxFaults
  BY DEF Finish, Abort, IInv, TypeOK
<1> QED BY <1>1, EndIInv DEF Finish, Abort

\* A job is ingested; a table that fits into a page then did so before.
LEMMA IngestIInv ==
  ASSUME IInv, Ingest
  PROVE  IInv'
<1>1. PICK j \in Jobs \ jobs : jobs' = jobs \cup {j}
  BY DEF Ingest
<1>2. IsFiniteSet(jobs') /\ Cardinality(jobs') = Cardinality(jobs) + 1
  BY <1>1, FS_AddElement DEF IInv
<1>3. Cardinality(jobs) \in Nat
  BY FS_CardinalityType DEF IInv
<1>4. Cardinality(jobs') <= PageSize => Cardinality(jobs) <= PageSize
  BY <1>2, <1>3
<1>5. TypeOK' /\ RowsAreDistinct'
  BY <1>1 DEF Ingest, IInv, TypeOK, RowsAreDistinct
<1>6. /\ \A p \in Processes : Remembers(proc[p])'
      /\ \A r \in Runs : MatchesItsJobs(proc[r])'
  BY DEF Ingest, IInv, Remembers, Means, MatchesItsJobs
<1>7. Cardinality(jobs') <= PageSize => \A c \in Cleanups : KnowsTheTable(proc[c])'
  BY <1>1, <1>4 DEF Ingest, IInv, KnowsTheTable
<1> QED BY <1>2, <1>5, <1>6, <1>7 DEF IInv

\* The candidate edits the track.
LEMMA EditTrackIInv ==
  ASSUME IInv, EditTrack
  PROVE  IInv'
<1>1. TypeOK' /\ RowsAreDistinct' /\ IsFiniteSet(jobs)'
  BY DEF EditTrack, IInv, TypeOK, RowsAreDistinct
<1>2. /\ \A p \in Processes : Remembers(proc[p])'
      /\ \A r \in Runs : MatchesItsJobs(proc[r])'
      /\ Cardinality(jobs)' <= PageSize => \A c \in Cleanups : KnowsTheTable(proc[c])'
  BY DEF EditTrack, IInv, Remembers, Means, MatchesItsJobs, KnowsTheTable
<1> QED BY <1>1, <1>2 DEF IInv

-----------------------------------------------------------------------------
(* Steps that write rows.                                                  *)

\* What everybody remembers of the rows survives when rows are only taken
\* away, rewritten, or added with a new id.
LEMMA RowsMove ==
  ASSUME IInv, nextId' \in Nat, nextId' >= nextId,
         \A n \in rows' : \/ \E m \in rows : m.id = n.id /\ m.job = n.job
                          \/ n.id = nextId
  PROVE  /\ \A id \in Nat, j \in Jobs : Means(id, j) => Means(id, j)'
         /\ \A x \in Process : Remembers(x) => Remembers(x)'
<1>1. nextId \in Nat
  BY DEF IInv, TypeOK
<1>2. \A x \in Process : \A m \in x.list : m.id \in Nat /\ m.job \in Jobs
  BY DEF Process, MatchRow
<1>3. ASSUME NEW id \in Nat, NEW j \in Jobs, Means(id, j)
      PROVE  Means(id, j)'
  BY <1>1, <1>3 DEF Means
<1>4. \A x \in Process : x.found \in Nat /\ (x.job \in x.todo => x.job \in Jobs)
  BY DEF Process
<1>5. \A x \in Process : Remembers(x) => Remembers(x)'
  BY <1>2, <1>3, <1>4 DEF Remembers
<1> QED BY <1>3, <1>5

\* Rows that are only rewritten keep their ids and jobs: they stay distinct,
\* and everybody finds what they have found.
LEMMA RowsRewritten ==
  ASSUME IInv, UNCHANGED <<jobs, track, nextId, faults>>, rows' \in SUBSET MatchRow,
         \A n \in rows' : \E m \in rows : m.id = n.id /\ m.job = n.job,
         \A m \in rows : \E n \in rows' : n.id = m.id /\ n.job = m.job,
         \A n, k \in rows' : n.id = k.id => n = k,
         NEW p \in Processes, NEW x \in Process, Become(p, x),
         x.found # 0 => x.pc = "write",
         Remembers(x),
         p \in Runs => MatchesItsJobs(x),
         p \in Cleanups /\ Cardinality(jobs) <= PageSize => KnowsTheTable(x)
  PROVE  IInv'
<1>1. /\ proc' \in [Processes -> Process] /\ proc'[p] = x
      /\ \A q \in Processes : q # p => proc'[q] = proc[q]
  BY DEF Become, IInv, TypeOK
<1>2. TypeOK' /\ IsFiniteSet(jobs)'
  BY <1>1 DEF IInv, TypeOK
<1>3. RowsAreDistinct'
  <2>1. \A n, k \in rows' : n.job = k.job => n.id = k.id
    BY DEF IInv, RowsAreDistinct
  <2>2. \A n \in rows' : n.id < nextId'
    BY DEF IInv, RowsAreDistinct
  <2> QED BY <2>1, <2>2 DEF RowsAreDistinct
<1>4. \A q \in Processes : Remembers(proc[q])'
  <2>1. nextId' \in Nat /\ nextId' >= nextId
    BY DEF IInv, TypeOK
  <2>2. \A y \in Process : Remembers(y) => Remembers(y)'
    BY <2>1, RowsMove
  <2>3. \A q \in Processes : proc'[q] \in Process /\ Remembers(proc'[q])
    BY <1>1 DEF IInv
  <2> QED BY <2>2, <2>3 DEF Remembers, Means
<1>5. \A r \in Runs : MatchesItsJobs(proc[r])'
  <2>1. ASSUME NEW r \in Runs, r # p PROVE MatchesItsJobs(proc[r])'
    <3>1. proc'[r] = proc[r] /\ MatchesItsJobs(proc[r])
      BY <1>1, <2>1 DEF IInv, Processes
    <3> QED BY <3>1 DEF MatchesItsJobs
  <2>2. p \in Runs => MatchesItsJobs(proc[p])'
    BY <1>1 DEF MatchesItsJobs
  <2> QED BY <2>1, <2>2
<1>6. Cardinality(jobs)' <= PageSize => \A c \in Cleanups : KnowsTheTable(proc[c])'
  <2>1. Cardinality(jobs) <= PageSize => \A c \in Cleanups : KnowsTheTable(proc'[c])
    BY <1>1 DEF IInv, Processes
  <2> QED BY <2>1 DEF KnowsTheTable
<1> QED BY <1>2, <1>3, <1>4, <1>5, <1>6 DEF IInv

\* The next job: the run is through with its job, which has a match.
LEMMA NextJobFits ==
  ASSUME NEW x \in Process, Remembers(x), x.pc = "write"
  PROVE  LET y == NextJob(x)
         IN  /\ y \in Process /\ Remembers(y) /\ y.found = 0 /\ y.pc = "loop"
             /\ y.track = x.track /\ y.read = x.read /\ y.deleted = x.deleted
             /\ y.todo = x.todo \ {x.job}
<1> DEFINE y == NextJob(x)
<1>1. y \in Process
  BY SetNextJob
<1>2. /\ y.found = 0 /\ y.pc = "loop" /\ y.track = x.track /\ y.read = x.read
      /\ y.deleted = x.deleted /\ y.todo = x.todo \ {x.job} /\ y.list = x.list
  BY DEF NextJob, Process
<1> HIDE DEF y
<1>3. Remembers(y)
  BY <1>2 DEF Remembers
<1> QED BY <1>1, <1>2, <1>3 DEF y

\* A run writes the row it has found, or finds it gone and aborts.
LEMMA UpdateMatchIInv ==
  ASSUME IInv, NEW r \in Runs, UpdateMatch(r)
  PROVE  IInv'
<1> DEFINE x == proc[r]
           hit == {m \in rows : m.id = x.found}
<1>0. /\ r \in Processes /\ r \notin Cleanups /\ x \in Process /\ Remembers(x)
      /\ MatchesItsJobs(x) /\ x.pc = "write" /\ x.track \in Versions
      /\ Means(x.found, x.job) /\ rows \in SUBSET MatchRow /\ faults \in 0..MaxFaults
      /\ UNCHANGED <<jobs, track, nextId, faults>>
  BY ProcessFacts DEF UpdateMatch, Processes, Remembers, MatchesItsJobs, IInv, TypeOK
<1>1. /\ rows' = (rows \ hit) \cup {Rescored(m, x) : m \in hit}
      /\ Become(r, IF hit = {} THEN Idle ELSE NextJob(x))
  BY DEF UpdateMatch
<1>2. CASE hit = {}
  <2>1. rows' = rows
    BY <1>1, <1>2
  <2>2. Become(r, Idle)
    BY <1>1, <1>2
  <2> QED BY <1>0, <2>1, <2>2, EndIInv
<1>3. CASE hit # {}
  <2>1. \A m \in rows : /\ Rescored(m, x) \in MatchRow /\ Rescored(m, x).id = m.id
                        /\ Rescored(m, x).job = m.job
    BY <1>0 DEF Rescored, MatchRow
  <2>2. rows' \in SUBSET MatchRow
    BY <1>0, <1>1, <2>1
  <2>3. \A n \in rows' : \E m \in rows : m.id = n.id /\ m.job = n.job
    BY <1>1, <2>1
  <2>4. \A m \in rows : \E n \in rows' : n.id = m.id /\ n.job = m.job
    BY <1>1, <2>1
  <2>5. \A n, k \in rows' : n.id = k.id => n = k
    <3>1. \A n \in rows' : n \in rows \ hit \/ \E m \in hit : n = Rescored(m, x)
      BY <1>1
    <3>2. \A m, k \in rows : m.id = k.id => m = k
      BY DEF IInv, RowsAreDistinct
    <3> QED BY <2>1, <3>1, <3>2
  <2> DEFINE y == NextJob(x)
  <2>6. /\ y \in Process /\ Remembers(y) /\ y.found = 0 /\ y.pc = "loop"
        /\ y.track = x.track /\ y.read = x.read /\ y.deleted = x.deleted
        /\ y.todo = x.todo \ {x.job}
    BY <1>0, NextJobFits
  <2>7. Become(r, y)
    BY <1>1, <1>3
  <2> HIDE DEF y
  <2>8. \E m \in rows : m.job = x.job
    BY <1>0, <1>3 DEF Means
  <2>9. MatchesItsJobs(y)
    BY <1>0, <2>6, <2>8 DEF MatchesItsJobs
  <2> QED BY <1>0, <2>2, <2>3, <2>4, <2>5, <2>6, <2>7, <2>9, RowsRewritten
<1> QED BY <1>2, <1>3

\* A rationale is written or skipped, or its row is gone and the script ends.
LEMMA WriteRationaleIInv ==
  ASSUME IInv, NEW b \in Backfills, WriteRationale(b)
  PROVE  IInv'
<1> DEFINE x == proc[b]
<1>0. /\ b \in Processes /\ b \notin Cleanups /\ b \notin Runs /\ x \in Process
      /\ Remembers(x) /\ x.pc = "loop" /\ x.found = 0 /\ faults \in 0..MaxFaults
      /\ rows \in SUBSET MatchRow /\ UNCHANGED <<jobs, track, nextId, faults>>
  BY ProcessFacts DEF WriteRationale, Processes, IInv, TypeOK
<1>1. PICK l \in x.list :
        LET hit == {n \in rows : n.id = l.id}
            rest == [x EXCEPT !.list = @ \ {l}]
        IN  \/ Become(b, rest) /\ UNCHANGED rows
            \/ /\ rows' = (rows \ hit) \cup {[n EXCEPT !.rationale = TRUE] : n \in hit}
               /\ Become(b, IF hit = {} THEN Idle ELSE rest)
  BY DEF WriteRationale
<1> DEFINE hit == {n \in rows : n.id = l.id}
           rest == [x EXCEPT !.list = x.list \ {l}]
           Written(n) == [n EXCEPT !.rationale = TRUE]
<1>2. x.list \ {l} \in SUBSET MatchRow
  BY <1>0 DEF Process
<1>3. rest \in Process
  BY <1>0, <1>2, SetList
<1>4. rest.list \subseteq x.list /\ rest.pc = "loop" /\ rest.found = 0
  BY <1>0 DEF Process
<1>5. \/ Become(b, rest) /\ UNCHANGED rows
      \/ hit = {} /\ Become(b, Idle) /\ UNCHANGED rows
      \/ rows' = (rows \ hit) \cup {Written(n) : n \in hit} /\ Become(b, rest)
  BY <1>1
<1> HIDE DEF rest
<1>6. Remembers(rest)
  BY <1>0, <1>4 DEF Remembers
<1>7. CASE Become(b, rest) /\ UNCHANGED rows
  BY <1>0, <1>3, <1>4, <1>6, <1>7, OnlyProcess
<1>8. CASE Become(b, Idle) /\ UNCHANGED rows
  BY <1>0, <1>8, EndIInv
<1>9. CASE rows' = (rows \ hit) \cup {Written(n) : n \in hit} /\ Become(b, rest)
  <2>1. \A n \in rows : /\ Written(n) \in MatchRow /\ Written(n).id = n.id
                        /\ Written(n).job = n.job
    BY <1>0 DEF MatchRow
  <2> HIDE DEF Written
  <2>2. rows' \in SUBSET MatchRow
    BY <1>0, <1>9, <2>1
  <2>3. \A n \in rows' : \E m \in rows : m.id = n.id /\ m.job = n.job
    BY <1>9, <2>1
  <2>4. \A m \in rows : \E n \in rows' : n.id = m.id /\ n.job = m.job
    BY <1>9, <2>1
  <2>5. \A n, k \in rows' : n.id = k.id => n = k
    <3>1. \A n \in rows' : n \in rows \ hit \/ \E m \in hit : n = Written(m)
      BY <1>9
    <3>2. \A m, k \in rows : m.id = k.id => m = k
      BY DEF IInv, RowsAreDistinct
    <3> QED BY <2>1, <3>1, <3>2
  <2> QED BY <1>0, <1>3, <1>4, <1>6, <1>9, <2>2, <2>3, <2>4, <2>5, RowsRewritten
<1> QED BY <1>5, <1>7, <1>8, <1>9

\* The insert is made, refused by the index, lost or repeated.
LEMMA InsertMatchIInv ==
  ASSUME IInv, NEW r \in Runs, InsertMatch(r)
  PROVE  IInv'
<1> DEFINE x == proc[r]
           new == [id |-> nextId, job |-> x.job, scored |-> x.track, rationale |-> FALSE]
           y == proc'[r]
<1>0. /\ r \in Processes /\ r \notin Cleanups /\ x \in Process /\ Remembers(x)
      /\ MatchesItsJobs(x) /\ x.pc = "write" /\ x.found = 0 /\ x.track \in Versions
      /\ x.job \in x.todo /\ x.job \in Jobs /\ rows \in SUBSET MatchRow
      /\ nextId \in Nat /\ nextId >= 1 /\ UNCHANGED <<jobs, track>>
  BY ProcessFacts DEF InsertMatch, Processes, Remembers, MatchesItsJobs, IInv, TypeOK,
                      Process
<1>1. PICK outcome \in Outcomes :
        /\ outcome = "ok" => Accepts(x.job)
        /\ IF Committed(outcome) /\ Accepts(x.job)
           THEN rows' = rows \cup {new} /\ nextId' = nextId + 1
           ELSE UNCHANGED <<rows, nextId>>
        /\ faults' \in 0..MaxFaults
        /\ Become(r, IF outcome = "ok" THEN NextJob(x)
                     ELSE IF Retries(x.tries, outcome) THEN [x EXCEPT !.tries = @ + 1]
                     ELSE InsertFailed(x))
  BY DEF InsertMatch, IInv, TypeOK
<1>2. proc' = [proc EXCEPT ![r] = y] /\ proc \in [Processes -> Process]
  BY <1>1 DEF Become, IInv, TypeOK
<1>3. /\ y \in Process /\ Remembers(y) /\ y.found = 0
      /\ \/ y.pc = "idle"
         \/ /\ y.pc \in {"loop", "write"} /\ y.track = x.track /\ y.read = x.read
            /\ y.deleted = x.deleted
            /\ y.todo = x.todo \/ (y.todo = x.todo \ {x.job} /\ outcome = "ok")
  <2>1. CASE y = NextJob(x) /\ outcome = "ok"
    BY <1>0, <2>1, NextJobFits
  <2>2. CASE y = Idle
    BY <2>2, IdleFits
  <2>3. CASE Retries(x.tries, outcome) /\ y = [x EXCEPT !.tries = @ + 1]
    <3>1. [x EXCEPT !.tries = @ + 1] \in Process
      BY <1>0, <2>3, SetTries
    <3> HIDE DEF y
    <3>2. /\ y \in Process /\ y.pc = x.pc /\ y.track = x.track /\ y.read = x.read
          /\ y.deleted = x.deleted /\ y.todo = x.todo /\ y.found = x.found
          /\ y.list = x.list /\ y.job = x.job
      BY <1>0, <2>3, <3>1 DEF Process
    <3>3. Remembers(y)
      BY <1>0, <3>2 DEF Remembers
    <3>4. y.found = 0 /\ y.pc \in {"loop", "write"}
      BY <1>0, <3>2
    <3> HIDE DEF x
    <3> QED BY <3>2, <3>3, <3>4
  <2>4. y = IF outcome = "ok" THEN NextJob(x)
            ELSE IF Retries(x.tries, outcome) THEN [x EXCEPT !.tries = @ + 1]
            ELSE Idle
    BY <1>0, <1>1, <1>2 DEF Become, InsertFailed
  <2> QED BY <2>1, <2>2, <2>3, <2>4
<1> HIDE DEF y
<1>4. /\ proc' \in [Processes -> Process] /\ proc'[r] = y
      /\ \A q \in Processes : q # r => proc'[q] = proc[q]
  BY <1>0, <1>2, <1>3
<1>5. /\ rows \subseteq rows' /\ nextId' \in 1..(MaxRows + 1) /\ nextId' >= nextId
      /\ rows' \subseteq rows \cup {new} /\ rows' \in SUBSET MatchRow
      /\ new \in rows' => Accepts(x.job) \/ new \in rows
      /\ outcome = "ok" => new \in rows'
      /\ rows' # rows => nextId' = nextId + 1 /\ Accepts(x.job)
  <2>1. CASE Committed(outcome) /\ Accepts(x.job)
    <3>1. new \in MatchRow /\ nextId + 1 \in 1..(MaxRows + 1)
      BY <1>0, <2>1 DEF MatchRow, Accepts
    <3> HIDE DEF new
    <3> QED BY <1>0, <1>1, <2>1, <3>1
  <2>2. CASE ~(Committed(outcome) /\ Accepts(x.job))
    <3>1. UNCHANGED <<rows, nextId>> /\ outcome # "ok"
      BY <1>1, <2>2 DEF Committed
    <3> HIDE DEF new
    <3> QED BY <1>0, <3>1 DEF IInv, TypeOK
  <2> QED BY <2>1, <2>2
<1>6. new.id = nextId /\ new.job = x.job
  OBVIOUS
<1> HIDE DEF new
<1>7. TypeOK' /\ IsFiniteSet(jobs)'
  BY <1>0, <1>1, <1>3, <1>4, <1>5 DEF IInv, TypeOK
<1>8. RowsAreDistinct'
  <2>1. CASE rows' = rows
    BY <1>0, <1>5, <2>1 DEF IInv, RowsAreDistinct, MatchRow
  <2>2. CASE rows' # rows
    <3>1. nextId' = nextId + 1 /\ \A m \in rows : m.job # x.job
      BY <1>5, <2>2 DEF Accepts
    <3>2. \A m \in rows : m.id < nextId /\ m.id \in Nat
      BY <1>0 DEF IInv, RowsAreDistinct, MatchRow
    <3>3. \A m \in rows' : m.id < nextId'
      BY <1>0, <1>5, <1>6, <3>1, <3>2
    <3>4. \A m \in rows : m.id # nextId
      BY <1>0, <3>2
    <3>5. \A m, n \in rows' : m.id = n.id \/ m.job = n.job => m = n
      BY <1>5, <1>6, <3>1, <3>4 DEF IInv, RowsAreDistinct
    <3> QED BY <3>3, <3>5 DEF RowsAreDistinct
  <2> QED BY <2>1, <2>2
<1>9. \A q \in Processes : Remembers(proc[q])'
  <2>1. \A z \in Process : Remembers(z) => Remembers(z)'
    <3>1. nextId' \in Nat
      BY <1>5
    <3> QED BY <1>5, <1>6, <3>1, RowsMove
  <2>2. \A q \in Processes : proc'[q] \in Process /\ Remembers(proc'[q])
    BY <1>3, <1>4 DEF IInv
  <2> QED BY <2>1, <2>2 DEF Remembers, Means
<1>10. \A q \in Runs : MatchesItsJobs(proc[q])'
  <2>1. ASSUME NEW q \in Runs, q # r PROVE MatchesItsJobs(proc[q])'
    <3>1. proc'[q] = proc[q] /\ MatchesItsJobs(proc[q])
      BY <1>4, <2>1 DEF IInv, Processes
    <3> QED BY <1>5, <3>1 DEF MatchesItsJobs
  <2>2. MatchesItsJobs(proc[r])'
    BY <1>0, <1>3, <1>4, <1>5, <1>6 DEF MatchesItsJobs
  <2> QED BY <2>1, <2>2
<1>11. Cardinality(jobs)' <= PageSize => \A c \in Cleanups : KnowsTheTable(proc[c])'
  <2>1. Cardinality(jobs) <= PageSize => \A c \in Cleanups : KnowsTheTable(proc'[c])
    BY <1>0, <1>4 DEF IInv, Processes
  <2> QED BY <1>0, <2>1 DEF KnowsTheTable
<1> QED BY <1>7, <1>8, <1>9, <1>10, <1>11 DEF IInv

\* A cleanup deletes a match: runs note it, and it is the match of the job that
\* the cleanup has listed it for.
LEMMA DeleteMatchIInv ==
  ASSUME IInv, NEW c \in Cleanups, DeleteMatch(c)
  PROVE  IInv'
<1> DEFINE x == proc[c]
<1>0. /\ c \in Processes /\ c \notin Runs /\ x \in Process /\ Remembers(x)
      /\ x.pc = "loop" /\ x.found = 0 /\ UNCHANGED <<jobs, track, nextId, faults>>
  BY ProcessFacts DEF DeleteMatch, Processes, IInv, TypeOK
<1>1. PICK l \in x.list :
        /\ rows' = {n \in rows : n.id # l.id}
        /\ proc' = [p \in Processes |->
                       IF p = c THEN [x EXCEPT !.list = @ \ {l}]
                       ELSE IF p \in Runs /\ proc[p].pc # "idle"
                       THEN [proc[p] EXCEPT !.deleted = @ \cup {l.job}]
                       ELSE proc[p]]
  BY DEF DeleteMatch
<1>2. l.job \in Jobs /\ Means(l.id, l.job) /\ x.list \ {l} \in SUBSET MatchRow
  BY <1>0 DEF Process, MatchRow, Remembers
<1>3. /\ proc'[c] \in Process /\ proc'[c].list \subseteq x.list
      /\ proc'[c].pc = x.pc /\ proc'[c].found = x.found /\ proc'[c].before = x.before
      /\ proc'[c].track = x.track /\ proc'[c].read = x.read
  <2> DEFINE y == [x EXCEPT !.list = x.list \ {l}]
  <2>1. y \in Process
    BY <1>0, <1>2, SetList
  <2>2. /\ y.list \subseteq x.list /\ y.pc = x.pc /\ y.found = x.found
        /\ y.before = x.before /\ y.track = x.track /\ y.read = x.read
    BY <1>0 DEF Process
  <2>3. proc'[c] = y
    BY <1>0, <1>1
  <2> HIDE DEF y
  <2> QED BY <2>1, <2>2, <2>3
<1>4. ASSUME NEW p \in Processes, p # c
      PROVE  /\ proc'[p] \in Process /\ proc'[p].pc = proc[p].pc
             /\ proc'[p].found = proc[p].found /\ proc'[p].job = proc[p].job
             /\ proc'[p].todo = proc[p].todo /\ proc'[p].list = proc[p].list
             /\ proc'[p].track = proc[p].track /\ proc'[p].read = proc[p].read
             /\ p \notin Runs => proc'[p] = proc[p]
             /\ p \in Runs /\ proc[p].pc # "idle" =>
                   proc'[p].deleted = proc[p].deleted \cup {l.job}
  <2> DEFINE z == [proc[p] EXCEPT !.deleted = @ \cup {l.job}]
  <2>1. proc[p] \in Process
    BY DEF IInv, TypeOK
  <2>2. z \in Process
    BY <1>2, <2>1, SetDeleted
  <2>3. /\ z.pc = proc[p].pc /\ z.found = proc[p].found /\ z.job = proc[p].job
        /\ z.todo = proc[p].todo /\ z.list = proc[p].list /\ z.track = proc[p].track
        /\ z.read = proc[p].read /\ z.deleted = proc[p].deleted \cup {l.job}
    BY <2>1 DEF Process
  <2>4. proc'[p] = IF p \in Runs /\ proc[p].pc # "idle" THEN z ELSE proc[p]
    BY <1>1, <1>4
  <2> HIDE DEF z
  <2> QED BY <2>1, <2>2, <2>3, <2>4
<1>5. proc' \in [Processes -> Process]
  <2>1. \A p \in Processes : proc'[p] \in Process
    BY <1>3, <1>4
  <2>2. proc' = [p \in Processes |-> proc'[p]]
    BY <1>1
  <2> QED BY <2>1, <2>2
<1>6. TypeOK' /\ IsFiniteSet(jobs)'
  <2>1. \A p \in Processes : proc'[p].found # 0 => proc'[p].pc = "write"
    BY <1>0, <1>3, <1>4 DEF IInv, TypeOK
  <2> QED BY <1>0, <1>1, <1>5, <2>1 DEF IInv, TypeOK
<1>7. RowsAreDistinct'
  BY <1>0, <1>1 DEF IInv, RowsAreDistinct
<1>8. \A p \in Processes : Remembers(proc[p])'
  <2>1. /\ nextId' \in Nat /\ nextId' >= nextId
        /\ \A n \in rows' : \E m \in rows : m.id = n.id /\ m.job = n.job
    BY <1>0, <1>1 DEF IInv, TypeOK
  <2>2. \A z \in Process : Remembers(z) => Remembers(z)'
    BY <2>1, RowsMove
  <2>3. ASSUME NEW p \in Processes
        PROVE  proc'[p] \in Process /\ Remembers(proc'[p])
    <3>1. CASE p = c
      BY <1>0, <1>3, <3>1 DEF Remembers
    <3>2. CASE p # c
      BY <1>4, <3>2 DEF IInv, Remembers
    <3> QED BY <3>1, <3>2
  <2> QED BY <2>2, <2>3 DEF Remembers, Means
<1>9. ASSUME NEW r \in Runs
      PROVE  MatchesItsJobs(proc[r])'
  <2>1. r \in Processes /\ r # c /\ MatchesItsJobs(proc[r])
    BY DEF Processes, IInv
  <2>2. proc'[r].pc = proc[r].pc /\ proc'[r].track = proc[r].track
        /\ proc'[r].read = proc[r].read /\ proc'[r].todo = proc[r].todo
        /\ (proc[r].pc # "idle" => proc'[r].deleted = proc[r].deleted \cup {l.job})
    BY <1>4, <2>1
  <2>3. \A m \in rows : m.job # l.job => m \in rows'
    BY <1>1, <1>2 DEF Means
  <2> QED BY <2>1, <2>2, <2>3 DEF MatchesItsJobs
<1>10. ASSUME Cardinality(jobs)' <= PageSize, NEW k \in Cleanups
       PROVE  KnowsTheTable(proc[k])'
  <2>1. k \in Processes /\ k \notin Runs /\ KnowsTheTable(proc[k])
    BY <1>0, <1>10 DEF Processes, IInv
  <2>2. CASE k # c
    <3>1. proc'[k] = proc[k]
      BY <1>4, <2>1, <2>2
    <3> QED BY <1>0, <2>1, <3>1 DEF KnowsTheTable
  <2>3. CASE k = c
    BY <1>0, <1>3, <2>1, <2>3 DEF KnowsTheTable
  <2> QED BY <2>2, <2>3
<1> QED BY <1>6, <1>7, <1>8, <1>9, <1>10 DEF IInv

-----------------------------------------------------------------------------
(* The invariant, and what follows from it.                                *)

\* The invariant holds at first.
LEMMA InitIInv == Init => IInv
<1> SUFFICES ASSUME Init PROVE IInv
  OBVIOUS
<1>1. 1 \in 1..(MaxRows + 1) /\ 0 \in 0..MaxFaults
  OBVIOUS
<1>2. \A p \in Processes : proc[p] = Idle
  BY DEF Init
<1>3. TypeOK
  BY <1>1, IdleFits DEF Init, TypeOK, Versions
<1>4. RowsAreDistinct /\ IsFiniteSet(jobs)
  BY DEF Init, RowsAreDistinct
<1> QED BY <1>2, <1>3, <1>4, IdleFits DEF IInv, Processes

\* Every step keeps it.
LEMMA NextIInv == IInv /\ [Next]_vars => IInv'
<1> SUFFICES ASSUME IInv, [Next]_vars PROVE IInv'
  OBVIOUS
<1>1. CASE UNCHANGED vars
  <2>1. TypeOK' /\ RowsAreDistinct' /\ IsFiniteSet(jobs)'
    BY <1>1 DEF vars, IInv, TypeOK, RowsAreDistinct
  <2>2. /\ \A p \in Processes : Remembers(proc[p])'
        /\ \A r \in Runs : MatchesItsJobs(proc[r])'
        /\ Cardinality(jobs)' <= PageSize => \A c \in Cleanups : KnowsTheTable(proc[c])'
    BY <1>1 DEF vars, IInv, Remembers, Means, MatchesItsJobs, KnowsTheTable
  <2> QED BY <2>1, <2>2 DEF IInv
<1>2. ASSUME NEW p \in Processes, Start(p) \/ ReadJobs(p) \/ Finish(p) \/ Abort(p)
      PROVE  IInv'
  BY <1>2, StartIInv, ReadJobsIInv, EndsIInv
<1> QED BY <1>1, <1>2, ReadTrackIInv, ListMatchesIInv, GetMatchIInv, UpdateMatchIInv,
     InsertMatchIInv, DeleteMatchIInv, WriteRationaleIInv, IngestIInv, EditTrackIInv
     DEF Next

\* The invariant holds throughout.
LEMMA Inductive == Spec => []IInv
  BY InitIInv, NextIInv, PTL DEF Spec

\* The tables and the processes keep their types.
THEOREM TypeCorrect == Spec => []TypeOK
  BY Inductive, PTL DEF IInv

\* No job a run is through with is unmatched or matched twice, for any number
\* of runs, scripts and faults.
THEOREM HandledJobsStayMatched == Spec => []HandledJobsAreMatched
<1>1. IInv => HandledJobsAreMatched
  <2> SUFFICES ASSUME IInv, NEW r \in Runs, proc[r].pc \in {"loop", "write"},
                      NEW j \in (proc[r].read \cap Passing[proc[r].track])
                                 \ (proc[r].todo \cup proc[r].deleted)
               PROVE  \E m \in rows : {n \in rows : n.job = j} = {m}
    BY DEF HandledJobsAreMatched
  <2>1. PICK m \in rows : m.job = j
    BY DEF IInv, MatchesItsJobs
  <2>2. {n \in rows : n.job = j} = {m}
    BY <2>1 DEF IInv, RowsAreDistinct
  <2> QED BY <2>2
<1> QED BY <1>1, Inductive, PTL

\* The rows a step leaves: they were there, or their id is new.
LEMMA StepKeepsRationales ==
  ASSUME IInv, [Next]_vars, NEW m \in rows, m.rationale,
         NEW n \in rows', n.id = m.id
  PROVE  n.rationale
<1>1. /\ rows \in SUBSET MatchRow /\ m \in MatchRow /\ m.id < nextId /\ nextId \in Nat
      /\ \A k \in rows : k.id = m.id => k = m
  BY DEF IInv, TypeOK, RowsAreDistinct
<1>2. CASE n \in rows
  BY <1>1, <1>2
<1>3. ASSUME NEW r \in Runs, UpdateMatch(r), n \notin rows
      PROVE  n.rationale
  <2>1. PICK k \in rows : n = Rescored(k, proc[r])
    BY <1>3 DEF UpdateMatch
  <2>2. n.id = k.id /\ n.rationale = k.rationale
    BY <1>1, <2>1 DEF Rescored, MatchRow
  <2> QED BY <1>1, <2>2
<1>4. ASSUME NEW r \in Runs, InsertMatch(r), n \notin rows
      PROVE  FALSE
  <2>1. n.id = nextId
    BY <1>4 DEF InsertMatch
  <2> QED BY <1>1, <2>1 DEF MatchRow
<1>5. ASSUME NEW b \in Backfills, WriteRationale(b), n \notin rows
      PROVE  n.rationale
  <2>1. PICK k \in rows : n = [k EXCEPT !.rationale = TRUE]
    BY <1>5 DEF WriteRationale
  <2> QED BY <1>1, <2>1 DEF MatchRow
<1>6. CASE rows' \subseteq rows
  BY <1>2, <1>6
<1>7. ASSUME NEW c \in Cleanups, DeleteMatch(c)
      PROVE  rows' \subseteq rows
  BY <1>7 DEF DeleteMatch
<1> QED BY <1>2, <1>3, <1>4, <1>5, <1>6, <1>7 DEF Next, vars, Start, ReadJobs, Finish,
     Abort, ReadTrack, ListMatches, GetMatch, Ingest, EditTrack

\* No run takes a rationale away, whenever it read the match.
THEOREM RationalesSurvive == Spec => RationaleSurvives
<1>1. IInv /\ [Next]_vars =>
        [\A m \in rows : m.rationale =>
            \A n \in rows' : n.id = m.id => n.rationale]_vars
  BY StepKeepsRationales
<1> QED BY <1>1, Inductive, PTL DEF Spec, RationaleSurvives

\* Only a cleanup takes a row away, and one that knows the table has listed it
\* because it fails the track or is new.
LEMMA StepDeletesStale ==
  ASSUME IInv, [Next]_vars, Cardinality(jobs) <= PageSize,
         NEW m \in rows, \A n \in rows' : n.id # m.id
  PROVE  \E c \in Cleanups :
            m.job \in Passing[proc[c].track] => m.job \notin proc[c].before
<1>1. rows \in SUBSET MatchRow
  BY DEF IInv, TypeOK
<1>2. ASSUME NEW r \in Runs, UpdateMatch(r)
      PROVE  \E n \in rows' : n.id = m.id
  <2>1. \A k \in rows : Rescored(k, proc[r]).id = k.id
    BY <1>1 DEF Rescored, MatchRow
  <2> QED BY <1>2, <2>1 DEF UpdateMatch
<1>3. ASSUME NEW b \in Backfills, WriteRationale(b)
      PROVE  \E n \in rows' : n.id = m.id
  <2> DEFINE Written(n) == [n EXCEPT !.rationale = TRUE]
  <2>1. \A k \in rows : Written(k).id = k.id
    BY <1>1 DEF MatchRow
  <2>2. PICK l : \/ rows' = rows
                 \/ rows' = (rows \ {n \in rows : n.id = l.id})
                            \cup {Written(n) : n \in {n \in rows : n.id = l.id}}
    BY <1>3 DEF WriteRationale
  <2> HIDE DEF Written
  <2> QED BY <2>1, <2>2
<1>4. m \notin rows'
  OBVIOUS
<1>5. ASSUME NEW r \in Runs, InsertMatch(r)
      PROVE  rows \subseteq rows'
  BY <1>5 DEF InsertMatch
<1>6. PICK c \in Cleanups : DeleteMatch(c)
  BY <1>2, <1>3, <1>4, <1>5 DEF Next, vars, Start, ReadJobs, Finish,
     Abort, ReadTrack, ListMatches, GetMatch, Ingest, EditTrack
<1>7. PICK l \in proc[c].list : rows' = {n \in rows : n.id # l.id}
  BY <1>6 DEF DeleteMatch
<1>8. m.id = l.id
  BY <1>4, <1>7
<1>9. m.job = l.job
  BY <1>8 DEF IInv, Processes, Remembers, Means
<1>10. KnowsTheTable(proc[c]) /\ proc[c].pc = "loop"
  BY <1>6 DEF IInv, DeleteMatch
<1> QED BY <1>9, <1>10 DEF KnowsTheTable

\* While the jobs fit into a page, no cleanup deletes a match that passes its
\* track and whose job it could have seen, whatever runs beside it.
THEOREM CleanupsDeleteOnlyStale == Spec => CleanupDeletesStaleOrUnseen
<1>1. IInv /\ [Next]_vars =>
        [Cardinality(jobs) <= PageSize =>
            \A m \in rows : (\A n \in rows' : n.id # m.id) =>
                \E c \in Cleanups :
                    m.job \in Passing[proc[c].track] => m.job \notin proc[c].before]_vars
  BY StepDeletesStale
<1> QED BY <1>1, Inductive, PTL DEF Spec, CleanupDeletesStaleOrUnseen
=============================================================================

-------------------------- MODULE IngestionProofs --------------------------
(***************************************************************************)
(* Proofs about ingestion, for any number of runs, connectors, sources,    *)
(* pages, listings, retries and faults.                                    *)
(*                                                                         *)
(* A step moves one run: Moves says what it then has to preserve, and the  *)
(* lemmas on Continue, SaveBatch and EndSource where these leave the run.  *)
(***************************************************************************)
EXTENDS Ingestion, TLAPS

USE IngestionAssumption, AttemptsAssumption, PageAssumption

\* What IInv says of one run, in a table of stored postings, after as many
\* failures as failed says.
Fits(x, stored, failed) ==
    /\ x \in Run /\ KnowsItsPlace(x) /\ KnowsItsJobs(x, stored)
    /\ failed = 0 => Follows(x)

\* Every job of the run, and every posting it will skip, is settled.
AllSettled(x, stored) ==
    /\ \A p \in x.reported \cup x.existing : Settled(x, p, stored)
    /\ \A u \in x.all : Settled(x, IdOf[u], stored)

\* The sources of a crawl up to the present one are covered.
Followed(x) ==
    Crawls(x) =>
        /\ x.extracted \subseteq x.all
        /\ \A s \in DOMAIN Sources(x) : s <= x.s => Covered(x, s)

\* The jobs of the present source cover it.
Reaches(x) ==
    \A n \in DOMAIN Sources(x)[x.s] :
        /\ n <= MaxPages
        /\ \A m \in 1..n : ~ Sources(x)[x.s][m] \subseteq Shown(x, x.s, m - 1)
        => Sources(x)[x.s][n] \subseteq x.all \cup x.jobs

-----------------------------------------------------------------------------
(* Typing.                                                                 *)

\* A connector has a sequence of sources, each a sequence of listing pages.
LEMMA SourceTypes ==
  ASSUME NEW x, x.c \in DOMAIN Connectors
  PROVE  /\ Crawls(x) \in BOOLEAN
         /\ Len(Sources(x)) \in Nat
         /\ DOMAIN Sources(x) = 1..Len(Sources(x))
         /\ \A s \in DOMAIN Sources(x) :
               /\ Len(Sources(x)[s]) \in Nat
               /\ DOMAIN Sources(x)[s] = 1..Len(Sources(x)[s])
               /\ \A n \in DOMAIN Sources(x)[s] : Sources(x)[s][n] \subseteq Urls
               /\ ~Crawls(x) => Len(Sources(x)[s]) = 1
<1>1. /\ Connectors[x.c] \in [crawls : BOOLEAN, sources : Seq(Seq(SUBSET Urls))]
      /\ \/ Connectors[x.c].crawls
         \/ \A s \in DOMAIN Connectors[x.c].sources :
               Len(Connectors[x.c].sources[s]) = 1
  <2> DEFINE C == [crawls : BOOLEAN, sources : Seq(Seq(SUBSET Urls))]
  <2>1. Connectors \in Seq(C)
    OBVIOUS
  <2> HIDE DEF C
  <2>2. Connectors[x.c] \in C
    BY <2>1
  <2> QED BY <2>2 DEF C
<1>2. Sources(x) \in Seq(Seq(SUBSET Urls)) /\ Crawls(x) \in BOOLEAN
  BY <1>1 DEF Sources, Crawls
<1>3. ASSUME NEW s \in DOMAIN Sources(x)
      PROVE  Sources(x)[s] \in Seq(SUBSET Urls)
  BY <1>2
<1>4. ASSUME NEW s \in DOMAIN Sources(x)
      PROVE  ~Crawls(x) => Len(Sources(x)[s]) = 1
  BY <1>1 DEF Sources, Crawls
<1> QED BY <1>2, <1>3, <1>4

\* A run at rest.
LEMMA IdleFits == ASSUME NEW stored, NEW failed PROVE Fits(Idle, stored, failed)
<1>1. /\ "idle" \in Steps /\ 0 \in 0..MaxAttempts /\ 0 \in 0..Len(Connectors)
      /\ 1 \in 1..MaxPages
  BY DEF Steps
<1>2. Idle \in Run
  BY <1>1 DEF Idle, Run
<1>3. KnowsItsPlace(Idle) /\ KnowsItsJobs(Idle, stored) /\ Follows(Idle)
  BY DEF Idle, KnowsItsPlace, KnowsItsJobs, Follows
<1> QED BY <1>2, <1>3 DEF Fits

\* A run stays typed when its control point is replaced, alone or with the
\* page it is on,
LEMMA SetPage ==
  ASSUME NEW x \in Run, NEW pc \in Steps, NEW n \in 1..MaxPages
  PROVE  [x EXCEPT !.pc = pc, !.n = n] \in Run
  BY DEF Run

\* ... with what it reads of the ids,
LEMMA SetExisting ==
  ASSUME NEW x \in Run, NEW pc \in Steps, NEW e \in SUBSET Postings, NEW o \in Nat
  PROVE  [x EXCEPT !.existing = e, !.pc = pc, !.offset = o] \in Run
  BY DEF Run

\* ... with what a listing page shows,
LEMMA SetListing ==
  ASSUME NEW x \in Run, NEW pc \in Steps, NEW seen \in SUBSET Urls,
         NEW todo \in SUBSET Urls
  PROVE  [x EXCEPT !.pc = pc, !.seen = seen, !.todo = todo] \in Run
  BY DEF Run

\* ... with the listings it has extracted,
LEMMA SetExtracted ==
  ASSUME NEW x \in Run, NEW todo \in SUBSET Urls, NEW done \in SUBSET Urls,
         NEW jobs \in SUBSET Urls
  PROVE  [x EXCEPT !.todo = todo, !.extracted = done, !.jobs = jobs] \in Run
  BY DEF Run

\* ... with the jobs it was given,
LEMMA SetAll ==
  ASSUME NEW x \in Run, NEW all \in SUBSET Urls
  PROVE  [x EXCEPT !.all = all] \in Run
  BY DEF Run

\* ... with a batch to save,
LEMMA SetBatch ==
  ASSUME NEW x \in Run, NEW rep \in SUBSET Postings, NEW e \in SUBSET Postings,
         NEW new \in SUBSET Urls
  PROVE  [x EXCEPT !.reported = rep, !.existing = e, !.batch = new] \in Run
  BY DEF Run

\* ... with the counter of its attempts,
LEMMA SetTries ==
  ASSUME NEW x \in Run, NEW pc \in Steps, NEW n \in 0..MaxAttempts
  PROVE  [x EXCEPT !.pc = pc, !.tries = n] \in Run
  BY DEF Run

\* ... with the row it retries,
LEMMA SetRow ==
  ASSUME NEW x \in Run, NEW u \in Urls, NEW n \in 0..MaxAttempts
  PROVE  [x EXCEPT !.tries = n, !.row = u] \in Run
  BY DEF Run

\* ... and when it is done with a row.
LEMMA SetRest ==
  ASSUME NEW x \in Run, NEW batch \in SUBSET Urls, NEW d \in SUBSET Urls
  PROVE  [x EXCEPT !.batch = batch, !.tries = 0, !.row = "none", !.dropped = d] \in Run
<1>1. 0 \in 0..MaxAttempts
  OBVIOUS
<1> QED BY <1>1 DEF Run

-----------------------------------------------------------------------------
(* Where the helpers leave a run.                                          *)

\* The next connector is entered at its first source.
LEMMA StartConnectorFits ==
  ASSUME NEW c \in Nat \ {0}, NEW stored, NEW failed
  PROVE  Fits(StartConnector(c), stored, failed)
<1>1. CASE FirstFrom(c) = {}
  BY <1>1, IdleFits DEF StartConnector
<1>2. CASE FirstFrom(c) # {}
  <2> DEFINE d == CHOOSE d \in FirstFrom(c) : TRUE
             y == [Idle EXCEPT !.pc = "ids", !.c = d]
  <2>1. d \in FirstFrom(c)
    BY <1>2
  <2>2. d \in DOMAIN Connectors /\ Connectors[d].sources # <<>>
    BY <2>1 DEF FirstFrom
  <2>3. StartConnector(c) = y
    BY <1>2 DEF StartConnector
  <2> HIDE DEF d
  <2>4. Idle \in Run /\ "ids" \in Steps /\ d \in 0..Len(Connectors)
    <3>1. Idle \in Run
      BY IdleFits DEF Fits
    <3>2. DOMAIN Connectors = 1..Len(Connectors) /\ Len(Connectors) \in Nat
      OBVIOUS
    <3> QED BY <2>2, <3>1, <3>2 DEF Steps
  <2>5. y \in Run
    BY <2>4 DEF Run
  <2>6. /\ y.pc = "ids" /\ y.c = d /\ y.s = 1 /\ y.n = 1 /\ y.batch = {}
        /\ y.seen = {} /\ y.extracted = {} /\ y.all = {} /\ y.reported = {}
        /\ y.existing = {}
    BY DEF Idle
  <2> HIDE DEF y
  <2>7. 1 \in DOMAIN Sources(y)
    <3>1. Sources(y) # <<>> /\ Sources(y) \in Seq(Seq(SUBSET Urls))
      <4> DEFINE C == [crawls : BOOLEAN, sources : Seq(Seq(SUBSET Urls))]
      <4>1. Connectors \in Seq(C)
        OBVIOUS
      <4> HIDE DEF C
      <4>2. Connectors[d] \in C
        BY <2>2, <4>1
      <4> QED BY <2>2, <2>6, <4>2 DEF C, Sources
    <3> QED BY <3>1
  <2>8. KnowsItsPlace(y)
    BY <2>2, <2>6, <2>7 DEF KnowsItsPlace
  <2>9. KnowsItsJobs(y, stored)
    BY <2>6 DEF KnowsItsJobs
  <2>10. Follows(y)
    <3>1. \A s \in DOMAIN Sources(y) : ~(s < y.s)
      BY <2>2, <2>6, SourceTypes
    <3>2. Shown(y, y.s, y.n - 1) = {}
      BY <2>6 DEF Shown
    <3> QED BY <2>6, <3>1, <3>2 DEF Follows
  <2> QED BY <2>3, <2>5, <2>8, <2>9, <2>10 DEF Fits
<1> QED BY <1>1, <1>2

\* What a run knows of a posting depends on its jobs and failed rows alone,
\* and only grows with them and with the table.
LEMMA SettledGrows ==
  ASSUME NEW x, NEW y, NEW p \in Postings, NEW old \in [Postings -> Nat],
         NEW new \in [Postings -> Nat], old[p] <= new[p],
         x.all \subseteq y.all, x.dropped \subseteq y.dropped,
         Settled(x, p, old)
  PROVE  Settled(y, p, new)
  BY DEF Settled

\* A covered source stays covered while the run stays with its connector.
LEMMA CoveredGrows ==
  ASSUME NEW x, NEW y, NEW s, y.c = x.c, x.all \subseteq y.all, Covered(x, s)
  PROVE  Covered(y, s)
<1>1. Sources(y) = Sources(x)
  BY DEF Sources
<1>2. \A n : Shown(y, s, n) = Shown(x, s, n)
  BY <1>1 DEF Shown
<1> QED BY <1>1, <1>2 DEF Covered

\* After a source whose jobs are settled, the run goes on to a source, to the
\* return of a crawler or to a connector.
LEMMA ContinueFits ==
  ASSUME NEW x \in Run, NEW stored \in [Postings -> Nat], NEW failed,
         x.c \in DOMAIN Connectors, x.s > 0, AllSettled(x, stored),
         failed = 0 => Followed(x)
  PROVE  Fits(Continue(x), stored, failed)
<1> DEFINE more == x.s < Len(Sources(x)) + (IF Crawls(x) THEN 1 ELSE 0)
           pc == IF x.s < Len(Sources(x)) THEN "page" ELSE "return"
           y == [x EXCEPT !.pc = pc, !.s = @ + 1, !.n = 1, !.seen = {},
                          !.todo = {}, !.jobs = {}, !.batch = {}, !.row = "none",
                          !.tries = 0]
<1>0. Len(Sources(x)) \in Nat /\ DOMAIN Sources(x) = 1..Len(Sources(x))
  BY SourceTypes
<1>1. CASE ~more
  <2>1. x.c + 1 \in Nat \ {0}
    BY DEF Run
  <2> QED BY <1>1, <2>1, StartConnectorFits DEF Continue
<1>2. CASE more
  <2>1. Continue(x) = y
    BY <1>2 DEF Continue
  <2>2. y \in Run
    <3>1. pc \in Steps /\ x.s + 1 \in Nat /\ 0 \in 0..MaxAttempts /\ 1 \in 1..MaxPages
      BY DEF Steps, Run
    <3> HIDE DEF pc
    <3> QED BY <3>1 DEF Run
  <2>3. /\ y.pc = pc /\ y.c = x.c /\ y.s = x.s + 1 /\ y.n = 1 /\ y.seen = {}
        /\ y.batch = {} /\ y.jobs = {} /\ y.all = x.all /\ y.dropped = x.dropped
        /\ y.reported = x.reported /\ y.existing = x.existing
        /\ y.extracted = x.extracted
    BY DEF Run
  <2>4. Sources(y) = Sources(x) /\ Crawls(y) = Crawls(x)
    BY <2>3 DEF Sources, Crawls
  <2>5. x.s \in Nat
    BY DEF Run
  <2> HIDE DEF y
  <2>6. KnowsItsPlace(y)
    BY <1>0, <1>2, <2>3, <2>4, <2>5 DEF KnowsItsPlace
  <2>7. KnowsItsJobs(y, stored)
    BY <2>3 DEF KnowsItsJobs, AllSettled, Settled
  <2>8. ASSUME failed = 0 PROVE Follows(y)
    <3>1. SUFFICES ASSUME Crawls(x) PROVE Follows(y)
      BY <2>4 DEF Follows
    <3>2. \A s \in DOMAIN Sources(y) : s < y.s => Covered(y, s)
      <4>1. \A s \in DOMAIN Sources(x) : s <= x.s => Covered(x, s)
        BY <2>8, <3>1 DEF Followed
      <4>2. \A s \in DOMAIN Sources(x) : s < x.s + 1 => s <= x.s
        BY <1>0, <2>5
      <4> QED BY <4>1, <4>2, <2>3, <2>4, CoveredGrows
    <3>3. Shown(y, y.s, y.n - 1) = {}
      BY <2>3 DEF Shown
    <3>4. x.extracted \subseteq x.all
      BY <2>8, <3>1 DEF Followed
    <3> QED BY <2>3, <3>2, <3>3, <3>4 DEF Follows
  <2> QED BY <2>1, <2>2, <2>6, <2>7, <2>8 DEF Fits
<1> QED BY <1>1, <1>2

\* save_batch skips settled jobs only, and the others become the batch.
LEMMA SaveBatchFits ==
  ASSUME NEW x \in Run, NEW jobs \in SUBSET Urls, jobs \subseteq x.all,
         NEW stored \in [Postings -> Nat], NEW failed,
         x.c \in DOMAIN Connectors, x.s > 0,
         \A p \in x.reported \cup x.existing : Settled(x, p, stored),
         \A u \in x.all \ jobs : Settled(x, IdOf[u], stored),
         failed = 0 => Followed(x)
  PROVE  Fits(SaveBatch(x, jobs), stored, failed)
<1> DEFINE fresh == {u \in jobs : IdOf[u] \notin x.reported}
           new == {u \in fresh : IdOf[u] \notin x.existing}
           y == [x EXCEPT !.reported = @ \cup Ids(fresh),
                          !.existing = @ \cup Ids(new), !.batch = new]
           z == [y EXCEPT !.pc = "batch", !.tries = 0]
<1>1. y \in Run
  <2>1. /\ x.reported \cup Ids(fresh) \in SUBSET Postings
        /\ x.existing \cup Ids(new) \in SUBSET Postings /\ new \in SUBSET Urls
    BY DEF Run, Ids
  <2> HIDE DEF fresh, new
  <2> QED BY <2>1, SetBatch
<1>2. /\ y.c = x.c /\ y.s = x.s /\ y.all = x.all /\ y.dropped = x.dropped
      /\ y.reported = x.reported \cup Ids(fresh)
      /\ y.existing = x.existing \cup Ids(new)
      /\ y.batch = new /\ y.extracted = x.extracted
  <2> HIDE DEF fresh, new
  <2> QED BY DEF Run
<1>3. Sources(y) = Sources(x) /\ Crawls(y) = Crawls(x)
  BY <1>2 DEF Sources, Crawls
<1>4. \A p \in y.reported \cup y.existing :
         Settled(y, p, stored) \/ \E v \in new : IdOf[v] = p
  BY <1>2 DEF Settled, Ids
<1>5. \A u \in x.all \ new : Settled(y, IdOf[u], stored)
  BY <1>2 DEF Settled
<1>6. ASSUME failed = 0 PROVE Followed(y)
  <2>1. SUFFICES ASSUME Crawls(x) PROVE Followed(y)
    BY <1>3 DEF Followed
  <2>2. Followed(x)
    BY <1>6
  <2> HIDE DEF y
  <2> QED BY <1>2, <1>3, <2>1, <2>2, CoveredGrows DEF Followed
<1>7. new \subseteq x.all
  OBVIOUS
<1>8. SaveBatch(x, jobs) = IF new = {} THEN Continue(y) ELSE z
  BY DEF SaveBatch
<1>9. CASE new = {}
  <2> HIDE DEF y, fresh, new
  <2>1. AllSettled(y, stored)
    BY <1>2, <1>4, <1>5, <1>9 DEF AllSettled
  <2> QED BY <1>1, <1>2, <1>6, <1>8, <1>9, <2>1, ContinueFits
<1>10. CASE new # {}
  <2> HIDE DEF y, fresh, new
  <2>1. z \in Run
    <3>1. "batch" \in Steps /\ 0 \in 0..MaxAttempts
      BY DEF Steps
    <3> QED BY <1>1, <3>1, SetTries
  <2>2. /\ z.pc = "batch" /\ z.c = y.c /\ z.s = y.s /\ z.all = y.all
        /\ z.dropped = y.dropped /\ z.reported = y.reported
        /\ z.existing = y.existing /\ z.batch = y.batch
        /\ z.extracted = y.extracted
    BY <1>1 DEF Run
  <2>3. Sources(z) = Sources(y) /\ Crawls(z) = Crawls(y)
    BY <2>2 DEF Sources, Crawls
  <2> HIDE DEF z
  <2>4. KnowsItsPlace(z)
    BY <1>2, <2>2 DEF KnowsItsPlace
  <2>5. KnowsItsJobs(z, stored)
    BY <1>2, <1>4, <1>5, <1>7, <2>2 DEF KnowsItsJobs, Settled
  <2>6. ASSUME failed = 0 PROVE Follows(z)
    <3>1. SUFFICES ASSUME Crawls(y) PROVE Follows(z)
      BY <2>3 DEF Follows
    <3>2. Followed(y)
      BY <1>6, <2>6
    <3>3. \A s \in DOMAIN Sources(z) : s < z.s \/ s = z.s => Covered(z, s)
      <4>1. \A s \in DOMAIN Sources(y) : s < y.s \/ s = y.s => s <= y.s
        <5>1. DOMAIN Sources(y) \subseteq Nat /\ y.s \in Nat
          <6>1. y.c \in DOMAIN Connectors
            BY <1>2
          <6>2. DOMAIN Sources(y) = 1..Len(Sources(y)) /\ Len(Sources(y)) \in Nat
            BY <6>1, SourceTypes
          <6>3. y.s \in Nat
            BY <1>1 DEF Run
          <6> QED BY <6>2, <6>3
        <5> QED BY <5>1
      <4> QED BY <2>2, <2>3, <3>1, <3>2, <4>1, CoveredGrows DEF Followed
    <3> QED BY <2>2, <3>1, <3>2, <3>3 DEF Follows, Followed
  <2> QED BY <1>8, <1>10, <2>1, <2>4, <2>5, <2>6 DEF Fits
<1> QED BY <1>9, <1>10

\* More jobs settle nothing less, and they are the batch or settled.
LEMMA HandOverFits ==
  ASSUME NEW x \in Run, NEW jobs \in SUBSET Urls,
         NEW stored \in [Postings -> Nat], NEW failed,
         x.c \in DOMAIN Connectors, x.s > 0, x.batch = {}, KnowsItsJobs(x, stored),
         failed = 0 => Followed([x EXCEPT !.all = @ \cup jobs])
  PROVE  Fits(SaveBatch([x EXCEPT !.all = @ \cup jobs], jobs), stored, failed)
<1> DEFINE y == [x EXCEPT !.all = @ \cup jobs]
<1>1. y \in Run
  <2>1. x.all \cup jobs \in SUBSET Urls
    BY DEF Run
  <2> QED BY <2>1, SetAll
<1>2. /\ y.c = x.c /\ y.s = x.s /\ y.all = x.all \cup jobs
      /\ y.dropped = x.dropped /\ y.reported = x.reported
      /\ y.existing = x.existing
  BY DEF Run
<1>3. failed = 0 => Followed(y)
  OBVIOUS
<1> HIDE DEF y
<1>4. \A p \in y.reported \cup y.existing : Settled(y, p, stored)
  BY <1>2 DEF KnowsItsJobs, Settled
<1>5. \A u \in y.all \ jobs : Settled(y, IdOf[u], stored)
  BY <1>2 DEF KnowsItsJobs, Settled
<1>6. jobs \subseteq y.all /\ y.c \in DOMAIN Connectors /\ y.s > 0
  BY <1>2
<1>7. Fits(SaveBatch(y, jobs), stored, failed)
  BY <1>1, <1>3, <1>4, <1>5, <1>6, SaveBatchFits
<1> QED BY <1>7 DEF y

\* A crawler's source ends covered, and its jobs are handed over.
LEMMA EndSourceFits ==
  ASSUME NEW x \in Run, NEW stored \in [Postings -> Nat], NEW failed,
         x.pc \in {"page", "extract"}, KnowsItsPlace(x), KnowsItsJobs(x, stored),
         failed = 0 => Follows(x) /\ Reaches(x)
  PROVE  Fits(EndSource(x), stored, failed)
<1> DEFINE y == [x EXCEPT !.all = @ \cup x.jobs]
<1>1. /\ x.c \in DOMAIN Connectors /\ x.s \in DOMAIN Sources(x) /\ x.s > 0
      /\ x.jobs \in SUBSET Urls
  BY DEF KnowsItsPlace, Run
<1>2. x.batch = {}
  BY DEF KnowsItsJobs
<1>3. /\ y.c = x.c /\ y.s = x.s /\ y.all = x.all \cup x.jobs
      /\ y.extracted = x.extracted
  BY DEF Run
<1>4. Sources(y) = Sources(x) /\ Crawls(y) = Crawls(x)
  BY <1>3 DEF Sources, Crawls
<1> HIDE DEF y
<1>5. ASSUME failed = 0 PROVE Followed(y)
  <2>1. SUFFICES ASSUME Crawls(x) PROVE Followed(y)
    BY <1>4 DEF Followed
  <2>2. /\ \A s \in DOMAIN Sources(x) : s < x.s => Covered(x, s)
        /\ x.extracted \subseteq x.all \cup x.jobs
    BY <1>5, <2>1 DEF Follows
  <2>3. Covered(y, x.s)
    <3>1. \A s, k : Shown(y, s, k) = Shown(x, s, k)
      BY <1>4 DEF Shown
    <3> QED BY <1>3, <1>4, <1>5, <3>1 DEF Covered, Reaches
  <2>4. \A s \in DOMAIN Sources(x) : s <= x.s => s < x.s \/ s = x.s
    <3>1. DOMAIN Sources(x) \subseteq Nat
      BY <1>1, SourceTypes
    <3> QED BY <1>1, <3>1
  <2>5. \A s \in DOMAIN Sources(y) : s <= y.s => Covered(y, s)
    BY <1>3, <1>4, <2>2, <2>3, <2>4, CoveredGrows
  <2> QED BY <1>3, <2>2, <2>5 DEF Followed
<1>6. Fits(SaveBatch(y, x.jobs), stored, failed)
  BY <1>1, <1>2, <1>5, HandOverFits DEF y
<1>7. EndSource(x) = SaveBatch(y, x.jobs)
  BY DEF EndSource, y
<1> QED BY <1>6, <1>7

-----------------------------------------------------------------------------
(* The steps.                                                              *)

\* What IInv says, run by run.
LEMMA EveryRunFits ==
  IInv <=> /\ table \in [Postings -> Nat] /\ counted \in [Postings -> Nat]
           /\ run \in [Runs -> Run] /\ faults \in 0..MaxFaults
           /\ \A p \in Postings : counted[p] <= table[p]
           /\ \A r \in Runs : Fits(run[r], table, faults)
  BY DEF IInv, TypeOK, Fits

\* A step that moves one run to where it fits, and takes nothing from the
\* table, preserves the invariant.
LEMMA Moves ==
  ASSUME IInv, NEW r \in Runs, NEW y, Become(r, y), Fits(y, table', faults'),
         table' \in [Postings -> Nat], \A p \in Postings : table[p] <= table'[p],
         counted' \in [Postings -> Nat], \A p \in Postings : counted'[p] <= table'[p],
         faults' \in 0..MaxFaults, faults' >= faults
  PROVE  IInv'
<1>1. run \in [Runs -> Run] /\ faults \in 0..MaxFaults /\ table \in [Postings -> Nat]
  BY DEF IInv, TypeOK
<1>2. run'[r] = y /\ \A w \in Runs : w # r => run'[w] = run[w]
  BY <1>1 DEF Become
<1>3. y \in Run /\ KnowsItsPlace(y) /\ KnowsItsJobs(y, table')
  BY DEF Fits
<1>4. TypeOK'
  BY <1>1, <1>3 DEF TypeOK, Become
<1>5. ASSUME NEW w \in Runs PROVE KnowsItsPlace(run[w])'
  BY <1>2, <1>3 DEF IInv, KnowsItsPlace, Sources, Crawls
<1>6. ASSUME NEW w \in Runs PROVE KnowsItsJobs(run[w], table)'
  <2>1. CASE w = r
    BY <1>2, <1>3, <2>1 DEF KnowsItsJobs, Settled
  <2>2. CASE w # r
    <3>1. KnowsItsJobs(run[w], table) /\ run[w] \in Run
      BY <1>1 DEF IInv
    <3>2. \A p \in Postings : Settled(run[w], p, table) => Settled(run[w], p, table')
      BY <1>1, SettledGrows
    <3>3. /\ \A u \in Urls : IdOf[u] \in Postings
          /\ run[w].all \subseteq Urls
          /\ run[w].reported \cup run[w].existing \subseteq Postings
      BY <3>1 DEF Run
    <3>4. KnowsItsJobs(run[w], table')
      BY <3>1, <3>2, <3>3 DEF KnowsItsJobs
    <3> QED BY <1>2, <2>2, <3>4 DEF KnowsItsJobs, Settled
  <2> QED BY <2>1, <2>2
<1>7. ASSUME (faults = 0)', NEW w \in Runs PROVE Follows(run[w])'
  <2>1. faults = 0
    BY <1>1, <1>7
  <2>2. Follows(run'[w])
    BY <1>2, <1>7, <2>1 DEF IInv, Fits
  <2> QED BY <2>2 DEF Follows, Covered, Shown, Sources, Crawls
<1> QED BY <1>4, <1>5, <1>6, <1>7 DEF IInv

\* The same for a step that leaves the table alone.
LEMMA MovesAlone ==
  ASSUME IInv, NEW r \in Runs, NEW y, Become(r, y), UNCHANGED <<table, counted>>,
         Fits(y, table, faults'), faults' = faults \/ Fault
  PROVE  IInv'
<1>1. /\ faults \in 0..MaxFaults /\ table \in [Postings -> Nat]
      /\ counted \in [Postings -> Nat] /\ \A p \in Postings : counted[p] <= table[p]
  BY DEF IInv, TypeOK
<1>2. faults' \in 0..MaxFaults /\ faults' >= faults
  BY <1>1 DEF Fault
<1>3. \A p \in Postings : table[p] <= table[p]
  BY <1>1
<1> QED BY <1>1, <1>2, <1>3, Moves

\* A fault is counted.
LEMMA FaultSpoils == ASSUME IInv, Fault PROVE faults' # 0
  BY DEF IInv, TypeOK, Fault

\* What the invariant says of a run that is not at rest.
LEMMA RunFacts ==
  ASSUME IInv, NEW r \in Runs
  PROVE  /\ run[r] \in Run /\ table \in [Postings -> Nat]
         /\ KnowsItsPlace(run[r]) /\ KnowsItsJobs(run[r], table)
         /\ faults = 0 => Follows(run[r])
         /\ run[r].pc # "idle" => /\ run[r].c \in DOMAIN Connectors
                                  /\ run[r].s > 0 /\ run[r].c + 1 \in Nat \ {0}
  BY DEF IInv, TypeOK, KnowsItsPlace, Run

\* Start preserves the invariant.
LEMMA StartIInv == ASSUME IInv, NEW r \in Runs, Start(r) PROVE IInv'
  BY StartConnectorFits, MovesAlone DEF Start

\* So does Kill,
LEMMA KillIInv == ASSUME IInv, NEW r \in Runs, Kill(r) PROVE IInv'
  BY IdleFits, MovesAlone DEF Kill

\* ... CrawlFails,
LEMMA CrawlFailsIInv == ASSUME IInv, NEW r \in Runs, CrawlFails(r) PROVE IInv'
  BY RunFacts, StartConnectorFits, MovesAlone DEF CrawlFails

\* ... ReadIds: what it reads is stored,
LEMMA ReadIdsIInv ==
  ASSUME IInv, NEW r \in Runs, ReadIds(r)
  PROVE  IInv'
<1> DEFINE x == run[r]
           listed == UNION {UNION {Sources(x)[s][n] : n \in DOMAIN Sources(x)[s]} :
                                s \in DOMAIN Sources(x)}
           stored == {p \in Ids(listed) : table[p] > 0}
<1>1. /\ x.pc = "ids" /\ UNCHANGED <<table, counted>>
      /\ \/ \E page \in PagesAt(stored, x.offset) :
               Become(r, [x EXCEPT !.existing = @ \cup page,
                             !.pc = IF LastPage(page) THEN "page" ELSE "ids",
                             !.offset = IF LastPage(page) THEN 0 ELSE @ + PageSize])
            /\ UNCHANGED faults
         \/ Become(r, Idle) /\ Fault
  BY DEF ReadIds
<1>2. CASE Become(r, Idle) /\ Fault
  BY <1>1, <1>2, IdleFits, MovesAlone
<1>3. ASSUME NEW page \in PagesAt(stored, x.offset), UNCHANGED faults,
             Become(r, [x EXCEPT !.existing = @ \cup page,
                           !.pc = IF LastPage(page) THEN "page" ELSE "ids",
                           !.offset = IF LastPage(page) THEN 0 ELSE @ + PageSize])
      PROVE  IInv'
  <2> DEFINE pc == IF LastPage(page) THEN "page" ELSE "ids"
             offset == IF LastPage(page) THEN 0 ELSE x.offset + PageSize
             y == [x EXCEPT !.existing = x.existing \cup page, !.pc = pc,
                            !.offset = offset]
  <2>1. Become(r, y)
    BY <1>3
  <2>2. x \in Run /\ KnowsItsPlace(x) /\ KnowsItsJobs(x, table)
        /\ table \in [Postings -> Nat] /\ x.c \in DOMAIN Connectors
    BY <1>1, RunFacts
  <2>3. page \subseteq Postings /\ \A p \in page : table[p] > 0
    <3>1. listed \subseteq Urls
      <4>1. \A s \in DOMAIN Sources(x) : \A n \in DOMAIN Sources(x)[s] :
               Sources(x)[s][n] \subseteq Urls
        BY <2>2, SourceTypes
      <4> QED BY <4>1
    <3>2. Ids(listed) \subseteq Postings
      BY <3>1 DEF Ids
    <3> HIDE DEF listed
    <3> QED BY <1>3, <3>2 DEF PagesAt
  <2>4. pc \in {"page", "ids"} /\ pc \in Steps /\ offset \in Nat
    BY <2>2 DEF Steps, Run
  <2> HIDE DEF pc, offset
  <2>5. y \in Run
    BY <2>2, <2>3, <2>4, SetExisting DEF Run
  <2>6. /\ y.pc = pc /\ y.c = x.c /\ y.s = x.s /\ y.n = x.n /\ y.seen = x.seen
        /\ y.batch = x.batch /\ y.jobs = x.jobs /\ y.all = x.all
        /\ y.dropped = x.dropped /\ y.reported = x.reported
        /\ y.existing = x.existing \cup page /\ y.extracted = x.extracted
    BY <2>2 DEF Run
  <2>7. Sources(y) = Sources(x) /\ Crawls(y) = Crawls(x)
    BY <2>6 DEF Sources, Crawls
  <2> HIDE DEF y
  <2>8. KnowsItsPlace(y)
    BY <1>1, <2>2, <2>4, <2>6, <2>7 DEF KnowsItsPlace
  <2>9. KnowsItsJobs(y, table)
    BY <1>1, <2>2, <2>3, <2>4, <2>6 DEF KnowsItsJobs, Settled
  <2>10. Follows(x) => Follows(y)
    <3>1. \A s, k : Shown(y, s, k) = Shown(x, s, k)
      BY <2>7 DEF Shown
    <3>2. \A s : Covered(x, s) => Covered(y, s)
      BY <2>6, CoveredGrows
    <3> QED BY <1>1, <2>4, <2>6, <2>7, <3>1, <3>2 DEF Follows
  <2>11. Fits(y, table, faults')
    BY <1>3, <2>5, <2>8, <2>9, <2>10, RunFacts DEF Fits
  <2> QED BY <1>1, <1>3, <2>1, <2>11, MovesAlone
<1> QED BY <1>1, <1>2, <1>3

\* A page beyond the last one, or with nothing new to the source, ends a
\* source covered: all that is followed of it has been seen.
LEMMA NothingNew ==
  ASSUME NEW x \in Run, x.pc = "page", Crawls(x), KnowsItsPlace(x), Follows(x),
         \/ x.n > Len(Sources(x)[x.s])
         \/ Sources(x)[x.s][x.n] \subseteq x.seen
  PROVE  Reaches(x)
<1> DEFINE pages == Sources(x)[x.s]
<1>0. SUFFICES ASSUME NEW n \in DOMAIN pages,
                      \A m \in 1..n : ~ pages[m] \subseteq Shown(x, x.s, m - 1)
               PROVE  pages[n] \subseteq x.all \cup x.jobs
  BY DEF Reaches
<1>1. /\ Len(pages) \in Nat /\ DOMAIN pages = 1..Len(pages) /\ x.n \in Nat \ {0}
  BY SourceTypes DEF KnowsItsPlace, Run
<1>2. x.seen = Shown(x, x.s, x.n - 1) /\ x.seen \subseteq x.all \cup x.jobs
  BY DEF Follows
<1>3. n \in Nat /\ 1 <= n /\ n <= Len(pages)
  BY <1>1
<1>4. n < x.n
  <2>1. CASE x.n > Len(pages)
    BY <1>1, <1>3, <2>1
  <2>2. CASE pages[x.n] \subseteq x.seen
    <3>1. x.n \notin 1..n
      BY <1>0, <1>2, <2>2
    <3> QED BY <1>1, <1>3, <3>1
  <2> QED BY <2>1, <2>2
<1>5. n \in 1..(x.n - 1)
  BY <1>1, <1>3, <1>4
<1>6. pages[n] \subseteq Shown(x, x.s, x.n - 1)
  BY <1>5 DEF Shown
<1> QED BY <1>2, <1>6

\* One more page is shown.
LEMMA ShownGrows ==
  ASSUME NEW x, x.c \in DOMAIN Connectors, NEW s \in DOMAIN Sources(x),
         NEW n \in Nat \ {0}
  PROVE  Shown(x, s, n) = Shown(x, s, n - 1) \cup
                             IF n <= Len(Sources(x)[s]) THEN Sources(x)[s][n] ELSE {}
<1>1. Len(Sources(x)[s]) \in Nat /\ DOMAIN Sources(x)[s] = 1..Len(Sources(x)[s])
  BY SourceTypes
<1>2. (1..n) = (1..(n - 1)) \cup {n}
  OBVIOUS
<1>3. n \in DOMAIN Sources(x)[s] <=> n <= Len(Sources(x)[s])
  BY <1>1
<1> QED BY <1>2, <1>3 DEF Shown

\* ... FetchPage,
LEMMA FetchPageIInv ==
  ASSUME IInv, NEW r \in Runs, FetchPage(r)
  PROVE  IInv'
<1> DEFINE x == run[r]
           source == Sources(x)[x.s]
           listing == IF x.n <= Len(source) THEN source[x.n] ELSE {}
           new == NewToSource(x, listing)
           y == [x EXCEPT !.pc = "extract", !.seen = x.seen \cup new,
                          !.todo = new \ x.extracted]
<1>1. /\ x.pc = "page" /\ Crawls(x) /\ UNCHANGED <<table, counted>>
      /\ \/ new # {} /\ Become(r, y) /\ UNCHANGED faults
         \/ new = {} /\ Become(r, EndSource(x)) /\ UNCHANGED faults
         \/ Become(r, EndSource(x)) /\ Fault
  BY DEF FetchPage
<1>2. /\ x \in Run /\ KnowsItsPlace(x) /\ KnowsItsJobs(x, table)
      /\ table \in [Postings -> Nat] /\ x.c \in DOMAIN Connectors
      /\ faults = 0 => Follows(x)
  BY <1>1, RunFacts
<1>3. /\ x.s \in DOMAIN Sources(x) /\ x.n \in Nat \ {0} /\ x.seen \subseteq Urls
      /\ x.extracted \subseteq Urls
  BY <1>1, <1>2 DEF KnowsItsPlace, Run
<1>4. /\ Len(source) \in Nat /\ DOMAIN source = 1..Len(source)
      /\ listing \subseteq Urls
  <2>1. /\ Len(source) \in Nat /\ DOMAIN source = 1..Len(source)
        /\ \A n \in DOMAIN source : source[n] \subseteq Urls
    BY <1>2, <1>3, SourceTypes
  <2>2. x.n <= Len(source) => x.n \in DOMAIN source
    BY <1>3, <2>1
  <2> QED BY <2>1, <2>2
<1>5. new \subseteq Urls /\ x.seen \cup new = x.seen \cup listing
      /\ (new = {} => listing \subseteq x.seen)
  <2> HIDE DEF listing
  <2> QED BY <1>4 DEF NewToSource
<1>6. CASE Become(r, EndSource(x)) /\ Fault
  <2> HIDE DEF x
  <2>1. faults' # 0 /\ x.pc \in {"page", "extract"}
    BY <1>1, <1>6, FaultSpoils
  <2>2. Fits(EndSource(x), table, faults')
    <3>1. faults' = 0 => Follows(x) /\ Reaches(x)
      BY <2>1
    <3>2. x \in Run /\ table \in [Postings -> Nat]
      BY <1>2
    <3>3. KnowsItsPlace(x) /\ KnowsItsJobs(x, table) /\ x.pc \in {"page", "extract"}
      BY <1>2, <2>1
    <3> QED BY <3>1, <3>2, <3>3, EndSourceFits
  <2> QED BY <1>1, <1>6, <2>2, MovesAlone
<1>7. CASE new = {} /\ Become(r, EndSource(x)) /\ UNCHANGED faults
  <2>1. x.n > Len(source) \/ source[x.n] \subseteq x.seen
    BY <1>3, <1>4, <1>5, <1>7
  <2>2. faults' = 0 => Reaches(x)
    BY <1>1, <1>2, <1>7, <2>1, NothingNew
  <2>3. x.pc \in {"page", "extract"} /\ (faults' = 0 => Follows(x))
    BY <1>1, <1>2, <1>7
  <2> HIDE DEF x
  <2>4. Fits(EndSource(x), table, faults')
    <3>1. x \in Run /\ table \in [Postings -> Nat]
      BY <1>2
    <3>2. KnowsItsPlace(x) /\ KnowsItsJobs(x, table) /\ x.pc \in {"page", "extract"}
      BY <1>2, <2>3
    <3>3. faults' = 0 => Follows(x) /\ Reaches(x)
      BY <2>2, <2>3
    <3> QED BY <3>1, <3>2, <3>3, EndSourceFits
  <2> QED BY <1>1, <1>7, <2>4, MovesAlone
<1>8. CASE Become(r, y) /\ UNCHANGED faults
  <2>1. y \in Run
    <3>1. "extract" \in Steps
      BY DEF Steps
    <3> HIDE DEF new
    <3> QED BY <1>2, <1>3, <1>5, <3>1, SetListing
  <2>2. /\ y.pc = "extract" /\ y.c = x.c /\ y.s = x.s /\ y.n = x.n
        /\ y.seen = x.seen \cup listing /\ y.todo = new \ x.extracted
        /\ y.batch = x.batch /\ y.jobs = x.jobs /\ y.all = x.all
        /\ y.dropped = x.dropped /\ y.reported = x.reported
        /\ y.existing = x.existing /\ y.extracted = x.extracted
    <3> HIDE DEF new, listing
    <3> QED BY <1>2, <1>5 DEF Run
  <2>3. Sources(y) = Sources(x) /\ Crawls(y) = Crawls(x)
    BY <2>2 DEF Sources, Crawls
  <2> HIDE DEF y
  <2>4. KnowsItsPlace(y)
    BY <1>1, <1>2, <2>2, <2>3 DEF KnowsItsPlace
  <2>5. KnowsItsJobs(y, table)
    BY <1>1, <1>2, <2>2 DEF KnowsItsJobs, Settled
  <2>6. ASSUME faults = 0 PROVE Follows(y)
    <3>0. Follows(x)
      BY <1>2, <2>6
    <3>1. \A s, k : Shown(y, s, k) = Shown(x, s, k)
      BY <2>3 DEF Shown
    <3>2. \A s : Covered(x, s) => Covered(y, s)
      BY <2>2, CoveredGrows
    <3>3. /\ x.seen = Shown(x, x.s, x.n - 1) /\ x.seen \subseteq x.all \cup x.jobs
          /\ x.extracted \subseteq x.all \cup x.jobs
          /\ \A s \in DOMAIN Sources(x) : s < x.s => Covered(x, s)
      BY <1>1, <3>0 DEF Follows
    <3>4. y.seen = Shown(y, y.s, y.n)
      <4>1. Shown(x, x.s, x.n) = Shown(x, x.s, x.n - 1) \cup listing
        BY <1>2, <1>3, ShownGrows
      <4> HIDE DEF listing
      <4> QED BY <2>2, <3>1, <3>3, <4>1
    <3>5. y.seen \subseteq y.all \cup y.jobs \cup y.todo
      <4> HIDE DEF new, listing
      <4> QED BY <1>5, <2>2, <3>3
    <3> QED BY <2>2, <2>3, <3>2, <3>3, <3>4, <3>5 DEF Follows
  <2>7. Fits(y, table, faults')
    BY <1>8, <2>1, <2>4, <2>5, <2>6 DEF Fits
  <2> QED BY <1>1, <1>8, <2>7, MovesAlone
<1> QED BY <1>1, <1>6, <1>7, <1>8

\* ... ExtractUrl,
LEMMA ExtractUrlIInv ==
  ASSUME IInv, NEW r \in Runs, ExtractUrl(r)
  PROVE  IInv'
<1> DEFINE x == run[r]
<1>1. /\ x.pc = "extract" /\ UNCHANGED <<table, counted>>
      /\ \E u \in x.todo : \E jobs \in {x.jobs, x.jobs \cup {u}} :
            /\ Become(r, [x EXCEPT !.todo = x.todo \ {u},
                                   !.extracted = x.extracted \cup {u},
                                   !.jobs = jobs])
            /\ (u \in jobs /\ UNCHANGED faults) \/ Fault
  <2>0. ExtractUrl(r)
    OBVIOUS
  <2>1. x.pc = "extract" /\ UNCHANGED <<table, counted>> /\ x \in Run
    BY RunFacts DEF ExtractUrl
  <2>2. PICK u \in x.todo :
           LET y == [x EXCEPT !.todo = @ \ {u}, !.extracted = @ \cup {u}]
           IN  \/ /\ Become(r, [y EXCEPT !.jobs = @ \cup {u}])
                  /\ UNCHANGED faults
               \/ Become(r, y) /\ Fault
    BY DEF ExtractUrl
  <2> DEFINE y == [x EXCEPT !.todo = @ \ {u}, !.extracted = @ \cup {u}]
             z(jobs) == [x EXCEPT !.todo = x.todo \ {u},
                                  !.extracted = x.extracted \cup {u},
                                  !.jobs = jobs]
  <2>3. y = z(x.jobs) /\ [y EXCEPT !.jobs = @ \cup {u}] = z(x.jobs \cup {u})
    BY <2>1 DEF Run
  <2>4. \E jobs \in {x.jobs, x.jobs \cup {u}} :
           Become(r, z(jobs)) /\ ((u \in jobs /\ UNCHANGED faults) \/ Fault)
    <3> HIDE DEF z, x
    <3> QED BY <2>2, <2>3
  <2> QED BY <2>1, <2>4
<1>0. PICK u \in x.todo : \E jobs \in {x.jobs, x.jobs \cup {u}} :
         /\ Become(r, [x EXCEPT !.todo = x.todo \ {u},
                                !.extracted = x.extracted \cup {u},
                                !.jobs = jobs])
         /\ (u \in jobs /\ UNCHANGED faults) \/ Fault
  BY <1>1
<1>2. PICK jobs \in {x.jobs, x.jobs \cup {u}} :
         /\ Become(r, [x EXCEPT !.todo = x.todo \ {u},
                                !.extracted = x.extracted \cup {u},
                                !.jobs = jobs])
         /\ (u \in jobs /\ UNCHANGED faults) \/ Fault
  BY <1>0
<1> DEFINE y == [x EXCEPT !.todo = x.todo \ {u},
                          !.extracted = x.extracted \cup {u}, !.jobs = jobs]
<1>3. /\ x \in Run /\ KnowsItsPlace(x) /\ KnowsItsJobs(x, table)
      /\ faults = 0 => Follows(x)
  BY RunFacts
<1>4. y \in Run
  <2>1. x.todo \ {u} \in SUBSET Urls /\ x.extracted \cup {u} \in SUBSET Urls
        /\ jobs \in SUBSET Urls
    BY <1>3 DEF Run
  <2> QED BY <1>3, <2>1, SetExtracted
<1>5. /\ y.pc = "extract" /\ y.c = x.c /\ y.s = x.s /\ y.n = x.n
      /\ y.seen = x.seen /\ y.todo = x.todo \ {u} /\ y.jobs = jobs
      /\ y.batch = x.batch /\ y.all = x.all /\ y.dropped = x.dropped
      /\ y.reported = x.reported /\ y.existing = x.existing
      /\ y.extracted = x.extracted \cup {u}
  BY <1>1, <1>3 DEF Run
<1>6. Sources(y) = Sources(x) /\ Crawls(y) = Crawls(x)
  BY <1>5 DEF Sources, Crawls
<1>7. Become(r, y) /\ ((u \in jobs /\ UNCHANGED faults) \/ Fault)
  BY <1>2
<1> HIDE DEF y
<1>8. KnowsItsPlace(y)
  BY <1>1, <1>3, <1>5, <1>6 DEF KnowsItsPlace
<1>9. KnowsItsJobs(y, table)
  BY <1>1, <1>3, <1>5 DEF KnowsItsJobs, Settled
<1>10. ASSUME faults' = 0 PROVE Follows(y)
  <2>0. UNCHANGED faults /\ u \in jobs
    BY <1>7, <1>10, FaultSpoils
  <2>1. Follows(x)
    BY <1>3, <1>10, <2>0
  <2>2. \A s, k : Shown(y, s, k) = Shown(x, s, k)
    BY <1>6 DEF Shown
  <2>3. \A s : Covered(x, s) => Covered(y, s)
    BY <1>5, CoveredGrows
  <2> HIDE DEF x
  <2> QED BY <1>1, <1>5, <1>6, <2>0, <2>1, <2>2, <2>3 DEF Follows
<1>11. Fits(y, table, faults')
  BY <1>4, <1>8, <1>9, <1>10 DEF Fits
<1> QED BY <1>1, <1>7, <1>11, MovesAlone

\* At the page limit the source is covered: every page up to it has been seen,
\* and every listing seen was extracted.
LEMMA LimitReached ==
  ASSUME NEW x \in Run, x.pc = "extract", KnowsItsPlace(x), Follows(x),
         x.todo = {}, ~MorePages(x)
  PROVE  Reaches(x)
<1>1. x.n \in Nat /\ x.n = MaxPages
  BY DEF Run, MorePages
<1>2. Shown(x, x.s, x.n) \subseteq x.all \cup x.jobs
  BY DEF Follows, KnowsItsPlace
<1>3. /\ x.s \in DOMAIN Sources(x) /\ Len(Sources(x)[x.s]) \in Nat
      /\ DOMAIN Sources(x)[x.s] = 1..Len(Sources(x)[x.s])
  BY SourceTypes DEF KnowsItsPlace
<1>4. ASSUME NEW n \in DOMAIN Sources(x)[x.s], n <= MaxPages
      PROVE  Sources(x)[x.s][n] \subseteq Shown(x, x.s, x.n)
  <2>1. n \in (1..x.n) \cap DOMAIN Sources(x)[x.s]
    BY <1>1, <1>3, <1>4
  <2> QED BY <2>1 DEF Shown
<1> QED BY <1>2, <1>4 DEF Reaches

\* ... EndPage,
LEMMA EndPageIInv ==
  ASSUME IInv, NEW r \in Runs, EndPage(r)
  PROVE  IInv'
<1> DEFINE x == run[r]
           y == [x EXCEPT !.pc = "page", !.n = x.n + 1]
<1>1. /\ x.pc = "extract" /\ x.todo = {} /\ UNCHANGED <<table, counted, faults>>
      /\ Become(r, IF MorePages(x) THEN y ELSE EndSource(x))
  BY DEF EndPage
<1>2. /\ x \in Run /\ KnowsItsPlace(x) /\ KnowsItsJobs(x, table)
      /\ faults = 0 => Follows(x)
  BY RunFacts
<1>3. CASE ~MorePages(x)
  <2>1. Become(r, EndSource(x))
    BY <1>1, <1>3
  <2>2. Fits(EndSource(x), table, faults')
    <3> HIDE DEF x
    <3>1. faults' = 0 => Follows(x) /\ Reaches(x)
      BY <1>1, <1>2, <1>3, LimitReached
    <3>2. x \in Run /\ table \in [Postings -> Nat]
      BY <1>2 DEF IInv, TypeOK
    <3>3. KnowsItsPlace(x) /\ KnowsItsJobs(x, table) /\ x.pc \in {"page", "extract"}
      BY <1>1, <1>2
    <3> QED BY <3>1, <3>2, <3>3, EndSourceFits
  <2> QED BY <1>1, <2>1, <2>2, MovesAlone
<1>4. CASE MorePages(x)
  <2>1. Become(r, y)
    BY <1>1, <1>4
  <2>2. x.n + 1 \in 1..MaxPages /\ (x.n + 1) - 1 = x.n
    BY <1>2, <1>4 DEF MorePages, Run
  <2>3. y \in Run
    <3>1. "page" \in Steps
      BY DEF Steps
    <3> QED BY <1>2, <2>2, <3>1, SetPage
  <2>4. /\ y.pc = "page" /\ y.c = x.c /\ y.s = x.s /\ y.n = x.n + 1
        /\ y.seen = x.seen /\ y.jobs = x.jobs
        /\ y.batch = x.batch /\ y.all = x.all /\ y.dropped = x.dropped
        /\ y.reported = x.reported /\ y.existing = x.existing
        /\ y.extracted = x.extracted
    BY <1>2 DEF Run
  <2>5. Sources(y) = Sources(x) /\ Crawls(y) = Crawls(x)
    BY <2>4 DEF Sources, Crawls
  <2> HIDE DEF y
  <2>6. KnowsItsPlace(y)
    BY <1>1, <1>2, <2>4, <2>5 DEF KnowsItsPlace
  <2>7. KnowsItsJobs(y, table)
    BY <1>1, <1>2, <2>4 DEF KnowsItsJobs, Settled
  <2>8. ASSUME faults = 0 PROVE Follows(y)
    <3>1. Follows(x)
      BY <1>2, <2>8
    <3>2. \A s, k : Shown(y, s, k) = Shown(x, s, k)
      BY <2>5 DEF Shown
    <3>3. \A s : Covered(x, s) => Covered(y, s)
      BY <2>4, CoveredGrows
    <3>4. Shown(x, x.s, y.n - 1) = Shown(x, x.s, x.n)
      BY <2>2, <2>4
    <3> HIDE DEF x
    <3> QED BY <1>1, <2>4, <2>5, <3>1, <3>2, <3>3, <3>4 DEF Follows
  <2>9. Fits(y, table, faults')
    BY <1>1, <2>3, <2>6, <2>7, <2>8 DEF Fits
  <2> QED BY <1>1, <2>1, <2>9, MovesAlone
<1> QED BY <1>3, <1>4

\* ... ReturnJobs,
LEMMA ReturnJobsIInv ==
  ASSUME IInv, NEW r \in Runs, ReturnJobs(r)
  PROVE  IInv'
<1> DEFINE x == run[r]
<1>1. /\ x.pc = "return" /\ UNCHANGED <<table, counted, faults>>
      /\ Become(r, SaveBatch(x, x.all))
  BY DEF ReturnJobs
<1>2. /\ x \in Run /\ KnowsItsPlace(x) /\ KnowsItsJobs(x, table)
      /\ table \in [Postings -> Nat]
      /\ x.c \in DOMAIN Connectors /\ x.s > 0
      /\ faults = 0 => Follows(x)
  BY <1>1, RunFacts
<1>3. faults' = 0 => Followed(x)
  <2>1. \A s \in DOMAIN Sources(x) : s < x.s
    <3>1. /\ Len(Sources(x)) \in Nat /\ DOMAIN Sources(x) = 1..Len(Sources(x))
          /\ Len(Sources(x)) < x.s /\ x.s \in Nat
      BY <1>1, <1>2, SourceTypes DEF KnowsItsPlace, Run
    <3> QED BY <3>1
  <2> HIDE DEF x
  <2> QED BY <1>1, <1>2, <2>1 DEF Follows, Followed
<1>4. /\ \A p \in x.reported \cup x.existing : Settled(x, p, table)
      /\ \A u \in x.all \ x.all : Settled(x, IdOf[u], table)
      /\ x.all \in SUBSET Urls
  BY <1>1, <1>2 DEF KnowsItsJobs, Run
<1>5. Fits(SaveBatch(x, x.all), table, faults')
  <2> HIDE DEF x
  <2> QED BY <1>2, <1>3, <1>4, SaveBatchFits
<1> QED BY <1>1, <1>5, MovesAlone

\* ... and FetchBoard.
LEMMA FetchBoardIInv ==
  ASSUME IInv, NEW r \in Runs, FetchBoard(r)
  PROVE  IInv'
<1> DEFINE x == run[r]
           jobs == Sources(x)[x.s][1]
           y == [x EXCEPT !.all = @ \cup jobs]
<1>1. /\ x.pc = "page" /\ ~Crawls(x) /\ UNCHANGED <<table, counted>>
      /\ \/ Become(r, SaveBatch(y, jobs)) /\ UNCHANGED faults
         \/ Become(r, Continue(x)) /\ Fault
  BY DEF FetchBoard
<1>2. /\ x \in Run /\ KnowsItsPlace(x) /\ KnowsItsJobs(x, table)
      /\ table \in [Postings -> Nat]
      /\ x.c \in DOMAIN Connectors /\ x.s > 0 /\ x.s \in DOMAIN Sources(x)
  BY <1>1, RunFacts DEF KnowsItsPlace
<1>3. jobs \in SUBSET Urls
  <2>1. /\ DOMAIN Sources(x)[x.s] = 1..Len(Sources(x)[x.s])
        /\ Len(Sources(x)[x.s]) = 1
        /\ \A n \in DOMAIN Sources(x)[x.s] : Sources(x)[x.s][n] \subseteq Urls
    BY <1>1, <1>2, SourceTypes
  <2> QED BY <2>1
<1>4. x.batch = {} /\ AllSettled(x, table)
  BY <1>1, <1>2 DEF KnowsItsJobs, AllSettled
<1>5. Followed(x) /\ Followed(y)
  <2>1. y.c = x.c
    BY <1>2 DEF Run
  <2> HIDE DEF y
  <2> QED BY <1>1, <2>1 DEF Followed, Crawls
<1> HIDE DEF x, jobs
<1>6. Fits(SaveBatch(y, jobs), table, faults')
  BY <1>2, <1>3, <1>4, <1>5, HandOverFits
<1> HIDE DEF y
<1>7. Fits(Continue(x), table, faults')
  BY <1>2, <1>4, <1>5, ContinueFits
<1> QED BY <1>1, <1>6, <1>7, MovesAlone

-----------------------------------------------------------------------------
(* Inserts.                                                                *)

\* An attempt to insert jobs takes nothing from the table, and what is counted
\* is there; if the rows come back they are stored, and without a fault only
\* the constraints refuse them.
LEMMA InsertEffect ==
  ASSUME IInv, NEW jobs \in SUBSET Urls, NEW outcome \in Outcomes,
         Insert(jobs, outcome), UNCHANGED counted \/ Count(Saved(jobs, outcome))
  PROVE  /\ table' \in [Postings -> Nat] /\ \A p \in Postings : table[p] <= table'[p]
         /\ counted' \in [Postings -> Nat]
         /\ \A p \in Postings : counted'[p] <= table'[p]
         /\ faults' \in 0..MaxFaults /\ faults' >= faults
         /\ faults' > faults => faults' # 0
         /\ outcome = "ok" => \A u \in jobs : table'[IdOf[u]] > 0
         /\ faults' > faults \/ (outcome = "ok" \/ ~Accepts(jobs))
<1>1. /\ table \in [Postings -> Nat] /\ counted \in [Postings -> Nat]
      /\ \A p \in Postings : counted[p] <= table[p]
      /\ faults \in 0..MaxFaults /\ MaxFaults \in Nat
  BY DEF IInv, TypeOK
<1>2. /\ faults' \in 0..MaxFaults /\ faults' >= faults
      /\ faults' > faults => faults' # 0
      /\ faults' > faults \/ (outcome = "ok" \/ ~Accepts(jobs))
  BY <1>1 DEF Insert, Fault
<1>3. /\ table' \in [Postings -> Nat]
      /\ \A p \in Postings :
            table'[p] = table[p] + IF Committed(outcome) /\ Accepts(jobs) /\ p \in Ids(jobs)
                                   THEN 1 ELSE 0
  <2>1. CASE Committed(outcome) /\ Accepts(jobs)
    <3>1. table' = [p \in Postings |->
                       table[p] + (IF p \in Ids(jobs) THEN 1 ELSE 0)]
      BY <2>1 DEF Insert, Store
    <3> QED BY <1>1, <2>1, <3>1
  <2>2. CASE ~(Committed(outcome) /\ Accepts(jobs))
    <3>1. UNCHANGED table
      BY <2>2 DEF Insert
    <3> QED BY <1>1, <2>2, <3>1
  <2> QED BY <2>1, <2>2
<1>4. /\ counted' \in [Postings -> Nat]
      /\ \A p \in Postings :
            \/ counted'[p] = counted[p]
            \/ counted'[p] = counted[p] + 1 /\ outcome = "ok" /\ p \in Ids(jobs)
  <2>1. CASE UNCHANGED counted
    BY <1>1, <2>1
  <2>2. CASE Count(Saved(jobs, outcome))
    <3>1. counted' = [p \in Postings |->
                         counted[p] + (IF p \in Ids(Saved(jobs, outcome)) THEN 1 ELSE 0)]
      BY <2>2 DEF Count
    <3>2. \A p : p \in Ids(Saved(jobs, outcome)) => outcome = "ok" /\ p \in Ids(jobs)
      BY DEF Saved, Ids
    <3> QED BY <1>1, <3>1, <3>2
  <2> QED BY <2>1, <2>2
<1>5. outcome = "ok" => Committed(outcome) /\ Accepts(jobs)
  BY DEF Insert, Committed
<1>6. Accepts(jobs) => \A p \in Ids(jobs) : table[p] = 0
  BY DEF Accepts
<1>7. \A p \in Postings : table[p] <= table'[p] /\ counted'[p] <= table'[p]
  <2> TAKE p \in Postings
  <2>1. table[p] \in Nat /\ counted[p] \in Nat /\ counted[p] <= table[p]
    BY <1>1
  <2>2. /\ table'[p] = table[p] \/ table'[p] = table[p] + 1
        /\ outcome = "ok" /\ p \in Ids(jobs) => table[p] = 0 /\ table'[p] = table[p] + 1
    BY <1>3, <1>5, <1>6, <2>1
  <2>3. \/ counted'[p] = counted[p]
        \/ counted'[p] = counted[p] + 1 /\ table[p] = 0 /\ table'[p] = table[p] + 1
    BY <1>4, <2>2
  <2> QED BY <2>1, <2>2, <2>3
<1>8. outcome = "ok" => \A u \in jobs : table'[IdOf[u]] > 0
  <2>1. \A u \in jobs : IdOf[u] \in Postings /\ IdOf[u] \in Ids(jobs)
    BY DEF Ids
  <2> QED BY <1>1, <1>3, <1>5, <2>1
<1> QED BY <1>2, <1>3, <1>4, <1>7, <1>8

\* A run that goes on with its batch after an attempt: what it no longer has in
\* its batch is settled.  When nothing is left it can go on to the next source.
LEMMA InsertingFits ==
  ASSUME NEW x \in Run, NEW y \in Run, x.pc \in {"batch", "row"}, y.pc \in {"batch", "row"},
         y.c = x.c, y.s = x.s, y.all = x.all, y.reported = x.reported,
         y.existing = x.existing, y.extracted = x.extracted,
         x.dropped \subseteq y.dropped, y.batch \subseteq x.batch,
         KnowsItsPlace(x), NEW old \in [Postings -> Nat], KnowsItsJobs(x, old),
         NEW new \in [Postings -> Nat], \A p \in Postings : old[p] <= new[p],
         \A u \in x.batch \ y.batch : Settled(y, IdOf[u], new),
         NEW failed, failed = 0 => Follows(x)
  PROVE  /\ Fits(y, new, failed)
         /\ failed = 0 => Followed(y)
         /\ y.batch = {} => AllSettled(y, new)
<1>1. \A p \in Postings : Settled(x, p, old) => Settled(y, p, new)
  BY SettledGrows
<1>2. /\ \A u \in Urls : IdOf[u] \in Postings
      /\ x.all \subseteq Urls /\ x.reported \cup x.existing \subseteq Postings
  BY DEF Run
<1>3. \A p \in y.reported \cup y.existing :
         Settled(y, p, new) \/ \E v \in y.batch : IdOf[v] = p
  BY <1>1, <1>2 DEF KnowsItsJobs
<1>4. \A u \in y.all \ y.batch : Settled(y, IdOf[u], new)
  BY <1>1, <1>2 DEF KnowsItsJobs
<1>5. KnowsItsJobs(y, new)
  BY <1>3, <1>4 DEF KnowsItsJobs
<1>6. KnowsItsPlace(y)
  BY DEF KnowsItsPlace
<1>7. Sources(y) = Sources(x) /\ Crawls(y) = Crawls(x)
  BY DEF Sources, Crawls
<1>8. y.batch = {} => AllSettled(y, new)
  BY <1>3, <1>4 DEF AllSettled
<1>9. \A s : Covered(x, s) => Covered(y, s)
  BY CoveredGrows
<1>10. ASSUME failed = 0 PROVE Follows(y) /\ Followed(y)
  <2>1. SUFFICES ASSUME Crawls(y) PROVE Follows(y) /\ Followed(y)
    BY DEF Follows, Followed
  <2>2. /\ \A s \in DOMAIN Sources(x) : s < x.s \/ s = x.s => Covered(x, s)
        /\ x.extracted \subseteq x.all
    BY <1>7, <1>10, <2>1 DEF Follows
  <2>3. Follows(y)
    BY <1>7, <1>9, <2>2 DEF Follows
  <2>4. \A s \in DOMAIN Sources(x) : s <= x.s => s < x.s \/ s = x.s
    <3>1. /\ DOMAIN Sources(x) = 1..Len(Sources(x)) /\ Len(Sources(x)) \in Nat
          /\ x.s \in Nat
      BY SourceTypes DEF KnowsItsPlace, Run
    <3> QED BY <3>1
  <2> QED BY <1>7, <1>9, <2>2, <2>3, <2>4 DEF Followed
<1> QED BY <1>5, <1>6, <1>8, <1>10 DEF Fits

\* InsertBatch preserves the invariant.
LEMMA InsertBatchIInv ==
  ASSUME IInv, NEW r \in Runs, InsertBatch(r)
  PROVE  IInv'
<1> DEFINE x == run[r]
           again == [x EXCEPT !.tries = @ + 1]
<1>1. PICK outcome \in Outcomes :
         /\ Insert(x.batch, outcome)
         /\ \/ Retries(x.tries, outcome) /\ Become(r, again) /\ UNCHANGED counted
            \/ /\ Become(r, IF outcome = "ok" THEN Continue(x) ELSE Fallback(x))
               /\ Count(Saved(x.batch, outcome))
  BY DEF InsertBatch
<1>2. x.pc = "batch"
  BY DEF InsertBatch
<1>3. /\ x \in Run /\ KnowsItsPlace(x) /\ KnowsItsJobs(x, table)
      /\ table \in [Postings -> Nat] /\ x.c \in DOMAIN Connectors /\ x.s > 0
      /\ faults = 0 => Follows(x)
  BY <1>2, RunFacts
<1>4. x.batch \in SUBSET Urls
  BY <1>3 DEF Run
<1>5. /\ table' \in [Postings -> Nat] /\ \A p \in Postings : table[p] <= table'[p]
      /\ counted' \in [Postings -> Nat]
      /\ \A p \in Postings : counted'[p] <= table'[p]
      /\ faults' \in 0..MaxFaults /\ faults' >= faults
      /\ outcome = "ok" => \A u \in x.batch : table'[IdOf[u]] > 0
  BY <1>1, <1>4, InsertEffect
<1>6. faults' = 0 => Follows(x)
  BY <1>3, <1>5 DEF IInv, TypeOK
<1>7. CASE Become(r, again) /\ Retries(x.tries, outcome)
  <2>1. x.tries + 1 \in 0..MaxAttempts
    BY <1>3, <1>7 DEF Retries, Run
  <2>2. /\ again \in Run /\ again.pc = x.pc /\ again.c = x.c /\ again.s = x.s
        /\ again.all = x.all /\ again.reported = x.reported
        /\ again.existing = x.existing /\ again.extracted = x.extracted
        /\ again.dropped = x.dropped /\ again.batch = x.batch
    BY <1>3, <2>1 DEF Run
  <2> HIDE DEF x, again
  <2>3. Fits(again, table', faults')
    BY <1>2, <1>3, <1>5, <1>6, <2>2, InsertingFits
  <2> QED BY <1>5, <1>7, <2>3, Moves
<1>8. CASE Become(r, Continue(x)) /\ outcome = "ok"
  <2>1. faults' = 0 => Followed(x)
    <3> HIDE DEF x
    <3>1. /\ \A u \in x.batch \ x.batch : Settled(x, IdOf[u], table')
          /\ x.batch \subseteq x.batch /\ x.dropped \subseteq x.dropped
      OBVIOUS
    <3> QED BY <1>2, <1>3, <1>5, <1>6, <3>1, InsertingFits
  <2>2. AllSettled(x, table')
    <3>1. \A p \in Postings : Settled(x, p, table) => Settled(x, p, table')
      BY <1>3, <1>5, SettledGrows
    <3>2. \A u \in x.batch : Settled(x, IdOf[u], table')
      BY <1>5, <1>8 DEF Settled
    <3>3. /\ \A u \in Urls : IdOf[u] \in Postings
          /\ x.all \subseteq Urls /\ x.reported \cup x.existing \subseteq Postings
      BY <1>3 DEF Run
    <3> HIDE DEF x
    <3> QED BY <1>3, <3>1, <3>2, <3>3 DEF AllSettled, KnowsItsJobs
  <2> HIDE DEF x
  <2>3. Fits(Continue(x), table', faults')
    BY <1>3, <1>5, <2>1, <2>2, ContinueFits
  <2> QED BY <1>5, <1>8, <2>3, Moves
<1>9. CASE Become(r, Fallback(x))
  <2> DEFINE y == [x EXCEPT !.pc = "row", !.tries = 0]
  <2>1. "row" \in Steps /\ 0 \in 0..MaxAttempts
    BY DEF Steps
  <2>2. y \in Run
    BY <1>3, <2>1, SetTries
  <2>3. /\ y.pc = "row" /\ y.c = x.c /\ y.s = x.s
        /\ y.all = x.all /\ y.reported = x.reported
        /\ y.existing = x.existing /\ y.extracted = x.extracted
        /\ y.dropped = x.dropped /\ y.batch = x.batch
    BY <1>3 DEF Run
  <2>4. Fallback(x) = y
    BY DEF Fallback
  <2> HIDE DEF x, y
  <2>5. Fits(y, table', faults')
    BY <1>2, <1>3, <1>5, <1>6, <2>2, <2>3, InsertingFits
  <2> QED BY <1>5, <1>9, <2>4, <2>5, Moves
<1> QED BY <1>1, <1>7, <1>8, <1>9

\* InsertRow preserves it: whatever comes of the row, it is settled.
LEMMA InsertRowIInv ==
  ASSUME IInv, NEW r \in Runs, InsertRow(r)
  PROVE  IInv'
<1> DEFINE x == run[r]
           dropped(u) == IF faults' > faults THEN x.dropped \cup {u} ELSE x.dropped
           rest(u) == [x EXCEPT !.batch = x.batch \ {u}, !.tries = 0, !.row = "none",
                                !.dropped = dropped(u)]
           again(u) == [x EXCEPT !.tries = x.tries + 1, !.row = u]
<1>1. /\ x.pc = "row"
      /\ \E u \in x.batch, outcome \in Outcomes :
            /\ Insert({u}, outcome)
            /\ \/ /\ Retries(x.tries, outcome) /\ UNCHANGED counted
                  /\ Become(r, again(u))
               \/ /\ Become(r, IF x.batch = {u} THEN Continue(rest(u)) ELSE rest(u))
                  /\ Count(Saved({u}, outcome))
  BY DEF InsertRow
<1>2. PICK u \in x.batch, outcome \in Outcomes :
         /\ Insert({u}, outcome)
         /\ \/ /\ Retries(x.tries, outcome) /\ UNCHANGED counted
               /\ Become(r, again(u))
            \/ /\ Become(r, IF x.batch = {u} THEN Continue(rest(u)) ELSE rest(u))
               /\ Count(Saved({u}, outcome))
  BY <1>1
<1>3. /\ x \in Run /\ KnowsItsPlace(x) /\ KnowsItsJobs(x, table)
      /\ table \in [Postings -> Nat] /\ x.c \in DOMAIN Connectors /\ x.s > 0
      /\ faults = 0 => Follows(x)
  BY <1>1, RunFacts
<1>4. u \in Urls /\ {u} \in SUBSET Urls /\ x.batch \subseteq x.all /\ x.all \subseteq Urls
      /\ x.dropped \subseteq Urls
  BY <1>3 DEF Run, KnowsItsJobs
<1>5. /\ table' \in [Postings -> Nat] /\ \A p \in Postings : table[p] <= table'[p]
      /\ counted' \in [Postings -> Nat]
      /\ \A p \in Postings : counted'[p] <= table'[p]
      /\ faults' \in 0..MaxFaults /\ faults' >= faults
      /\ outcome = "ok" => table'[IdOf[u]] > 0
      /\ faults' > faults \/ (outcome = "ok" \/ ~Accepts({u}))
  BY <1>2, <1>4, InsertEffect
<1>6. faults' = 0 => Follows(x)
  BY <1>3, <1>5 DEF IInv, TypeOK
<1>7. CASE Become(r, again(u)) /\ Retries(x.tries, outcome)
  <2> DEFINE y == again(u)
  <2>1. x.tries + 1 \in 0..MaxAttempts
    <3>1. x.tries \in 0..MaxAttempts
      BY <1>3 DEF Run
    <3>2. x.tries + 1 < MaxAttempts
      BY <1>7 DEF Retries
    <3> HIDE DEF x
    <3> QED BY <3>1, <3>2
  <2>2. y \in Run
    <3>1. x \in Run /\ u \in Urls
      BY <1>3, <1>4
    <3> HIDE DEF x
    <3> QED BY <3>1, <2>1, SetRow
  <2>3. /\ y.pc = x.pc /\ y.c = x.c /\ y.s = x.s
        /\ y.all = x.all /\ y.reported = x.reported
        /\ y.existing = x.existing /\ y.extracted = x.extracted
        /\ y.dropped = x.dropped /\ y.batch = x.batch
    BY <1>3 DEF Run
  <2>4. Become(r, y) /\ x.pc \in {"batch", "row"}
    BY <1>1, <1>7
  <2> HIDE DEF x, y, again
  <2>5. Fits(y, table', faults')
    BY <1>3, <1>5, <1>6, <2>2, <2>3, <2>4, InsertingFits
  <2> QED BY <1>5, <2>4, <2>5, Moves
<1>8. CASE Become(r, IF x.batch = {u} THEN Continue(rest(u)) ELSE rest(u))
  <2> DEFINE y == rest(u)
  <2>1. y \in Run
    <3>1. x.batch \ {u} \in SUBSET Urls /\ dropped(u) \in SUBSET Urls
      BY <1>4
    <3> HIDE DEF dropped
    <3> QED BY <1>3, <3>1, SetRest
  <2>2. /\ y.pc = "row" /\ y.c = x.c /\ y.s = x.s
        /\ y.all = x.all /\ y.reported = x.reported
        /\ y.existing = x.existing /\ y.extracted = x.extracted
        /\ y.dropped = dropped(u) /\ y.batch = x.batch \ {u}
    <3> HIDE DEF dropped
    <3> QED BY <1>1, <1>3 DEF Run
  <2>3. Settled(y, IdOf[u], table')
    <3>1. CASE faults' > faults
      BY <1>4, <2>2, <3>1 DEF Settled
    <3>2. CASE outcome = "ok"
      BY <1>5, <3>2 DEF Settled
    <3>3. CASE ~Accepts({u})
      <4>1. u \in Malformed \/ table[IdOf[u]] # 0
        BY <3>3 DEF Accepts, Ids
      <4>2. table[IdOf[u]] # 0 => table'[IdOf[u]] > 0
        <5>1. IdOf[u] \in Postings
          BY <1>4
        <5>2. /\ table[IdOf[u]] \in Nat /\ table'[IdOf[u]] \in Nat
              /\ table[IdOf[u]] <= table'[IdOf[u]]
          BY <1>3, <1>5, <5>1
        <5> QED BY <5>2
      <4> QED BY <1>4, <2>2, <4>1, <4>2 DEF Settled
    <3> QED BY <1>5, <3>1, <3>2, <3>3
  <2>4. Become(r, IF x.batch = {u} THEN Continue(y) ELSE y)
    BY <1>8
  <2>5. x.dropped \subseteq y.dropped /\ x.pc \in {"batch", "row"}
    BY <1>1, <2>2
  <2> HIDE DEF x, y, rest, dropped
  <2>6. /\ Fits(y, table', faults')
        /\ faults' = 0 => Followed(y)
        /\ y.batch = {} => AllSettled(y, table')
    BY <1>3, <1>5, <1>6, <2>1, <2>2, <2>3, <2>5, InsertingFits
  <2>7. CASE x.batch = {u}
    <3>1. y.c \in DOMAIN Connectors /\ y.s > 0 /\ y.batch = {}
      BY <1>3, <2>2, <2>7
    <3>2. Fits(Continue(y), table', faults')
      BY <1>5, <2>1, <2>6, <3>1, ContinueFits
    <3>3. Become(r, Continue(y))
      BY <2>4, <2>7
    <3> QED BY <1>5, <3>2, <3>3, Moves
  <2>8. CASE x.batch # {u}
    <3>1. Become(r, y)
      BY <2>4, <2>8
    <3> QED BY <1>5, <2>6, <3>1, Moves
  <2> QED BY <2>7, <2>8
<1> QED BY <1>2, <1>7, <1>8

-----------------------------------------------------------------------------
(* The theorems.                                                           *)

\* IInv is inductive.
LEMMA Inductive == Spec => []IInv
<1>1. Init => IInv
  <2>1. SUFFICES ASSUME Init PROVE IInv
    OBVIOUS
  <2>2. /\ table \in [Postings -> Nat] /\ counted \in [Postings -> Nat]
        /\ faults \in 0..MaxFaults /\ \A p \in Postings : counted[p] <= table[p]
    BY <2>1 DEF Init
  <2>3. run \in [Runs -> Run] /\ \A r \in Runs : Fits(run[r], table, faults)
    BY <2>1, IdleFits DEF Init, Fits
  <2> QED BY <2>2, <2>3, EveryRunFits
<1>2. IInv /\ [Next]_vars => IInv'
  <2>1. ASSUME IInv, UNCHANGED vars PROVE IInv'
    <3>1. run' = run /\ table' = table /\ counted' = counted /\ faults' = faults
      BY <2>1 DEF vars
    <3>2. TypeOK' /\ \A p \in Postings : counted'[p] <= table'[p]
      BY <2>1, <3>1 DEF IInv, TypeOK
    <3>3. ASSUME NEW r \in Runs
          PROVE  KnowsItsPlace(run[r])' /\ KnowsItsJobs(run[r], table)'
      BY <2>1, <3>1 DEF IInv, KnowsItsPlace, KnowsItsJobs, Settled, Sources, Crawls
    <3>4. ASSUME (faults = 0)', NEW r \in Runs PROVE Follows(run[r])'
      <4>1. Follows(run'[r])
        BY <2>1, <3>1, <3>4 DEF IInv
      <4> QED BY <4>1 DEF Follows, Covered, Shown, Sources, Crawls
    <3> QED BY <3>2, <3>3, <3>4 DEF IInv
  <2>2. ASSUME IInv, Next PROVE IInv'
    BY <2>2, StartIInv, ReadIdsIInv, FetchPageIInv, ExtractUrlIInv, EndPageIInv,
       ReturnJobsIInv, CrawlFailsIInv, FetchBoardIInv, InsertBatchIInv,
       InsertRowIInv, KillIInv DEF Next
  <2> QED BY <2>1, <2>2
<1> QED BY <1>1, <1>2, PTL DEF Spec

\* The type invariant holds.
THEOREM TypeCorrect == Spec => []TypeOK
<1>1. IInv => TypeOK
  BY DEF IInv
<1> QED BY <1>1, Inductive, PTL

\* Whatever has been handed to save_batch and is no longer in its batch is in
\* the table, was refused by it or lost by a failure of its own insert.
THEOREM NothingIsLost == Spec => []FinishedSourcesAreSaved
<1>1. IInv => FinishedSourcesAreSaved
  BY DEF IInv, FinishedSourcesAreSaved, KnowsItsJobs, SavedOrRefused
<1> QED BY <1>1, Inductive, PTL

\* A crawl that nothing has disturbed stores every listing it had to follow.
THEOREM CrawlsReachTheirPages == Spec => []CrawlReachesItsPages
<1>1. ASSUME IInv, faults = 0, NEW r \in Runs, run[r].pc = "return",
             NEW s \in DOMAIN Sources(run[r]), NEW n \in DOMAIN Sources(run[r])[s],
             n <= MaxPages,
             \A m \in 1..n : ~ Sources(run[r])[s][m] \subseteq
                UNION {Sources(run[r])[s][k] : k \in 1..(m - 1)},
             NEW u \in Sources(run[r])[s][n]
      PROVE  SavedOrRefused(run[r], u)
  <2> DEFINE x == run[r]
             pages == Sources(x)[s]
  <2>1. /\ x \in Run /\ KnowsItsPlace(x) /\ KnowsItsJobs(x, table)
        /\ x.c \in DOMAIN Connectors /\ Follows(x)
    BY <1>1, RunFacts
  <2>2. /\ Len(Sources(x)) \in Nat /\ DOMAIN Sources(x) = 1..Len(Sources(x))
        /\ Len(pages) \in Nat /\ DOMAIN pages = 1..Len(pages)
    BY <1>1, <2>1, SourceTypes
  <2>3. s < x.s /\ Crawls(x)
    <3>1. Len(Sources(x)) < x.s /\ Crawls(x) /\ x.s \in Nat
      BY <1>1, <2>1 DEF KnowsItsPlace, Run
    <3> QED BY <2>2, <3>1
  <2>4. Covered(x, s)
    BY <1>1, <2>1, <2>3 DEF Follows
  <2>5. ASSUME NEW m \in 1..n PROVE ~ pages[m] \subseteq Shown(x, s, m - 1)
    <3>1. (1..(m - 1)) \cap DOMAIN pages = 1..(m - 1)
      BY <1>1, <2>2
    <3>2. Shown(x, s, m - 1) = UNION {pages[k] : k \in 1..(m - 1)}
      BY <3>1 DEF Shown
    <3> QED BY <1>1, <3>2
  <2>6. pages[n] \subseteq x.all
    BY <1>1, <2>4, <2>5 DEF Covered
  <2>7. x.batch = {} /\ u \in x.all
    BY <1>1, <2>1, <2>6 DEF KnowsItsJobs
  <2> QED BY <2>1, <2>7 DEF KnowsItsJobs, SavedOrRefused
<1>2. IInv => CrawlReachesItsPages
  BY <1>1 DEF CrawlReachesItsPages
<1> QED BY <1>2, Inductive, PTL

\* An attempt to insert, counted or not, adds to the table as JobTable allows.
LEMMA InsertAdds ==
  ASSUME IInv, NEW jobs \in SUBSET Urls, NEW outcome \in Outcomes,
         Insert(jobs, outcome), UNCHANGED counted \/ Count(Saved(jobs, outcome))
  PROVE  Table!Next
<1> DEFINE S == IF Committed(outcome) /\ Accepts(jobs) THEN Ids(jobs) ELSE {}
           C == IF UNCHANGED counted THEN {} ELSE Ids(Saved(jobs, outcome))
<1>1. /\ table \in [Postings -> Nat] /\ counted \in [Postings -> Nat]
      /\ \A p \in Postings : counted[p] <= table[p]
  BY DEF IInv, TypeOK
<1>2. S \in SUBSET Postings /\ C \in SUBSET Postings
  BY DEF Ids, Saved
<1>3. \A p \in S : table[p] = 0
  BY DEF Accepts
<1>4. table' = Table!Plus(table, S)
  <2>1. CASE Committed(outcome) /\ Accepts(jobs)
    <3>1. table' = [p \in Postings |-> table[p] + (IF p \in S THEN 1 ELSE 0)]
      BY <2>1 DEF Insert, Store
    <3>2. \A p \in Postings : table[p] + (IF p \in S THEN 1 ELSE 0)
                               = IF p \in S THEN table[p] + 1 ELSE table[p]
      BY <1>1
    <3> HIDE DEF S
    <3> QED BY <3>1, <3>2 DEF Table!Plus
  <2>2. CASE ~(Committed(outcome) /\ Accepts(jobs))
    <3>1. table' = table /\ S = {}
      BY <2>2 DEF Insert
    <3> HIDE DEF S
    <3> QED BY <1>1, <3>1 DEF Table!Plus
  <2> QED BY <2>1, <2>2
<1>5. C \subseteq S
  BY DEF Insert, Saved, Committed, Ids
<1>6. \A p \in C : counted[p] = 0 /\ table'[p] = 1
  <2> HIDE DEF S, C
  <2> TAKE p \in C
  <2>1. p \in S /\ p \in Postings /\ table[p] = 0
    BY <1>2, <1>3, <1>5
  <2>2. table'[p] = table[p] + 1
    BY <1>4, <2>1 DEF Table!Plus
  <2> QED BY <1>1, <2>1, <2>2
<1>7. counted' = Table!Plus(counted, C)
  <2>1. CASE UNCHANGED counted
    <3>1. counted' = counted /\ C = {}
      BY <2>1
    <3> HIDE DEF C
    <3> QED BY <1>1, <3>1 DEF Table!Plus
  <2>2. CASE ~UNCHANGED counted
    <3>1. counted' = [p \in Postings |-> counted[p] + (IF p \in C THEN 1 ELSE 0)]
      BY <2>2 DEF Count
    <3>2. \A p \in Postings : counted[p] + (IF p \in C THEN 1 ELSE 0)
                               = IF p \in C THEN counted[p] + 1 ELSE counted[p]
      BY <1>1
    <3> HIDE DEF C
    <3> QED BY <3>1, <3>2 DEF Table!Plus
  <2> QED BY <2>1, <2>2
<1> HIDE DEF S, C
<1>8. Table!Add(S, C)
  BY <1>3, <1>4, <1>6, <1>7 DEF Table!Add
<1> QED BY <1>2, <1>8 DEF Table!Next

\* Ingestion implements JobTable: only the inserts touch the table or the
\* count, and each is an Add.
THEOREM IngestionImplementsJobTable == Spec => IngestionFillsJobTable
<1>1. Init => Table!Init
  BY DEF Init, Table!Init
<1>2. ASSUME IInv, NEW r \in Runs, InsertBatch(r) PROVE Table!Next
  <2>1. run[r].batch \in SUBSET Urls
    BY <1>2, RunFacts DEF Run
  <2> QED BY <1>2, <2>1, InsertAdds DEF InsertBatch
<1>3. ASSUME IInv, NEW r \in Runs, InsertRow(r) PROVE Table!Next
  <2>1. run[r].batch \in SUBSET Urls
    BY <1>3, RunFacts DEF Run
  <2>2. PICK u \in run[r].batch, outcome \in Outcomes :
           /\ Insert({u}, outcome)
           /\ UNCHANGED counted \/ Count(Saved({u}, outcome))
    BY <1>3 DEF InsertRow
  <2>3. {u} \in SUBSET Urls
    BY <2>1
  <2> QED BY <1>3, <2>2, <2>3, InsertAdds
<1>4. IInv /\ [Next]_vars => [Table!Next]_<<table, counted>>
  BY <1>2, <1>3 DEF vars, Next, Start, ReadIds, FetchPage, ExtractUrl, EndPage,
     ReturnJobs, CrawlFails, FetchBoard, Kill
<1> QED BY <1>1, <1>4, Inductive, PTL DEF Spec, IngestionFillsJobTable, Table!Spec
=============================================================================

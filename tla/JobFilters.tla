---------------------------- MODULE JobFilters ----------------------------
(***************************************************************************)
(* Stage 1 of matching: the eight criteria a job must not fail against a   *)
(* CV track, with what they read while it changes under them: the track    *)
(* (edited through the API or by migrate_track_industries.py), the home of *)
(* the candidate, and the attributes of the jobs (extracted when a job is  *)
(* ingested, again by a backfill once the taxonomy has grown).             *)
(*                                                                         *)
(* A criterion answers PASS, FAIL or SKIP; a job passes when none FAILs.   *)
(***************************************************************************)
EXTENDS Locations, JobAttributes

CONSTANTS
    Jobs,           \* the postings there may be
    Texts,          \* the location texts of postings
    Homes,          \* the location texts of profiles
    Raws,           \* the raw_json of postings
    Preferences,    \* field of a track -> the values an edit may give it
    Taxonomies,     \* the mapping tables of successive releases
    NamedIndustries,\* CV_TRACK_NAME_MAP at the name of the track
    MaxEdits        \* bound on the edits of the track and the home

VARIABLES
    track,          \* the row of cv_tracks
    home,           \* candidate_profiles.location
    jobs,           \* the rows of jobs (Absent: not ingested)
    release,        \* the taxonomy in use is Taxonomies[release]
    reported,       \* categories logged or printed as unmapped
    todo,           \* the rows a backfill has read and not yet done, in any order
    met,            \* the unmapped categories it has met, not printed yet
    places,         \* Places; it never changes
    edits

vars == <<track, home, jobs, release, reported, todo, met, places, edits>>

PASS == "pass"
SKIP == "skip"
FAIL == "fail"
Absent == [text |-> "absent"]
Mapping == Taxonomies[release]
Known == {j \in Jobs : jobs[j] # Absent}

\* A track as it is created: nothing is preferred.
NoPreferences ==
    [employment_types |-> {}, seniority_levels |-> {}, industries |-> {},
     work_mode |-> {}, preferred_countries |-> {},
     willing_to_relocate |-> FALSE, visa_sponsorship_required |-> FALSE,
     salary_expectation_min |-> NoAmount, salary_currency |-> NoValue]

\* What the lists of a track may hold.
Vocabulary ==
    [employment_types |-> {TypeTokens[x] : x \in DOMAIN TypeTokens},
     seniority_levels |-> {"entry", "mid", "senior", "lead"},
     industries |-> Industries,
     work_mode |-> {ModeTokens[x] : x \in DOMAIN ModeTokens},
     preferred_countries |-> Countries]

ASSUME JobFiltersAssumption ==
    /\ MaxEdits \in Nat
    /\ DOMAIN Preferences \subseteq DOMAIN NoPreferences
    /\ \A field \in DOMAIN Preferences : \A value \in Preferences[field] :
          /\ field \in DOMAIN Vocabulary => value \subseteq Vocabulary[field]
          /\ field = "salary_expectation_min" => value \in Nat \cup {NoAmount}
    /\ NamedIndustries \subseteq Industries
    /\ Texts \cup Homes \subseteq DOMAIN Whole
    /\ \A raw \in Raws : raw.min \in Int /\ raw.max \in Int
    /\ Len(Taxonomies) \in Nat \ {0} /\ DOMAIN Taxonomies = 1..Len(Taxonomies)
    \* HOW TO EXTEND: entries are added.
    /\ \A r, s \in DOMAIN Taxonomies : r <= s =>
          \A c \in DOMAIN Taxonomies[r] :
             c \in DOMAIN Taxonomies[s] /\ Taxonomies[r][c] = Taxonomies[s][c]
    \* What _self_check asserts when the taxonomy is imported.
    /\ \A r \in DOMAIN Taxonomies : \A c \in DOMAIN Taxonomies[r] :
          Taxonomies[r][c] \subseteq Industries
----------------------------------------------------------------------------
\* The criteria.

Verdict(unknown, good) == IF unknown THEN SKIP ELSE IF good THEN PASS ELSE FAIL

EmploymentType(t, a) ==
    Verdict(t.employment_types = {} \/ a.employment_type = NoValue,
            a.employment_type \in t.employment_types)

Seniority(t, a) ==
    Verdict(t.seniority_levels = {} \/ a.seniority_level = NoValue,
            a.seniority_level \in t.seniority_levels)

\* Mutant: every category of the job must be wanted.
MutantIndustry(t, a) ==
    Verdict(t.industries = {} \/ a.industry = {}, a.industry \subseteq t.industries)

\* One category in common is enough.
Industry(t, a) ==
    Verdict(t.industries = {} \/ a.industry = {}, a.industry \cap t.industries # {})

\* normalize_location for the texts there are and the attributes there are: no
\* extractor writes "country" or "remote".
Places ==
    [where \in (Texts \cup Homes) \X {NoAttributes.country} \X {NoAttributes.remote} |->
        Normalize(where[1], where[2], where[3])]

PlaceOf(text, a) == places[<<text, a.country, a.remote>>]

\* Mutant: a posting that does not say "remote" is taken for an onsite one.
MutantModeOf(text, a) ==
    IF a.work_mode # NoValue THEN a.work_mode
    ELSE IF PlaceOf(text, a).remote THEN "remote" ELSE "onsite"

\* The text can show that a job is remote, never that it is not.
ModeOf(text, a) ==
    IF a.work_mode # NoValue THEN a.work_mode
    ELSE IF PlaceOf(text, a).remote THEN "remote" ELSE NoValue

WorkMode(t, text, a) ==
    Verdict(t.work_mode = {} \/ ModeOf(text, a) = NoValue,
            ModeOf(text, a) \in t.work_mode)

JobCountry(text, a) == PlaceOf(text, a).country

HomeCountry(h) == PlaceOf(h, NoAttributes).country

Relocation(t, text, a, h) ==
    Verdict(\/ t.preferred_countries # {}
            \/ t.willing_to_relocate
            \/ JobCountry(text, a) = None
            \/ HomeCountry(h) = None,
            JobCountry(text, a) = HomeCountry(h))

VisaSponsorship(t, a) ==
    Verdict(~t.visa_sponsorship_required \/ a.visa_sponsorship = NoValue,
            a.visa_sponsorship = "yes")

\* The figure of the job: the top of its range, or its bottom if that is all.
Reference(a) == IF a.salary_max # NoAmount THEN a.salary_max ELSE a.salary_min

\* Two currencies are not compared; an amount without one is.
Salary(t, a) ==
    Verdict(\/ t.salary_expectation_min = NoAmount
            \/ /\ NoValue \notin {t.salary_currency, a.salary_currency}
               /\ t.salary_currency # a.salary_currency
            \/ Reference(a) = NoAmount,
            Reference(a) >= t.salary_expectation_min)

Location(t, text, a) ==
    Verdict(t.preferred_countries = {} \/ JobCountry(text, a) = None,
            JobCountry(text, a) \in t.preferred_countries)

\* run_stage1_filters, in its order.
Results(t, text, a, h) ==
    <<EmploymentType(t, a), Seniority(t, a), Industry(t, a), WorkMode(t, text, a),
      Relocation(t, text, a, h), VisaSponsorship(t, a), Salary(t, a),
      Location(t, text, a)>>

Passes(t, text, a, h) ==
    LET results == Results(t, text, a, h)
    IN  \A i \in 1..8 : results[i] # FAIL

\* Mutant: what counts is the wanted industries the job does not have.
MutantPenalty(t, a) ==
    IF t.industries = {} \/ a.industry = {} \/ t.industries \subseteq a.industry
    THEN 100 ELSE 30

\* compute_industry_mismatch_penalty, in percent: a job that also carries an
\* industry the track did not select keeps 30 % of its score.
Penalty(t, a) ==
    IF t.industries = {} \/ a.industry \subseteq t.industries THEN 100 ELSE 30
----------------------------------------------------------------------------
Init ==
    /\ track = NoPreferences
    /\ home \in Homes
    /\ jobs = [j \in Jobs |-> Absent]
    /\ places = Places
    /\ release = 1 /\ reported = {} /\ todo = {} /\ met = {} /\ edits = 0

Edited(t) ==
    /\ edits < MaxEdits
    /\ edits' = edits + 1
    /\ track' = t
    /\ UNCHANGED <<home, jobs, release, reported, todo, met, places>>

\* PUT /tracks/{id}: the fields sent are overwritten, the others kept.
EditTrack ==
    \E field \in DOMAIN Preferences : \E value \in Preferences[field] :
        /\ value # track[field]
        /\ Edited([track EXCEPT ![field] = value])

\* migrate_track_industries.py --apply writes over what the owner chose.
MigrateIndustries ==
    /\ track.industries # NamedIndustries
    /\ Edited([track EXCEPT !.industries = NamedIndustries])

\* A new CV gives the profile another location.
MoveHome ==
    /\ edits < MaxEdits
    /\ edits' = edits + 1
    /\ home' \in Homes \ {home}
    /\ UNCHANGED <<track, jobs, release, reported, todo, met, places>>

\* The attributes a posting is saved with: none when extraction raised.
Attributes(raw) == IF raw.broken THEN NoAttributes ELSE Extracted(raw, Mapping)

\* The categories reported with them.
Report(raw) == IF raw.broken THEN {} ELSE Unmapped(raw.categories, Mapping)

\* save_batch: _apply_attribute_extraction, then the insert.
Ingest(j) ==
    /\ jobs[j] = Absent
    /\ \E text \in Texts, raw \in Raws :
          /\ jobs' = [jobs EXCEPT ![j] =
                [text |-> text, raw |-> raw, attributes |-> Attributes(raw)]]
          /\ reported' = reported \cup Report(raw)
    /\ UNCHANGED <<track, home, release, todo, met, edits, places>>

\* A backfill has rows left, or categories to print.
BackfillRunning == todo # {} \/ met # {}

\* A release adds categories to the mapping tables.  A backfill that is
\* running keeps those it has imported, so none runs across a release.
ExtendTaxonomy ==
    /\ release < Len(Taxonomies) /\ ~BackfillRunning
    /\ release' = release + 1
    /\ UNCHANGED <<track, home, jobs, reported, todo, met, edits, places>>

\* backfill_*_attributes.py --apply reads the rows there are ...
StartBackfill ==
    /\ ~BackfillRunning /\ release > 1
    /\ todo' = Known
    /\ UNCHANGED <<track, home, jobs, release, reported, met, edits, places>>

\* ... and updates one after the other, in the order of its pages, which is
\* any, collecting what is unmapped.  A row it finds nothing in is passed over:
\* the attributes it has are those of no data, too.
BackfillRow ==
    \E j \in todo :
        /\ ~jobs[j].raw.broken
        /\ jobs' = [jobs EXCEPT ![j].attributes = Attributes(jobs[j].raw)]
        /\ met' = met \cup Report(jobs[j].raw)
        /\ todo' = todo \ {j}
        /\ UNCHANGED <<track, home, release, reported, edits, places>>

\* The unmapped categories are printed when all rows are done.
EndBackfill ==
    /\ todo = {} /\ met # {}
    /\ reported' = reported \cup met
    /\ met' = {}
    /\ UNCHANGED <<track, home, jobs, release, todo, edits, places>>

\* A raw_json the extractor raises on, which the script does not catch as
\* ingestion does, or an update that fails ends it: the rows after it stay as
\* they were and nothing is printed.
BackfillFails ==
    /\ BackfillRunning
    /\ todo' = {} /\ met' = {}
    /\ UNCHANGED <<track, home, jobs, release, reported, edits, places>>

Next ==
    \/ EditTrack \/ MigrateIndustries \/ MoveHome
    \/ \E j \in Jobs : Ingest(j)
    \/ ExtendTaxonomy \/ StartBackfill \/ BackfillRow
    \/ EndBackfill \/ BackfillFails

Spec == Init /\ [][Next]_vars
----------------------------------------------------------------------------
Pass(t, j) == Passes(t, jobs[j].text, jobs[j].attributes, home)

Passing == {j \in Known : Pass(track, j)}

\* The types.  An industry of a job is a canonical one, never the category of
\* its source (normalize_categories).
TypeOK ==
    /\ DOMAIN track = DOMAIN NoPreferences
    /\ \A field \in DOMAIN Vocabulary : track[field] \subseteq Vocabulary[field]
    /\ home \in Homes
    /\ \A j \in Known : /\ DOMAIN jobs[j].attributes = DOMAIN NoAttributes
                        /\ jobs[j].attributes.industry \subseteq Industries
    /\ release \in DOMAIN Taxonomies
    /\ todo \subseteq Known
    /\ edits \in 0..MaxEdits

\* "Only a genuine, resolved mismatch is a real FAIL" (filtering.py).  What is
\* not known of a job is never held against it: a posting without attributes,
\* with a text that names neither a country nor "remote", passes.  And an
\* unset preference is not restrictive: to clear one never rejects a job
\* the track lets through.  Three fields are exceptions: without
\* preferred_countries or willing_to_relocate the home of the candidate
\* decides, without salary_currency amounts of any currency are compared.
OnlyMismatchesReject ==
    /\ \A j \in Known :
          /\ jobs[j].attributes = NoAttributes
          /\ PlaceOf(jobs[j].text, NoAttributes) = Somewhere(None, FALSE)
          => j \in Passing
    /\ \A j \in Passing :
          \A field \in DOMAIN NoPreferences
              \ {"preferred_countries", "willing_to_relocate", "salary_currency"} :
            Pass([track EXCEPT ![field] = NoPreferences[field]], j)

\* A country written as the last segment of a text is the job's, whatever
\* countries, cities and aliases the segments before it name.
WrittenCountryDecides ==
    \A j \in Known :
        LET last == Decided(jobs[j].text[Len(jobs[j].text)])
        IN  last # None => JobCountry(jobs[j].text, jobs[j].attributes) = last

\* A job whose industries are behind the taxonomy in use (ingested before it
\* grew, not reached by a backfill since) has a category that was reported as
\* unmapped, although a backfill that fails prints none of those it has met:
\* nothing vanishes in silence.
StaleIndustriesWereReported ==
    \A j \in Known :
        jobs[j].attributes.industry # Attributes(jobs[j].raw).industry
        => jobs[j].raw.categories \cap reported # {}

\* A wider preference (one more value in a list that restricts, a lower
\* salary floor) never rejects a job, and one more industry never penalises
\* its score.
WiderTrackNeverWorse ==
    /\ \A field \in {f \in DOMAIN Vocabulary : track[f] # {}} :
          \A value \in Vocabulary[field] :
              LET wider == [track EXCEPT ![field] = @ \cup {value}] IN
                  /\ \A j \in Passing : Pass(wider, j)
                  /\ \A j \in Known : Penalty(track, jobs[j].attributes)
                                        <= Penalty(wider, jobs[j].attributes)
    /\ \A j \in Passing, floor \in 0..track.salary_expectation_min :
          Pass([track EXCEPT !.salary_expectation_min = floor], j)

\* A backfill that finds more industries for a job that has some already
\* never takes it out of a track it passes.
RicherJobNeverRejected ==
    [][UNCHANGED <<track, home>> =>
          \A j \in Passing : jobs[j].attributes.industry # {} => j \in Passing']_vars
----------------------------------------------------------------------------
\* The inductive invariant behind them.

Row == [text : Texts, raw : Raws,
        attributes : {NoAttributes} \cup
            {Extracted(raw, Taxonomies[r]) : raw \in Raws, r \in DOMAIN Taxonomies}]

\* The attributes of a row are those of its raw_json under the taxonomy of a
\* release until now, and what that did not map has been reported.
Reflects(row, now, logged) ==
    \/ row.raw.broken /\ row.attributes = NoAttributes
    \/ /\ ~row.raw.broken
       /\ \E r \in 1..now :
             /\ row.attributes = Extracted(row.raw, Taxonomies[r])
             /\ Unmapped(row.raw.categories, Taxonomies[r]) \subseteq logged

IInv ==
    /\ TypeOK
    /\ track.salary_expectation_min \in Nat \cup {NoAmount}
    /\ places = Places
    /\ jobs \in [Jobs -> Row \cup {Absent}]
    /\ \A j \in Known : Reflects(jobs[j], release, reported)
=============================================================================

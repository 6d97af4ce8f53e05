------------------------- MODULE JobFiltersProofs -------------------------
(***************************************************************************)
(* Proofs about the Stage 1 filters and what they read, for any tables of  *)
(* places, taxonomies, postings, preferences and number of edits.          *)
(*                                                                         *)
(* Admits spells out when a job passes; every property of the criteria is  *)
(* read off it, one criterion at a time.                                   *)
(***************************************************************************)
EXTENDS JobFilters, TLAPS

USE LocationsAssumption, JobFiltersAssumption

\* A job passes when each criterion is unset, or its fact is unknown, or they
\* agree.
Admits(t, text, a, h) ==
    /\ \/ t.employment_types = {} \/ a.employment_type = NoValue
       \/ a.employment_type \in t.employment_types
    /\ \/ t.seniority_levels = {} \/ a.seniority_level = NoValue
       \/ a.seniority_level \in t.seniority_levels
    /\ \/ t.industries = {} \/ a.industry = {}
       \/ a.industry \cap t.industries # {}
    /\ \/ t.work_mode = {} \/ ModeOf(text, a) = NoValue
       \/ ModeOf(text, a) \in t.work_mode
    /\ \/ t.preferred_countries # {} \/ t.willing_to_relocate
       \/ JobCountry(text, a) = None \/ HomeCountry(h) = None
       \/ JobCountry(text, a) = HomeCountry(h)
    /\ \/ ~t.visa_sponsorship_required \/ a.visa_sponsorship = NoValue
       \/ a.visa_sponsorship = "yes"
    /\ \/ t.salary_expectation_min = NoAmount
       \/ /\ NoValue \notin {t.salary_currency, a.salary_currency}
          /\ t.salary_currency # a.salary_currency
       \/ Reference(a) = NoAmount
       \/ Reference(a) >= t.salary_expectation_min
    /\ \/ t.preferred_countries = {} \/ JobCountry(text, a) = None
       \/ JobCountry(text, a) \in t.preferred_countries

-----------------------------------------------------------------------------
(* The criteria.                                                           *)

\* run_stage1_filters lets a job through exactly when Admits holds.
LEMMA PassesAdmits ==
  ASSUME NEW t, NEW text, NEW a, NEW h
  PROVE  Passes(t, text, a, h) <=> Admits(t, text, a, h)
<1> DEFINE results == Results(t, text, a, h)
<1>1. /\ results[1] = EmploymentType(t, a) /\ results[2] = Seniority(t, a)
      /\ results[3] = Industry(t, a) /\ results[4] = WorkMode(t, text, a)
      /\ results[5] = Relocation(t, text, a, h)
      /\ results[6] = VisaSponsorship(t, a) /\ results[7] = Salary(t, a)
      /\ results[8] = Location(t, text, a)
  BY DEF Results
<1>2. Passes(t, text, a, h) <=> \A i \in 1..8 : results[i] # FAIL
  BY DEF Passes
<1> HIDE DEF results
<1>3. 1..8 = {1, 2, 3, 4, 5, 6, 7, 8}
  OBVIOUS
<1>4. Passes(t, text, a, h) <=>
         /\ EmploymentType(t, a) # FAIL /\ Seniority(t, a) # FAIL
         /\ Industry(t, a) # FAIL /\ WorkMode(t, text, a) # FAIL
         /\ Relocation(t, text, a, h) # FAIL /\ VisaSponsorship(t, a) # FAIL
         /\ Salary(t, a) # FAIL /\ Location(t, text, a) # FAIL
  BY <1>1, <1>2, <1>3
<1>5. /\ EmploymentType(t, a) # FAIL <=>
            \/ t.employment_types = {} \/ a.employment_type = NoValue
            \/ a.employment_type \in t.employment_types
      /\ Seniority(t, a) # FAIL <=>
            \/ t.seniority_levels = {} \/ a.seniority_level = NoValue
            \/ a.seniority_level \in t.seniority_levels
      /\ Industry(t, a) # FAIL <=>
            \/ t.industries = {} \/ a.industry = {}
            \/ a.industry \cap t.industries # {}
      /\ WorkMode(t, text, a) # FAIL <=>
            \/ t.work_mode = {} \/ ModeOf(text, a) = NoValue
            \/ ModeOf(text, a) \in t.work_mode
  BY DEF EmploymentType, Seniority, Industry, WorkMode, Verdict, PASS, SKIP, FAIL
<1>6. /\ Relocation(t, text, a, h) # FAIL <=>
            \/ t.preferred_countries # {} \/ t.willing_to_relocate
            \/ JobCountry(text, a) = None \/ HomeCountry(h) = None
            \/ JobCountry(text, a) = HomeCountry(h)
      /\ VisaSponsorship(t, a) # FAIL <=>
            \/ ~t.visa_sponsorship_required \/ a.visa_sponsorship = NoValue
            \/ a.visa_sponsorship = "yes"
      /\ Location(t, text, a) # FAIL <=>
            \/ t.preferred_countries = {} \/ JobCountry(text, a) = None
            \/ JobCountry(text, a) \in t.preferred_countries
  BY DEF Relocation, VisaSponsorship, Location, Verdict, PASS, SKIP, FAIL
<1>7. Salary(t, a) # FAIL <=>
         \/ t.salary_expectation_min = NoAmount
         \/ /\ NoValue \notin {t.salary_currency, a.salary_currency}
            /\ t.salary_currency # a.salary_currency
         \/ Reference(a) = NoAmount
         \/ Reference(a) >= t.salary_expectation_min
  BY DEF Salary, Verdict, PASS, SKIP, FAIL
<1> QED BY <1>4, <1>5, <1>6, <1>7 DEF Admits

\* An edit of one field leaves the others.
LEMMA SetField ==
  ASSUME NEW t, DOMAIN t = DOMAIN NoPreferences,
         NEW field \in DOMAIN NoPreferences, NEW value
  PROVE  LET u == [t EXCEPT ![field] = value]
         IN  /\ DOMAIN u = DOMAIN NoPreferences
             /\ \A f \in DOMAIN NoPreferences :
                   u[f] = IF f = field THEN value ELSE t[f]
  OBVIOUS

\* The fields of a track, by name.
LEMMA Fields ==
  /\ DOMAIN NoPreferences =
        {"employment_types", "seniority_levels", "industries", "work_mode",
         "preferred_countries", "willing_to_relocate",
         "visa_sponsorship_required", "salary_expectation_min",
         "salary_currency"}
  /\ DOMAIN Vocabulary =
        {"employment_types", "seniority_levels", "industries", "work_mode",
         "preferred_countries"}
  BY DEF NoPreferences, Vocabulary

\* To clear a preference never rejects a job the track lets through.
LEMMA ClearingAdmits ==
  ASSUME NEW t, DOMAIN t = DOMAIN NoPreferences, NEW text, NEW a, NEW h,
         Admits(t, text, a, h),
         NEW field \in DOMAIN NoPreferences
             \ {"preferred_countries", "willing_to_relocate", "salary_currency"}
  PROVE  Admits([t EXCEPT ![field] = NoPreferences[field]], text, a, h)
<1> DEFINE u == [t EXCEPT ![field] = NoPreferences[field]]
<1>1. \A f \in DOMAIN NoPreferences :
         u[f] = IF f = field THEN NoPreferences[field] ELSE t[f]
  BY SetField
<1>2. /\ NoPreferences.employment_types = {} /\ NoPreferences.seniority_levels = {}
      /\ NoPreferences.industries = {} /\ NoPreferences.work_mode = {}
      /\ NoPreferences.visa_sponsorship_required = FALSE
      /\ NoPreferences.salary_expectation_min = NoAmount
  BY DEF NoPreferences
<1> HIDE DEF u
<1>3. /\ u.preferred_countries = t.preferred_countries
      /\ u.willing_to_relocate = t.willing_to_relocate
      /\ u.salary_currency = t.salary_currency
      /\ u.employment_types = {} \/ u.employment_types = t.employment_types
      /\ u.seniority_levels = {} \/ u.seniority_levels = t.seniority_levels
      /\ u.industries = {} \/ u.industries = t.industries
      /\ u.work_mode = {} \/ u.work_mode = t.work_mode
      /\ \/ u.visa_sponsorship_required = FALSE
         \/ u.visa_sponsorship_required = t.visa_sponsorship_required
      /\ \/ u.salary_expectation_min = NoAmount
         \/ u.salary_expectation_min = t.salary_expectation_min
  BY <1>1, <1>2, Fields
<1>4. Admits(u, text, a, h)
  BY <1>3 DEF Admits
<1> QED BY <1>4 DEF u

\* Nor does one more value in a list that restricts already.
LEMMA WideningAdmits ==
  ASSUME NEW t, DOMAIN t = DOMAIN NoPreferences, NEW text, NEW a, NEW h,
         Admits(t, text, a, h),
         NEW field \in DOMAIN Vocabulary, t[field] # {}, NEW value
  PROVE  Admits([t EXCEPT ![field] = @ \cup {value}], text, a, h)
<1> DEFINE u == [t EXCEPT ![field] = t[field] \cup {value}]
<1>0. field \in DOMAIN NoPreferences
  BY Fields
<1>1. \A f \in DOMAIN NoPreferences :
         u[f] = IF f = field THEN t[field] \cup {value} ELSE t[f]
  BY <1>0, SetField
<1> HIDE DEF u
<1>2. /\ \A f \in DOMAIN Vocabulary : t[f] \subseteq u[f] /\ (u[f] = {} <=> t[f] = {})
      /\ u.willing_to_relocate = t.willing_to_relocate
      /\ u.visa_sponsorship_required = t.visa_sponsorship_required
      /\ u.salary_expectation_min = t.salary_expectation_min
      /\ u.salary_currency = t.salary_currency
  BY <1>1, Fields
<1>3. /\ t.employment_types \subseteq u.employment_types
      /\ u.employment_types = {} <=> t.employment_types = {}
      /\ t.seniority_levels \subseteq u.seniority_levels
      /\ u.seniority_levels = {} <=> t.seniority_levels = {}
      /\ t.industries \subseteq u.industries
      /\ u.industries = {} <=> t.industries = {}
      /\ t.work_mode \subseteq u.work_mode
      /\ u.work_mode = {} <=> t.work_mode = {}
      /\ t.preferred_countries \subseteq u.preferred_countries
      /\ u.preferred_countries = {} <=> t.preferred_countries = {}
  BY <1>2, Fields
<1>4. Admits(u, text, a, h)
  BY <1>2, <1>3 DEF Admits
<1> QED BY <1>4 DEF u

\* Nor does a lower salary floor.
LEMMA LowerFloorAdmits ==
  ASSUME NEW t, DOMAIN t = DOMAIN NoPreferences, NEW text, NEW a, NEW h,
         Admits(t, text, a, h), Reference(a) \in Int,
         t.salary_expectation_min \in Int,
         NEW floor \in 0..t.salary_expectation_min
  PROVE  Admits([t EXCEPT !.salary_expectation_min = floor], text, a, h)
<1> DEFINE u == [t EXCEPT !.salary_expectation_min = floor]
<1>1. \A f \in DOMAIN NoPreferences :
         u[f] = IF f = "salary_expectation_min" THEN floor ELSE t[f]
  BY Fields, SetField
<1> HIDE DEF u
<1>2. /\ u.employment_types = t.employment_types
      /\ u.seniority_levels = t.seniority_levels
      /\ u.industries = t.industries /\ u.work_mode = t.work_mode
      /\ u.preferred_countries = t.preferred_countries
      /\ u.willing_to_relocate = t.willing_to_relocate
      /\ u.visa_sponsorship_required = t.visa_sponsorship_required
      /\ u.salary_expectation_min = floor
      /\ u.salary_currency = t.salary_currency
  BY <1>1, Fields
<1>3. /\ t.salary_expectation_min # NoAmount
      /\ Reference(a) >= t.salary_expectation_min => Reference(a) >= floor
  BY DEF NoAmount
<1>4. Admits(u, text, a, h)
  BY <1>2, <1>3 DEF Admits
<1> QED BY <1>4 DEF u

\* One more wanted industry never lowers the score.
LEMMA WideningNeverPenalises ==
  ASSUME NEW t, DOMAIN t = DOMAIN NoPreferences, NEW a,
         NEW field \in DOMAIN Vocabulary, t[field] # {}, NEW value
  PROVE  Penalty(t, a) <= Penalty([t EXCEPT ![field] = @ \cup {value}], a)
<1> DEFINE u == [t EXCEPT ![field] = t[field] \cup {value}]
<1>0. field \in DOMAIN NoPreferences
  BY Fields
<1>1. \A f \in DOMAIN NoPreferences :
         u[f] = IF f = field THEN t[field] \cup {value} ELSE t[f]
  <2> DEFINE new == t[field] \cup {value}
  <2> HIDE DEF new
  <2>1. \A f \in DOMAIN NoPreferences :
           [t EXCEPT ![field] = new][f] = IF f = field THEN new ELSE t[f]
    BY <1>0, SetField
  <2> QED BY <2>1 DEF new
<1> HIDE DEF u
<1>2. t.industries \subseteq u.industries /\ (u.industries = {} <=> t.industries = {})
  <2>1. u.industries = IF field = "industries" THEN t[field] \cup {value}
                       ELSE t.industries
    BY <1>1, Fields
  <2>2. CASE field = "industries"
    BY <2>1, <2>2
  <2>3. CASE field # "industries"
    BY <2>1, <2>3
  <2> QED BY <2>2, <2>3
<1>3. Penalty(t, a) <= Penalty(u, a)
  BY <1>2 DEF Penalty
<1> QED BY <1>3 DEF u

-----------------------------------------------------------------------------
(* Extraction and places.                                                  *)

\* What an extraction writes: industries by the mapping, amounts, and never a
\* country or "remote".
LEMMA ExtractedFacts ==
  ASSUME NEW raw \in Raws, NEW mapping
  PROVE  LET e == Extracted(raw, mapping)
         IN  /\ DOMAIN e = DOMAIN NoAttributes
             /\ e.industry = Canonical(raw.categories, mapping)
             /\ e.salary_min \in Int /\ e.salary_max \in Int
             /\ e.country = NoAttributes.country /\ e.remote = NoAttributes.remote
<1> DEFINE e == Extracted(raw, mapping)
<1>1. raw.min \in Int /\ raw.max \in Int /\ NoAmount \in Int
  BY DEF NoAmount
<1>2. /\ DOMAIN e = DOMAIN NoAttributes
      /\ e.industry = Canonical(raw.categories, mapping)
      /\ e.country = NoAttributes.country /\ e.remote = NoAttributes.remote
  BY DEF Extracted, NoAttributes
<1>3. /\ e.salary_min = IF Monthly(raw) THEN raw.min ELSE NoAmount
      /\ e.salary_max = IF Monthly(raw) THEN raw.max ELSE NoAmount
  BY DEF Extracted, NoAttributes
<1> HIDE DEF e
<1>4. e.salary_min \in Int /\ e.salary_max \in Int
  BY <1>1, <1>3
<1> QED BY <1>2, <1>4 DEF e

\* Two extractions of a posting differ in the industries only.
LEMMA ExtractedTwice ==
  ASSUME NEW raw, NEW old, NEW new
  PROVE  LET d == Extracted(raw, old)
             e == Extracted(raw, new)
         IN  /\ e.employment_type = d.employment_type
             /\ e.seniority_level = d.seniority_level
             /\ e.work_mode = d.work_mode
             /\ e.visa_sponsorship = d.visa_sponsorship
             /\ e.salary_min = d.salary_min /\ e.salary_max = d.salary_max
             /\ e.salary_currency = d.salary_currency
             /\ e.country = d.country /\ e.remote = d.remote
  BY DEF Extracted, NoAttributes

\* The industries of a release are canonical,
LEMMA CanonicalIndustries ==
  ASSUME NEW categories, NEW r \in DOMAIN Taxonomies
  PROVE  Canonical(categories, Taxonomies[r]) \subseteq Industries
  BY DEF Canonical

\* ... only grow with the releases, and differ from one to the next only for a
\* category that the older one does not map.
LEMMA ReleasesGrow ==
  ASSUME NEW categories, NEW r \in DOMAIN Taxonomies, NEW s \in DOMAIN Taxonomies,
         r <= s
  PROVE  /\ Canonical(categories, Taxonomies[r]) \subseteq Canonical(categories, Taxonomies[s])
         /\ Unmapped(categories, Taxonomies[s]) \subseteq Unmapped(categories, Taxonomies[r])
         /\ Canonical(categories, Taxonomies[r]) # Canonical(categories, Taxonomies[s])
               => Unmapped(categories, Taxonomies[r]) # {}
<1>1. \A c \in DOMAIN Taxonomies[r] :
         c \in DOMAIN Taxonomies[s] /\ Taxonomies[r][c] = Taxonomies[s][c]
  OBVIOUS
<1>2. Canonical(categories, Taxonomies[r]) \subseteq Canonical(categories, Taxonomies[s])
  BY <1>1 DEF Canonical
<1>3. Unmapped(categories, Taxonomies[s]) \subseteq Unmapped(categories, Taxonomies[r])
  BY <1>1 DEF Unmapped
<1>4. ASSUME Unmapped(categories, Taxonomies[r]) = {}
      PROVE  Canonical(categories, Taxonomies[s]) \subseteq Canonical(categories, Taxonomies[r])
  <2>1. categories \subseteq DOMAIN Taxonomies[r]
    BY <1>4 DEF Unmapped
  <2> QED BY <1>1, <2>1 DEF Canonical
<1> QED BY <1>2, <1>3, <1>4

\* The country written in the last segment of a text is the country of the
\* text: no other segment is asked, and no other tier.
LEMMA LastSegmentDecides ==
  ASSUME NEW text \in Texts \cup Homes, Decided(text[Len(text)]) # None
  PROVE  CountryOf(text) = Decided(text[Len(text)])
<1> DEFINE hits == {i \in DOMAIN text : Decided(text[i]) # None}
           last == CHOOSE i \in hits : \A j \in hits : j <= i
           tiers == Tiers(text)
           found == {i \in DOMAIN tiers : tiers[i] # None}
           first == CHOOSE i \in found : \A j \in found : i <= j
<1>1. Len(text) \in Nat \ {0} /\ DOMAIN text = 1..Len(text)
  <2>1. text \in Seq(DOMAIN About) /\ text # <<>>
    <3>1. text \in DOMAIN Whole
      OBVIOUS
    <3> QED BY <3>1
  <2> QED BY <2>1
<1>2. Len(text) \in hits /\ \A j \in hits : j \in Nat /\ j <= Len(text)
  BY <1>1
<1>3. last = Len(text)
  <2>1. \E i \in hits : \A j \in hits : j <= i
    BY <1>2
  <2> HIDE DEF hits
  <2>2. last \in hits /\ \A j \in hits : j <= last
    BY <2>1
  <2> HIDE DEF last
  <2> QED BY <1>1, <1>2, <2>2
<1>4. Tier2(text) = Decided(text[Len(text)])
  <2>1. hits # {}
    BY <1>2
  <2>2. Tier2(text) = Decided(text[last])
    BY <2>1 DEF Tier2
  <2> HIDE DEF last
  <2> QED BY <1>3, <2>2
<1>5. tiers[1] = Tier2(text) /\ DOMAIN tiers = 1..6
  BY DEF Tiers
<1> HIDE DEF tiers
<1>6. 1 \in found /\ \A j \in found : j \in Nat /\ 1 <= j
  BY <1>4, <1>5
<1>7. first = 1
  <2>1. \E i \in found : \A j \in found : i <= j
    BY <1>6
  <2> HIDE DEF found
  <2>2. first \in found /\ \A j \in found : first <= j
    BY <2>1
  <2> HIDE DEF first
  <2> QED BY <1>6, <2>2
<1>8. CountryOf(text) = tiers[first]
  <2>1. found # {}
    BY <1>6
  <2> QED BY <2>1 DEF CountryOf, tiers
<1> HIDE DEF first
<1> QED BY <1>4, <1>5, <1>7, <1>8

-----------------------------------------------------------------------------
(* The invariant.                                                          *)

\* The attributes a row may have.
LEMMA AttributesFacts ==
  ASSUME NEW row \in Row
  PROVE  /\ row.text \in Texts /\ row.raw \in Raws
         /\ DOMAIN row.attributes = DOMAIN NoAttributes
         /\ row.attributes.industry \subseteq Industries
         /\ row.attributes.salary_min \in Int /\ row.attributes.salary_max \in Int
         /\ row.attributes.country = NoAttributes.country
         /\ row.attributes.remote = NoAttributes.remote
<1> DEFINE a == row.attributes
<1>1. row.text \in Texts /\ row.raw \in Raws
      /\ (a = NoAttributes \/ \E raw \in Raws, r \in DOMAIN Taxonomies :
                                 a = Extracted(raw, Taxonomies[r]))
  BY DEF Row
<1> HIDE DEF a
<1>2. CASE a = NoAttributes
  BY <1>1, <1>2 DEF NoAttributes, NoAmount, a
<1>3. ASSUME NEW raw \in Raws, NEW r \in DOMAIN Taxonomies,
             a = Extracted(raw, Taxonomies[r])
      PROVE  /\ DOMAIN a = DOMAIN NoAttributes /\ a.industry \subseteq Industries
             /\ a.salary_min \in Int /\ a.salary_max \in Int
             /\ a.country = NoAttributes.country /\ a.remote = NoAttributes.remote
  BY <1>3, ExtractedFacts, CanonicalIndustries
<1>4. CASE a # NoAttributes
  BY <1>1, <1>3, <1>4 DEF a
<1> QED BY <1>2, <1>4

\* A row is not absent.
LEMMA RowsArePresent == ASSUME NEW row \in Row PROVE row # Absent
<1>1. "raw" \in DOMAIN row
  BY DEF Row
<1>2. "raw" \notin DOMAIN Absent
  BY DEF Absent
<1> QED BY <1>1, <1>2

\* What a posting is saved with, and what is reported with it, fit its row.
LEMMA SavedRowFits ==
  ASSUME NEW text \in Texts, NEW raw \in Raws, release \in DOMAIN Taxonomies,
         NEW logged, Report(raw) \subseteq logged
  PROVE  LET row == [text |-> text, raw |-> raw, attributes |-> Attributes(raw)]
         IN  row \in Row /\ Reflects(row, release, logged)
<1> DEFINE row == [text |-> text, raw |-> raw, attributes |-> Attributes(raw)]
<1>1. row.text = text /\ row.raw = raw /\ row.attributes = Attributes(raw)
  OBVIOUS
<1>2. row \in Row
  BY DEF Row, Attributes, Mapping
<1> HIDE DEF row
<1>3. release \in 1..release
  OBVIOUS
<1>4. Reflects(row, release, logged)
  <2>1. CASE raw.broken
    BY <1>1, <2>1 DEF Reflects, Attributes
  <2>2. CASE ~raw.broken
    <3>1. /\ Attributes(raw) = Extracted(raw, Taxonomies[release])
          /\ Unmapped(raw.categories, Taxonomies[release]) \subseteq logged
      BY <2>2 DEF Attributes, Report, Mapping
    <3> QED BY <1>1, <1>3, <2>2, <3>1 DEF Reflects
  <2> QED BY <2>1, <2>2
<1> QED BY <1>2, <1>4 DEF row

\* A step that leaves the rows alone, or writes one that fits, and forgets
\* nothing that was reported, preserves what the invariant says of the rows.
LEMMA RowsStay ==
  ASSUME IInv, UNCHANGED jobs \/ \E j \in Jobs : \E row \in Row :
                                    /\ jobs' = [jobs EXCEPT ![j] = row]
                                    /\ Reflects(row, release', reported'),
         release' \in DOMAIN Taxonomies, release <= release',
         reported \subseteq reported'
  PROVE  /\ jobs' \in [Jobs -> Row \cup {Absent}]
         /\ Known \subseteq Known'
         /\ \A j \in Known' : Reflects(jobs'[j], release', reported')
<1>1. /\ jobs \in [Jobs -> Row \cup {Absent}] /\ release \in DOMAIN Taxonomies
      /\ \A j \in Known : Reflects(jobs[j], release, reported)
  BY DEF IInv, TypeOK
<1>2. \A j \in Known : Reflects(jobs[j], release', reported')
  <2>1. 1..release \subseteq 1..release'
    BY <1>1
  <2> QED BY <1>1, <2>1 DEF Reflects
<1>3. CASE UNCHANGED jobs
  BY <1>1, <1>2, <1>3 DEF Known
<1>4. ASSUME NEW j \in Jobs, NEW row \in Row, jobs' = [jobs EXCEPT ![j] = row],
             Reflects(row, release', reported')
      PROVE  /\ jobs' \in [Jobs -> Row \cup {Absent}]
             /\ Known \subseteq Known'
             /\ \A k \in Known' : Reflects(jobs'[k], release', reported')
  <2>1. jobs'[j] = row /\ \A k \in Jobs : k # j => jobs'[k] = jobs[k]
    BY <1>1, <1>4
  <2>2. jobs' \in [Jobs -> Row \cup {Absent}]
    BY <1>1, <1>4
  <2>3. Known \subseteq Known'
    BY <2>1, RowsArePresent DEF Known
  <2>4. \A k \in Known' : k = j \/ k \in Known
    BY <2>1 DEF Known
  <2>5. \A k \in Known' : Reflects(jobs'[k], release', reported')
    BY <1>2, <1>4, <2>1, <2>4 DEF Known
  <2> QED BY <2>2, <2>3, <2>5
<1> QED BY <1>3, <1>4

\* What the invariant says of a track: only edits of its fields matter.
TrackFits(t) ==
    /\ DOMAIN t = DOMAIN NoPreferences
    /\ \A field \in DOMAIN Vocabulary : t[field] \subseteq Vocabulary[field]
    /\ t.salary_expectation_min \in Nat \cup {NoAmount}

\* A new track prefers nothing.
LEMMA NoPreferencesFit == TrackFits(NoPreferences)
<1>1. \A field \in DOMAIN Vocabulary : NoPreferences[field] = {}
  BY Fields DEF NoPreferences
<1>2. NoPreferences.salary_expectation_min = NoAmount
  BY DEF NoPreferences
<1> QED BY <1>1, <1>2 DEF TrackFits

\* An edit keeps a track typed, whatever field it is of.
LEMMA EditFits ==
  ASSUME NEW t, TrackFits(t), NEW field \in DOMAIN NoPreferences, NEW value,
         field \in DOMAIN Vocabulary => value \subseteq Vocabulary[field],
         field = "salary_expectation_min" => value \in Nat \cup {NoAmount}
  PROVE  TrackFits([t EXCEPT ![field] = value])
<1> DEFINE u == [t EXCEPT ![field] = value]
<1>1. /\ DOMAIN u = DOMAIN NoPreferences
      /\ \A f \in DOMAIN NoPreferences : u[f] = IF f = field THEN value ELSE t[f]
  BY SetField DEF TrackFits
<1> HIDE DEF u
<1>2. \A f \in DOMAIN Vocabulary : u[f] \subseteq Vocabulary[f]
  BY <1>1, Fields DEF TrackFits
<1>3. u.salary_expectation_min \in Nat \cup {NoAmount}
  <2>1. u.salary_expectation_min =
           IF "salary_expectation_min" = field THEN value ELSE t.salary_expectation_min
    BY <1>1, Fields
  <2> QED BY <2>1 DEF TrackFits
<1>4. TrackFits(u)
  BY <1>1, <1>2, <1>3 DEF TrackFits
<1> QED BY <1>4 DEF u

\* IInv, part by part.
LEMMA Parts ==
  IInv <=> /\ TrackFits(track) /\ home \in Homes /\ places = Places
           /\ release \in DOMAIN Taxonomies
           /\ todo \subseteq Known /\ edits \in 0..MaxEdits
           /\ jobs \in [Jobs -> Row \cup {Absent}]
           /\ \A j \in Known : Reflects(jobs[j], release, reported)
<1>1. ASSUME jobs \in [Jobs -> Row \cup {Absent}], NEW j \in Known
      PROVE  jobs[j] \in Row
  BY <1>1 DEF Known
<1>2. ASSUME jobs \in [Jobs -> Row \cup {Absent}], NEW j \in Known
      PROVE  /\ DOMAIN jobs[j].attributes = DOMAIN NoAttributes
             /\ jobs[j].attributes.industry \subseteq Industries
  BY <1>1, <1>2, AttributesFacts
<1> QED BY <1>2 DEF IInv, TypeOK, TrackFits

\* The same for the state after a step.
LEMMA NextParts ==
  ASSUME TrackFits(track'), home' \in Homes, places' = Places,
         release' \in DOMAIN Taxonomies, todo' \subseteq Known',
         edits' \in 0..MaxEdits, jobs' \in [Jobs -> Row \cup {Absent}],
         \A j \in Known' : Reflects(jobs'[j], release', reported')
  PROVE  IInv'
<1>1. ASSUME NEW j \in Known'
      PROVE  /\ DOMAIN jobs'[j].attributes = DOMAIN NoAttributes
             /\ jobs'[j].attributes.industry \subseteq Industries
  <2>1. jobs'[j] \in Row
    BY <1>1 DEF Known
  <2> QED BY <2>1, AttributesFacts
<1>2. /\ DOMAIN track' = DOMAIN NoPreferences
      /\ \A field \in DOMAIN Vocabulary : track'[field] \subseteq Vocabulary[field]
      /\ track'.salary_expectation_min \in Nat \cup {NoAmount}
  BY DEF TrackFits
<1>3. TypeOK'
  BY <1>1, <1>2 DEF TypeOK
<1>4. \A j \in Known' : Reflects(jobs[j], release, reported)'
  BY DEF Reflects
<1> QED BY <1>2, <1>3, <1>4 DEF IInv

\* Init establishes it,
LEMMA InitIInv == Init => IInv
<1>1. SUFFICES ASSUME Init PROVE IInv
  OBVIOUS
<1>2. Known = {}
  BY <1>1 DEF Init, Known
<1>3. jobs \in [Jobs -> Row \cup {Absent}]
  BY <1>1 DEF Init
<1>4. TrackFits(track)
  BY <1>1, NoPreferencesFit DEF Init
<1> QED BY <1>1, <1>2, <1>3, <1>4, Parts DEF Init

\* ... and every step preserves it: the edits,
LEMMA EditIInv ==
  ASSUME IInv, EditTrack \/ MigrateIndustries \/ MoveHome
  PROVE  IInv'
<1>0. /\ UNCHANGED <<jobs, release, reported, todo, met, places>>
      /\ edits < MaxEdits /\ edits' = edits + 1 /\ Known' = Known
  BY DEF EditTrack, MigrateIndustries, MoveHome, Edited, Known
<1>1. TrackFits(track) /\ home \in Homes /\ edits \in 0..MaxEdits
  BY Parts
<1>2. TrackFits(track') /\ home' \in Homes
  <2>1. CASE EditTrack
    <3>1. PICK field \in DOMAIN Preferences : \E value \in Preferences[field] :
                  Edited([track EXCEPT ![field] = value])
      BY <2>1 DEF EditTrack
    <3>2. PICK value \in Preferences[field] : Edited([track EXCEPT ![field] = value])
      BY <3>1
    <3>3. /\ field \in DOMAIN Vocabulary => value \subseteq Vocabulary[field]
          /\ field = "salary_expectation_min" => value \in Nat \cup {NoAmount}
          /\ field \in DOMAIN NoPreferences
      OBVIOUS
    <3>4. TrackFits([track EXCEPT ![field] = value])
      BY <1>1, <3>3, EditFits
    <3> QED BY <1>1, <3>2, <3>4 DEF Edited
  <2>2. CASE MigrateIndustries
    <3>1. /\ NamedIndustries \subseteq Vocabulary["industries"]
          /\ "industries" \in DOMAIN NoPreferences
      BY Fields DEF Vocabulary
    <3>2. TrackFits([track EXCEPT !["industries"] = NamedIndustries])
      BY <1>1, <3>1, EditFits
    <3> QED BY <1>1, <2>2, <3>2 DEF MigrateIndustries, Edited
  <2>3. CASE MoveHome
    BY <1>1, <2>3 DEF MoveHome
  <2> QED BY <2>1, <2>2, <2>3
<1>3. edits' \in 0..MaxEdits
  BY <1>0, <1>1
<1>4. /\ places' = Places /\ release' \in DOMAIN Taxonomies /\ todo' \subseteq Known'
      /\ jobs' \in [Jobs -> Row \cup {Absent}]
      /\ \A j \in Known' : Reflects(jobs'[j], release', reported')
  BY <1>0, Parts
<1> QED BY <1>2, <1>3, <1>4, NextParts

\* ... what is stored of a posting,
LEMMA IngestIInv ==
  ASSUME IInv, NEW j \in Jobs, Ingest(j)
  PROVE  IInv'
<1>1. PICK text \in Texts, raw \in Raws :
         /\ jobs' = [jobs EXCEPT ![j] =
               [text |-> text, raw |-> raw, attributes |-> Attributes(raw)]]
         /\ reported' = reported \cup Report(raw)
  BY DEF Ingest
<1>2. UNCHANGED <<track, home, release, todo, met, edits, places>>
  BY DEF Ingest
<1> DEFINE row == [text |-> text, raw |-> raw, attributes |-> Attributes(raw)]
<1>3. row \in Row /\ Reflects(row, release, reported')
  BY <1>1, Parts, SavedRowFits
<1> HIDE DEF row
<1>4. jobs' = [jobs EXCEPT ![j] = row]
  BY <1>1 DEF row
<1>5. /\ release' \in DOMAIN Taxonomies /\ release <= release'
      /\ reported \subseteq reported' /\ release' = release
  BY <1>1, <1>2, Parts
<1>6. /\ jobs' \in [Jobs -> Row \cup {Absent}] /\ Known \subseteq Known'
      /\ \A k \in Known' : Reflects(jobs'[k], release', reported')
  BY <1>3, <1>4, <1>5, RowsStay
<1>7. /\ TrackFits(track') /\ home' \in Homes /\ places' = Places
      /\ todo' \subseteq Known' /\ edits' \in 0..MaxEdits
  BY <1>2, <1>6, Parts
<1> QED BY <1>5, <1>6, <1>7, NextParts

\* An update of the attributes leaves the text and the raw_json.
LEMMA NewAttributes ==
  ASSUME NEW row \in Row, NEW a
  PROVE  [row EXCEPT !.attributes = a]
            = [text |-> row.text, raw |-> row.raw, attributes |-> a]
<1> DEFINE Values == {NoAttributes} \cup
              {Extracted(raw, Taxonomies[r]) : raw \in Raws, r \in DOMAIN Taxonomies}
<1>1. row \in [text : Texts, raw : Raws, attributes : Values]
  BY DEF Row
<1> HIDE DEF Values
<1> QED BY <1>1

\* ... what a backfill makes of it: what it cannot map the row's ingestion has
\* reported, since a later release maps what an earlier one does,
LEMMA BackfillIInv ==
  ASSUME IInv, BackfillRow
  PROVE  IInv'
<1>1. PICK j \in todo :
         /\ ~jobs[j].raw.broken
         /\ jobs' = [jobs EXCEPT ![j].attributes = Attributes(jobs[j].raw)]
         /\ todo' = todo \ {j}
         /\ UNCHANGED <<track, home, release, reported, edits, places>>
  BY DEF BackfillRow
<1>2. /\ j \in Jobs /\ j \in Known /\ jobs[j] \in Row
      /\ Reflects(jobs[j], release, reported) /\ release \in DOMAIN Taxonomies
  BY <1>1, Parts DEF Known
<1> DEFINE row == [text |-> jobs[j].text, raw |-> jobs[j].raw,
                   attributes |-> Attributes(jobs[j].raw)]
<1>3. row \in Row /\ Reflects(row, release, reported)
  <2>1. jobs[j].text \in Texts /\ jobs[j].raw \in Raws
    BY <1>2, AttributesFacts
  <2>2. PICK r \in 1..release :
           Unmapped(jobs[j].raw.categories, Taxonomies[r]) \subseteq reported
    BY <1>1, <1>2 DEF Reflects
  <2>3. r \in DOMAIN Taxonomies /\ r <= release
    BY <1>2
  <2>4. Unmapped(jobs[j].raw.categories, Taxonomies[release]) \subseteq reported
    BY <1>2, <2>2, <2>3, ReleasesGrow
  <2>5. Report(jobs[j].raw) \subseteq reported
    BY <1>1, <2>4 DEF Report, Mapping
  <2> QED BY <1>2, <2>1, <2>5, SavedRowFits
<1>4. [jobs[j] EXCEPT !.attributes = Attributes(jobs[j].raw)] = row
  BY <1>2, NewAttributes
<1> HIDE DEF row
<1>5. jobs' = [jobs EXCEPT ![j] = row]
  BY <1>1, <1>4
<1>6. /\ release' \in DOMAIN Taxonomies /\ release <= release'
      /\ reported \subseteq reported' /\ release' = release /\ reported' = reported
  BY <1>1, Parts
<1>7. /\ jobs' \in [Jobs -> Row \cup {Absent}] /\ Known \subseteq Known'
      /\ \A k \in Known' : Reflects(jobs'[k], release', reported')
  BY <1>2, <1>3, <1>5, <1>6, RowsStay
<1>8. /\ TrackFits(track') /\ home' \in Homes /\ places' = Places
      /\ todo' \subseteq Known' /\ edits' \in 0..MaxEdits
  BY <1>1, <1>7, Parts
<1> QED BY <1>6, <1>7, <1>8, NextParts

\* ... and a release or the start and the end of a backfill.
LEMMA RestIInv ==
  ASSUME IInv, ExtendTaxonomy \/ StartBackfill \/ EndBackfill \/ BackfillFails
  PROVE  IInv'
<1>1. UNCHANGED <<track, home, jobs, edits, places>> /\ Known' = Known
  BY DEF ExtendTaxonomy, StartBackfill, EndBackfill, BackfillFails, Known
<1>2. /\ release' \in DOMAIN Taxonomies /\ release <= release'
      /\ todo' \subseteq Known /\ reported \subseteq reported'
  BY <1>1, Parts DEF ExtendTaxonomy, StartBackfill, EndBackfill, BackfillFails
<1>3. /\ jobs' \in [Jobs -> Row \cup {Absent}]
      /\ \A k \in Known' : Reflects(jobs'[k], release', reported')
  BY <1>1, <1>2, RowsStay
<1>4. /\ TrackFits(track') /\ home' \in Homes /\ places' = Places
      /\ todo' \subseteq Known' /\ edits' \in 0..MaxEdits
  BY <1>1, <1>2, Parts
<1> QED BY <1>2, <1>3, <1>4, NextParts

\* IInv is inductive.
LEMMA Inductive == Spec => []IInv
<1>1. IInv /\ [Next]_vars => IInv'
  <2>1. ASSUME IInv, UNCHANGED vars PROVE IInv'
    BY <2>1 DEF vars, IInv, TypeOK, Known, Reflects
  <2>2. ASSUME IInv, Next PROVE IInv'
    BY <2>2, EditIInv, IngestIInv, BackfillIInv, RestIInv DEF Next
  <2> QED BY <2>1, <2>2
<1> QED BY <1>1, InitIInv, PTL DEF Spec

-----------------------------------------------------------------------------
(* The theorems.                                                           *)

\* The type invariant holds: no industry of a job is outside the taxonomy.
THEOREM TypeCorrect == Spec => []TypeOK
<1>1. IInv => TypeOK
  BY DEF IInv
<1> QED BY <1>1, Inductive, PTL

\* What the invariant says of a job and of the track.
LEMMA JobFacts ==
  ASSUME IInv, NEW j \in Known
  PROVE  /\ jobs[j] \in Row /\ Reflects(jobs[j], release, reported)
         /\ DOMAIN track = DOMAIN NoPreferences
         /\ track.salary_expectation_min \in Int
         /\ Reference(jobs[j].attributes) \in Int
<1>1. jobs[j] \in Row
  BY DEF IInv, Known
<1>2. Reference(jobs[j].attributes) \in Int
  BY <1>1, AttributesFacts DEF Reference
<1>3. track.salary_expectation_min \in Int
  BY DEF IInv, NoAmount
<1> QED BY <1>1, <1>2, <1>3 DEF IInv, TypeOK

\* Only a genuine mismatch rejects a job.
THEOREM UnknownNeverRejects == Spec => []OnlyMismatchesReject
<1>1. ASSUME IInv, NEW j \in Known, jobs[j].attributes = NoAttributes,
             PlaceOf(jobs[j].text, NoAttributes) = Somewhere(None, FALSE)
      PROVE  j \in Passing
  <2> DEFINE text == jobs[j].text
             a == NoAttributes
  <2>1. ModeOf(text, a) = NoValue /\ JobCountry(text, a) = None
    BY <1>1 DEF ModeOf, JobCountry, Somewhere, NoAttributes
  <2>2. /\ a.employment_type = NoValue /\ a.seniority_level = NoValue
        /\ a.industry = {} /\ a.visa_sponsorship = NoValue
        /\ Reference(a) = NoAmount
    BY DEF Reference, NoAttributes
  <2> HIDE DEF a
  <2>3. Admits(track, text, a, home)
    BY <2>1, <2>2 DEF Admits
  <2> QED BY <1>1, <2>3, PassesAdmits DEF Passing, Pass, a
<1>2. ASSUME IInv, NEW j \in Passing,
             NEW field \in DOMAIN NoPreferences
                 \ {"preferred_countries", "willing_to_relocate", "salary_currency"}
      PROVE  Pass([track EXCEPT ![field] = NoPreferences[field]], j)
  <2>1. Admits(track, jobs[j].text, jobs[j].attributes, home)
    BY PassesAdmits DEF Passing, Pass
  <2>2. DOMAIN track = DOMAIN NoPreferences
    BY <1>2 DEF IInv, TypeOK
  <2>3. Admits([track EXCEPT ![field] = NoPreferences[field]],
               jobs[j].text, jobs[j].attributes, home)
    BY <2>1, <2>2, ClearingAdmits
  <2> QED BY <2>3, PassesAdmits DEF Pass
<1>3. IInv => OnlyMismatchesReject
  BY <1>1, <1>2 DEF OnlyMismatchesReject
<1> QED BY <1>3, Inductive, PTL

\* A country written as the last segment is the job's.
THEOREM WrittenCountriesDecide == Spec => []WrittenCountryDecides
<1>1. ASSUME IInv, NEW j \in Known,
             Decided(jobs[j].text[Len(jobs[j].text)]) # None
      PROVE  JobCountry(jobs[j].text, jobs[j].attributes)
                = Decided(jobs[j].text[Len(jobs[j].text)])
  <2> DEFINE text == jobs[j].text
             a == jobs[j].attributes
  <2>1. /\ text \in Texts /\ a.country = NoAttributes.country
        /\ a.remote = NoAttributes.remote
    BY <1>1, JobFacts, AttributesFacts
  <2> HIDE DEF text, a
  <2>2. PlaceOf(text, a) = Normalize(text, NoAttributes.country, NoAttributes.remote)
    BY <1>1, <2>1 DEF IInv, PlaceOf, Places
  <2>3. NoAttributes.country = None /\ NoAttributes.remote = None
    BY DEF NoAttributes, NoValue, None
  <2>4. JobCountry(text, a) = CountryOf(text)
    BY <2>2, <2>3 DEF JobCountry, Normalize, Somewhere
  <2>5. CountryOf(text) = Decided(text[Len(text)])
    BY <1>1, <2>1, LastSegmentDecides DEF text
  <2> QED BY <2>4, <2>5 DEF text, a
<1>2. IInv => WrittenCountryDecides
  BY <1>1 DEF WrittenCountryDecides
<1> QED BY <1>2, Inductive, PTL

\* Industries behind the taxonomy belong to a category that was reported.
THEOREM StaleIndustriesAreReported == Spec => []StaleIndustriesWereReported
<1>1. ASSUME IInv, NEW j \in Known,
             jobs[j].attributes.industry # Attributes(jobs[j].raw).industry
      PROVE  jobs[j].raw.categories \cap reported # {}
  <2> DEFINE raw == jobs[j].raw
             a == jobs[j].attributes
  <2>1. /\ raw \in Raws /\ Reflects(jobs[j], release, reported)
        /\ release \in DOMAIN Taxonomies
    BY <1>1, JobFacts, AttributesFacts DEF IInv, TypeOK
  <2>2. ~raw.broken
    BY <1>1, <2>1 DEF Reflects, Attributes
  <2>3. PICK r \in 1..release : /\ a = Extracted(raw, Taxonomies[r])
                                /\ Unmapped(raw.categories, Taxonomies[r]) \subseteq reported
    BY <2>1, <2>2 DEF Reflects
  <2>4. r \in DOMAIN Taxonomies /\ r <= release
    BY <2>1
  <2>5. /\ a.industry = Canonical(raw.categories, Taxonomies[r])
        /\ Attributes(raw).industry = Canonical(raw.categories, Taxonomies[release])
    BY <2>1, <2>2, <2>3, ExtractedFacts DEF Attributes, Mapping
  <2>6. Unmapped(raw.categories, Taxonomies[r]) # {}
    BY <1>1, <2>1, <2>4, <2>5, ReleasesGrow
  <2>7. Unmapped(raw.categories, Taxonomies[r]) \subseteq raw.categories
    BY DEF Unmapped
  <2> QED BY <2>3, <2>6, <2>7
<1>2. IInv => StaleIndustriesWereReported
  BY <1>1 DEF StaleIndustriesWereReported
<1> QED BY <1>2, Inductive, PTL

\* A wider preference never rejects a job nor lowers its score.
THEOREM WiderTracksAreNeverWorse == Spec => []WiderTrackNeverWorse
<1>1. ASSUME IInv, NEW field \in DOMAIN Vocabulary, track[field] # {}, NEW value
      PROVE  LET wider == [track EXCEPT ![field] = @ \cup {value}] IN
                /\ \A j \in Passing : Pass(wider, j)
                /\ \A j \in Known : Penalty(track, jobs[j].attributes)
                                      <= Penalty(wider, jobs[j].attributes)
  <2> DEFINE wider == [track EXCEPT ![field] = @ \cup {value}]
  <2>1. DOMAIN track = DOMAIN NoPreferences
    BY <1>1 DEF IInv, TypeOK
  <2>2. ASSUME NEW j \in Passing PROVE Pass(wider, j)
    <3>1. Admits(track, jobs[j].text, jobs[j].attributes, home)
      BY PassesAdmits DEF Passing, Pass
    <3>2. Admits(wider, jobs[j].text, jobs[j].attributes, home)
      BY <1>1, <2>1, <3>1, WideningAdmits
    <3> QED BY <3>2, PassesAdmits DEF Pass
  <2>3. ASSUME NEW j \in Known
        PROVE  Penalty(track, jobs[j].attributes) <= Penalty(wider, jobs[j].attributes)
    BY <1>1, <2>1, WideningNeverPenalises
  <2> QED BY <2>2, <2>3
<1>2. ASSUME IInv, NEW j \in Passing, NEW floor \in 0..track.salary_expectation_min
      PROVE  Pass([track EXCEPT !.salary_expectation_min = floor], j)
  <2>1. Admits(track, jobs[j].text, jobs[j].attributes, home)
    BY PassesAdmits DEF Passing, Pass
  <2>2. /\ DOMAIN track = DOMAIN NoPreferences
        /\ track.salary_expectation_min \in Int
        /\ Reference(jobs[j].attributes) \in Int
    BY <1>2, JobFacts DEF Passing
  <2>3. Admits([track EXCEPT !.salary_expectation_min = floor],
               jobs[j].text, jobs[j].attributes, home)
    BY <2>1, <2>2, LowerFloorAdmits
  <2> QED BY <2>3, PassesAdmits DEF Pass
<1>3. IInv => WiderTrackNeverWorse
  BY <1>1, <1>2 DEF WiderTrackNeverWorse
<1> QED BY <1>3, Inductive, PTL

\* Attributes that only gain industries keep a job that has some.
LEMMA RicherAdmits ==
  ASSUME NEW t, NEW text, NEW a, NEW b, NEW h, a.industry # {},
         a.industry \subseteq b.industry,
         b.employment_type = a.employment_type,
         b.seniority_level = a.seniority_level, b.work_mode = a.work_mode,
         b.visa_sponsorship = a.visa_sponsorship, b.salary_min = a.salary_min,
         b.salary_max = a.salary_max, b.salary_currency = a.salary_currency,
         b.country = a.country, b.remote = a.remote,
         Admits(t, text, a, h)
  PROVE  Admits(t, text, b, h)
<1>1. /\ PlaceOf(text, b) = PlaceOf(text, a) /\ Reference(b) = Reference(a)
      /\ ModeOf(text, b) = ModeOf(text, a) /\ JobCountry(text, b) = JobCountry(text, a)
  BY DEF PlaceOf, Reference, ModeOf, JobCountry
<1> QED BY <1>1 DEF Admits

\* A job passes exactly when Admits holds, before a step and after it.
Agree == \A j \in Jobs : Pass(track, j) <=>
             Admits(track, jobs[j].text, jobs[j].attributes, home)

\* Pass and Admits agree in the state after a step.
LEMMA AgreeNext == Agree'
<1>1. Agree
  BY PassesAdmits DEF Agree, Pass
<1> QED BY <1>1, PTL

\* A backfill that finds more industries for a job that has some never takes
\* it out of a track it passes.
THEOREM RicherJobsStay == Spec => RicherJobNeverRejected
<1> DEFINE Keeps == UNCHANGED <<track, home>> =>
              \A j \in Passing : jobs[j].attributes.industry # {} => j \in Passing'
<1>1. ASSUME IInv, Next, UNCHANGED <<track, home>>, NEW j \in Passing,
             jobs[j].attributes.industry # {}
      PROVE  j \in Passing'
  <2> DEFINE text == jobs[j].text
             a == jobs[j].attributes
  <2>1. places' = places
    BY <1>1 DEF Next, EditTrack, MigrateIndustries, Edited, MoveHome, Ingest,
       ExtendTaxonomy, StartBackfill, BackfillRow, EndBackfill, BackfillFails
  <2>2. /\ j \in Known /\ j \in Jobs /\ Admits(track, text, a, home)
        /\ jobs[j] \in Row /\ Reflects(jobs[j], release, reported)
        /\ release \in DOMAIN Taxonomies
    <3>1. j \in Known /\ j \in Jobs /\ Pass(track, j)
      BY DEF Passing, Known
    <3>2. Admits(track, text, a, home)
      BY <3>1, PassesAdmits DEF Pass
    <3> QED BY <1>1, <3>1, <3>2, JobFacts DEF IInv, TypeOK
  <2>3. \/ jobs'[j] = jobs[j]
        \/ ~jobs[j].raw.broken
           /\ jobs'[j] = [jobs[j] EXCEPT !.attributes = Attributes(jobs[j].raw)]
    <3>1. jobs \in [Jobs -> Row \cup {Absent}]
      BY <1>1 DEF IInv
    <3> QED BY <1>1, <2>2, <3>1 DEF Next, EditTrack, MigrateIndustries, Edited,
        MoveHome, Ingest, ExtendTaxonomy, StartBackfill, BackfillRow,
        EndBackfill, BackfillFails, Known
  <2> DEFINE b == jobs'[j].attributes
  <2>4. /\ jobs'[j].text = text
        /\ \/ b = a
           \/ ~jobs[j].raw.broken /\ b = Extracted(jobs[j].raw, Taxonomies[release])
    BY <2>2, <2>3 DEF Row, Attributes, Mapping
  <2>5. Admits(track, text, b, home)
    <3>1. CASE b = a
      BY <2>2, <3>1
    <3>2. CASE ~jobs[j].raw.broken /\ b = Extracted(jobs[j].raw, Taxonomies[release])
      <4> DEFINE raw == jobs[j].raw
      <4>1. PICK r \in 1..release : a = Extracted(raw, Taxonomies[r])
        BY <2>2, <3>2 DEF Reflects
      <4>2. raw \in Raws /\ r \in DOMAIN Taxonomies /\ r <= release
        BY <2>2, AttributesFacts
      <4> HIDE DEF raw, text, a, b
      <4>3. a.industry \subseteq b.industry
        BY <2>2, <3>2, <4>1, <4>2, ExtractedFacts, ReleasesGrow DEF raw
      <4>4. /\ b.employment_type = a.employment_type
            /\ b.seniority_level = a.seniority_level
            /\ b.work_mode = a.work_mode
            /\ b.visa_sponsorship = a.visa_sponsorship
            /\ b.salary_min = a.salary_min /\ b.salary_max = a.salary_max
            /\ b.salary_currency = a.salary_currency
            /\ b.country = a.country /\ b.remote = a.remote
        BY <3>2, <4>1, ExtractedTwice DEF raw
      <4>5. a.industry # {} /\ Admits(track, text, a, home)
        BY <1>1, <2>2 DEF a, text
      <4> QED BY <4>3, <4>4, <4>5, RicherAdmits
    <3> QED BY <2>4, <3>1, <3>2
  <2>6. j \in Known'
    <3>1. "raw" \in DOMAIN jobs'[j]
      BY <2>2, <2>3 DEF Row
    <3>2. "raw" \notin DOMAIN Absent
      BY DEF Absent
    <3> QED BY <2>2, <3>1, <3>2 DEF Known
  <2>7. Admits(track, jobs[j].text, jobs[j].attributes, home)'
    <3>1. track' = track /\ home' = home /\ jobs'[j].text = text
      BY <1>1, <2>4
    <3> HIDE DEF text
    <3>2. Admits(track', jobs'[j].text, jobs'[j].attributes, home')
      BY <2>5, <3>1
    <3> QED BY <2>1, <3>2 DEF Admits, ModeOf, JobCountry, HomeCountry, PlaceOf
  <2>8. Pass(track, j)'
    BY <2>2, <2>7, AgreeNext DEF Agree
  <2> QED BY <2>6, <2>8 DEF Passing
<1>2. IInv /\ [Next]_vars => [Keeps]_vars
  BY <1>1
<1> QED BY <1>2, Inductive, PTL DEF Spec, RicherJobNeverRejected
=============================================================================

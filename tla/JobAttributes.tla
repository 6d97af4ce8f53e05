--------------------------- MODULE JobAttributes ---------------------------
(***************************************************************************)
(* jobs.attributes as extracted from the raw_json of a posting, and the    *)
(* industry taxonomy it goes through.                                      *)
(*                                                                         *)
(* MyJobMag: types is the "Job Type" split at its commas (it names both    *)
(* employment types and work modes), years the numbers of "Experience".    *)
(* BrighterMonday: types is employmentType and TELECOMMUTE, years the      *)
(* months // 12, and there may be a salary.  The vocabularies of the two   *)
(* are disjoint, so one operator serves both.                              *)
(***************************************************************************)
EXTENDS Integers, Sequences, FiniteSets

CONSTANTS
    TypeTokens,    \* token -> employment_type
    ModeTokens,    \* token -> work_mode
    Industries     \* CANONICAL_INDUSTRIES

NoValue == "none"
NoAmount == -1

\* Nothing is known of a job.
NoAttributes ==
    [employment_type |-> NoValue, seniority_level |-> NoValue,
     work_mode |-> NoValue, industry |-> {}, visa_sponsorship |-> NoValue,
     salary_min |-> NoAmount, salary_max |-> NoAmount,
     salary_currency |-> NoValue, country |-> NoValue, remote |-> NoValue]

\* The first token in the vocabulary, in the order the source wrote them.
FirstKnown(types, tokens) ==
    LET known == {i \in DOMAIN types : types[i] \in DOMAIN tokens}
    IN  IF known = {} THEN NoValue
        ELSE tokens[types[CHOOSE i \in known : \A j \in known : i <= j]]

\* 0-1 entry, 2-4 mid, 5-8 senior, 9+ lead, by the smallest number.
Bucket(years) ==
    IF years = {} THEN NoValue
    ELSE LET floor == CHOOSE y \in years : \A z \in years : y <= z
         IN  CASE floor <= 1 -> "entry"
               [] floor \in 2..4 -> "mid"
               [] floor \in 5..8 -> "senior"
               [] floor > 8 -> "lead"

\* Mutant: a category no mapping has is kept as it is.
MutantCanonical(categories, mapping) ==
    UNION {IF c \in DOMAIN mapping THEN mapping[c] ELSE {c} : c \in categories}

\* normalize_categories: an entry of a mapping is a set of industries, empty
\* for a category that is excluded on purpose.
Canonical(categories, mapping) ==
    UNION {mapping[c] : c \in categories \cap DOMAIN mapping}

\* Mutant: a category that maps to nothing is reported, one that is missing
\* is not.
MutantUnmapped(categories, mapping) ==
    {c \in categories \cap DOMAIN mapping : mapping[c] = {}}

Unmapped(categories, mapping) == categories \ DOMAIN mapping

\* A salary is taken over only if it is monthly.
Monthly(raw) == raw.unit = "MONTH"

Extracted(raw, mapping) ==
    [NoAttributes EXCEPT
        !.employment_type = FirstKnown(raw.types, TypeTokens),
        !.work_mode = FirstKnown(raw.types, ModeTokens),
        !.seniority_level = Bucket(raw.years),
        !.industry = Canonical(raw.categories, mapping),
        !.salary_min = IF Monthly(raw) THEN raw.min ELSE NoAmount,
        !.salary_max = IF Monthly(raw) THEN raw.max ELSE NoAmount,
        !.salary_currency = IF Monthly(raw) THEN raw.currency ELSE NoValue]
=============================================================================

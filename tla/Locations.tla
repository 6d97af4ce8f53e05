----------------------------- MODULE Locations -----------------------------
(***************************************************************************)
(* normalize_location: the country and the remote flag of a job or a home. *)
(*                                                                         *)
(* A location text is a sequence of segments (what is between its commas). *)
(* What the tables of the code (pycountry, PROJECT_ALIASES,                *)
(* CITY_COUNTRY_MAP) say of a segment, and what a search of a whole text   *)
(* for their entries finds, are constants: a name with a comma is in no    *)
(* segment.  The tiers are tried in order and the first that finds a       *)
(* country decides.                                                        *)
(***************************************************************************)
EXTENDS Naturals, Sequences

CONSTANTS
    Countries,
    About,      \* About[t]: what the tables say of segment t
    Whole       \* Whole[text]: what is found anywhere in a text

None == "none"

\* usState: two letters that are a state of the US; exact: pycountry finds the
\* segment; alias, city: it is an alias or a city.
Segment == [usState : BOOLEAN, exact : Countries \cup {None},
            alias : Countries \cup {None}, city : Countries \cup {None}]

\* The countries of the cities, the countries and the aliases named in a text,
\* each in the order of its own table, and whether it has a remote keyword.
Mentions == [cities : Seq(Countries), names : Seq(Countries),
             aliases : Seq(Countries), remote : BOOLEAN]

ASSUME LocationsAssumption ==
    /\ "US" \in Countries /\ None \notin Countries
    /\ About \in [DOMAIN About -> Segment]
    \* The text between two commas may be empty, but there is one.
    /\ DOMAIN Whole \subseteq Seq(DOMAIN About) \ {<<>>}
    /\ Whole \in [DOMAIN Whole -> Mentions]

Somewhere(country, remote) == [country |-> country, remote |-> remote]

RemoteHint(text) == Whole[text].remote

\* A state of the US before an ISO code: "CA" is California.
Decided(t) == IF About[t].usState THEN "US" ELSE About[t].exact

\* Mutant: the segments are tried from the left.
MutantTier2(text) ==
    LET hits == {i \in DOMAIN text : Decided(text[i]) # None}
    IN  IF hits = {} THEN None
        ELSE Decided(text[CHOOSE i \in hits : \A j \in hits : i <= j])

\* Tier 2: the segments from the last to the first.
Tier2(text) ==
    LET hits == {i \in DOMAIN text : Decided(text[i]) # None}
    IN  IF hits = {} THEN None
        ELSE Decided(text[CHOOSE i \in hits : \A j \in hits : j <= i])

\* Tiers 3 and 4: a table, for the segments from the first to the last.
FirstSegment(text, table) ==
    LET hits == {i \in DOMAIN text : About[text[i]][table] # None}
    IN  IF hits = {} THEN None
        ELSE About[text[CHOOSE i \in hits : \A j \in hits : i <= j]][table]

\* Tiers 4b, 5 and 5b: the first entry of a table that the whole text names.
Scan(text, table) ==
    IF Whole[text][table] = <<>> THEN None ELSE Head(Whole[text][table])

\* The answers of tiers 2 to 5b, in order.
Tiers(text) ==
    <<Tier2(text), FirstSegment(text, "alias"), FirstSegment(text, "city"),
      Scan(text, "cities"), Scan(text, "names"), Scan(text, "aliases")>>

CountryOf(text) ==
    LET tiers == Tiers(text)
        hits == {i \in DOMAIN tiers : tiers[i] # None}
    IN  IF hits = {} THEN None
        ELSE tiers[CHOOSE i \in hits : \A j \in hits : i <= j]

\* Tier 1: attributes that name a country or say whether the job is remote
\* end the search, whatever the text says.  An unknown location and a remote
\* one without a country differ in the flag only.
Normalize(text, country, remote) ==
    IF country # None \/ remote # None
    THEN Somewhere(country, IF remote = None THEN RemoteHint(text)
                            ELSE remote = "yes")
    ELSE Somewhere(CountryOf(text), RemoteHint(text))
=============================================================================

---------------------------- MODULE MCJobFilters ----------------------------
(* Postings and tracks of a small instance of JobFilters. *)
EXTENDS JobFilters

MCCountries == {"US", "UAE", "Georgia"}

Blank == [usState |-> FALSE, exact |-> None, alias |-> None, city |-> None]

MCAbout == [t \in {"Georgia", "CA", "Dubai", "Remote - UAE based", "HQ"} |->
    CASE t = "Georgia" -> [Blank EXCEPT !.exact = t]
      [] t = "CA" -> [Blank EXCEPT !.usState = TRUE]
      [] t = "Dubai" -> [Blank EXCEPT !.city = "UAE"]
      [] t \in {"Remote - UAE based", "HQ"} -> Blank]

MCTexts == {<<"Georgia", "CA">>, <<"Dubai", "HQ">>, <<"Remote - UAE based">>, <<"HQ">>}

Nothing == [cities |-> <<>>, names |-> <<>>, aliases |-> <<>>, remote |-> FALSE]

MCWhole == [text \in MCTexts |->
    CASE text = <<"Georgia", "CA">> -> [Nothing EXCEPT !.names = <<"Georgia">>]
      [] text = <<"Dubai", "HQ">> -> [Nothing EXCEPT !.cities = <<"UAE">>]
      [] text = <<"Remote - UAE based">> ->
            [Nothing EXCEPT !.aliases = <<"UAE">>, !.remote = TRUE]
      [] text = <<"HQ">> -> Nothing]

MCTypeTokens == [t \in {"Full Time", "Contract"} |->
                    IF t = "Contract" THEN "contract" ELSE "full_time"]
MCModeTokens == [t \in {"Onsite", "Remote"} |->
                    IF t = "Remote" THEN "remote" ELSE "onsite"]
MCIndustries == {"IT", "Banking"}

Silent == [types |-> <<>>, years |-> {}, categories |-> {}, unit |-> "none",
           min |-> NoAmount, max |-> NoAmount, currency |-> NoValue,
           broken |-> FALSE]

MCRaws ==
    {[Silent EXCEPT !.broken = TRUE],
     [Silent EXCEPT !.types = <<"Contract", "Full Time", "Onsite">>, !.years = {5, 8},
                    !.categories = {"ICT", "Fintech", "Crypto"}],
     [Silent EXCEPT !.categories = {"ICT", "Unspecified"}, !.unit = "MONTH",
                    !.min = 1, !.max = 2, !.currency = "KES"]}

MCTaxonomies ==
    <<[ICT |-> {"IT"}, Unspecified |-> {}],
      [ICT |-> {"IT"}, Unspecified |-> {}, Fintech |-> {"IT", "Banking"}]>>

MCPreferences ==
    [employment_types |-> {{}, {"contract"}},
     seniority_levels |-> {{}, {"mid"}},
     industries |-> {{}, {"IT"}},
     work_mode |-> {{}, {"remote"}},
     preferred_countries |-> {{}, {"US"}},
     willing_to_relocate |-> BOOLEAN,
     visa_sponsorship_required |-> BOOLEAN,
     salary_expectation_min |-> {NoAmount, 3},
     salary_currency |-> {NoValue, "USD"}]
MCHomes == {<<"Dubai", "HQ">>, <<"HQ">>}
MCNamedIndustries == {"Banking"}
=============================================================================

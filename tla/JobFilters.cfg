SPECIFICATION Spec
CONSTANTS
    Countries <- MCCountries
    About <- MCAbout
    Whole <- MCWhole
    TypeTokens <- MCTypeTokens
    ModeTokens <- MCModeTokens
    Industries <- MCIndustries
    Jobs = {j1, j2}
    Texts <- MCTexts
    Homes <- MCHomes
    Raws <- MCRaws
    Preferences <- MCPreferences
    Taxonomies <- MCTaxonomies
    NamedIndustries <- MCNamedIndustries
    MaxEdits = 2
INVARIANTS
    TypeOK
    OnlyMismatchesReject
    WrittenCountryDecides
    StaleIndustriesWereReported
    WiderTrackNeverWorse
PROPERTY
    RicherJobNeverRejected

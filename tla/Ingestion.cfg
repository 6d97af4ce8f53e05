SPECIFICATION Spec
CONSTANTS
    Runs = {r1, r2}
    Postings <- MCPostings
    Urls <- MCUrls
    IdOf <- MCIdOf
    Malformed = {"bad"}
    Connectors <- MCConnectors
    MaxPages = 2
    MaxFaults = 2
    PageSize = 2
    MaxAttempts = 2
INVARIANTS
    TypeOK
    FinishedSourcesAreSaved
    CrawlReachesItsPages
PROPERTIES
    IngestionFillsJobTable

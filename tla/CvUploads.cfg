SPECIFICATION FairSpec
CONSTANTS
    Slots = {s1, s2}
    Kind <- MCKind
    CVs <- MCCVs
    MaxUploads = 2
    LLMRetries = 1
    MaxFaults = 2
    MaxAttempts = 2
INVARIANTS
    TypeOK
    StoredOnce
    CompletedIsSaved
PROPERTIES
    UploadsAreTrackedTasks
    UploadsEnd

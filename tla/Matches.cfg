SPECIFICATION Spec
CONSTANTS
    Jobs = {"j1", "j2"}
    FirstJobs = {"j1"}
    Passing <- MCPassing
    Runs = {r1, r2}
    Cleanups = {c1}
    Backfills = {b1}
    MaxRows = 2
    MaxFaults = 1
    PageSize = 2
    MaxAttempts = 2
INVARIANTS
    TypeOK
    HandledJobsAreMatched
PROPERTIES
    RationaleSurvives
    CleanupDeletesStaleOrUnseen
SYMMETRY RunSymmetry

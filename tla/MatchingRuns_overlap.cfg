\* A lost insert is not retried here: the race of two requests is enough.
SPECIFICATION Spec
CONSTANTS
    v1 = v1
    v2 = v2
    Invocations <- MCTwo
    MaxRuns = 2
    MaxJobs = 1
    ProgressEvery = 2
    MaxAttempts = 1
    MaxDuration = 1
    StaleAfter = 1
INVARIANTS
    AtMostOneRunning

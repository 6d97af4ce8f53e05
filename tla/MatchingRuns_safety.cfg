\* Liveness is checked in the same run, so the slots are not symmetric.
SPECIFICATION FairSpec
CONSTANTS
    v1 = v1
    v2 = v2
    Invocations <- MCTwo
    MaxRuns = 2
    MaxJobs = 2
    ProgressEvery = 2
    MaxAttempts = 2
    MaxDuration = 1
    StaleAfter = 1
INVARIANTS
    TypeOK
    LiveRunHoldsTheTrack
    CompletedRunsAreWhole
PROPERTIES
    AdmissionSeesNoLiveRun
    ReportedOutcomeIsFinal
    TrackIsFreed

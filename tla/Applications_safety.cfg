SPECIFICATION Spec
CONSTANTS
    w1 = w1
    w2 = w2
    Requests = {w1, w2}
    MaxDocs = 2
    MaxApps = 2
    MaxTime = 2
    UndoWindows = {1}
    PatchStatuses = {"queued", "ready_to_submit", "submitted"}
    MaxAttempts = 2
SYMMETRY RequestSymmetry
INVARIANTS
    TypeOK
    OneApplicationPerPair
    SubmittedIsDated
PROPERTIES
    LinksAreStable
    AdvancesOnlyExpired

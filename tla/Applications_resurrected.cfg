SPECIFICATION Spec
CONSTANTS
    w1 = w1
    w2 = w2
    Requests = {w1, w2}
    MaxDocs = 0
    MaxApps = 1
    MaxTime = 2
    UndoWindows = {0, 1}
    PatchStatuses = {"submitted", "withdrawn"}
    MaxAttempts = 1
PROPERTIES
    CancelledNeverAdvances

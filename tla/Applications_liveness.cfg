SPECIFICATION FairSpec
CONSTANTS
    w1 = w1
    w2 = w2
    Requests = {w1, w2}
    MaxDocs = 0
    MaxApps = 1
    MaxTime = 2
    UndoWindows = {1}
    PatchStatuses = {"queued", "submitted"}
    MaxAttempts = 1
PROPERTIES
    QueuedIsSettled

SPECIFICATION Spec
CONSTANTS
    w1 = w1
    w2 = w2
    Requests = {w1, w2}
    DocTypes = {"cv", "cover_letter"}
    MaxDocs = 4
    MaxApps = 1
    MaxAttempts = 2
SYMMETRY RequestSymmetry
INVARIANTS
    TypeOK
    VersionsHaveNoGaps

SPECIFICATION Spec
CONSTANTS
    u1 = u1
    u2 = u2
    w1 = w1
    w2 = w2
    Users = {u1, u2}
    Requests = {w1, w2}
    Roles = {"owner", "admin", "staff"}
    MaxMembers = 2
    MaxInvites = 1
    MaxAttempts = 1
SYMMETRY Symmetry
INVARIANTS
    OwnerRemains

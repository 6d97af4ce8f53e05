SPECIFICATION Spec
CONSTANTS
    u1 = u1
    u2 = u2
    w1 = w1
    w2 = w2
    Users = {u1, u2}
    Requests = {w1, w2}
    Roles = {"owner", "admin"}
    MaxMembers = 3
    MaxInvites = 2
    MaxAttempts = 1
SYMMETRY Symmetry
INVARIANTS
    TypeOK
    OneMembershipPerUser
    InviteUsedOnce
PROPERTIES
    RevokedInvitesSeatNobody
    LastOwnerLostOnlyToAStaleCount
    DeletionTakesOnlyLateJoiners

--------------------------- MODULE Organizations ---------------------------
(***************************************************************************)
(* The members and invites of one organization.                            *)
(*                                                                         *)
(* Removing a member, changing a role, inviting and revoking are REST      *)
(* calls of the routers: the caller's role is read when the request is     *)
(* authenticated, the target's role and the number of owners in later      *)
(* calls, and the write is a call of its own, which row-level security     *)
(* admits if the caller is an owner or admin by then.                      *)
(*                                                                         *)
(* Accepting an invite, leaving and deleting are SQL functions, each one   *)
(* transaction at the isolation level READ COMMITTED: every statement sees *)
(* what has been committed when it starts.  accept locks the invite, leave *)
(* the caller's own membership, delete nothing.  Such a transaction runs   *)
(* to its end on the server whatever happens to its client.                *)
(*                                                                         *)
(* A REST statement that waits for a row lock takes effect in one step,    *)
(* when the lock is free; its row-level security is evaluated then.        *)
(*                                                                         *)
(* Membership rows get a new id each time; rows that are gone are kept, so *)
(* that what an invite has led to can be told.                             *)
(***************************************************************************)
EXTENDS Naturals, Sequences, FiniteSets, DatabaseCalls

CONSTANTS
    Users,         \* accounts
    Requests,      \* slots in which requests of the users are served
    Roles,         \* member roles: "manager" and "staff" do the same here
    MaxMembers,    \* bound: membership rows ever created
    MaxInvites     \* bound: invites ever created

ASSUME OrganizationBounds ==
    /\ {"owner", "admin"} \subseteq Roles
    /\ Roles \subseteq {"owner", "admin", "manager", "staff"}
    /\ MaxMembers \in Nat \ {0} /\ MaxInvites \in Nat

VARIABLES
    exists,    \* the organization has not been deleted
    members,   \* organization_members, in insertion order
    invites,   \* organization_invites, in insertion order
    req        \* what each request is doing

vars == <<exists, members, invites, req>>

NoUser == "nobody"
Founding == 0    \* via: not through an invite
Gone == "gone"   \* role: the row has been deleted

Member == [user : Users, role : Roles \cup {Gone}, via : 0..MaxInvites]

\* 'expired' is missing: accept_organization_invite sets it and raises, which
\* takes it back.  late: expires_at has passed.
Invite == [user : Users, role : Roles \ {"owner"},
           status : {"pending", "accepted", "revoked"}, late : BOOLEAN]

\* REST: "target" before get_member_role, "count" before count_owners, "write"
\* before the last call.  SQL functions: "send" before the call, then accept is
\* at "lock" and, holding its invite, "join"; leave at "lock" and, holding its
\* membership, "owners" and "depart"; delete at "alone" and "erase".
Steps == {"idle", "target", "count", "write", "send", "lock", "join", "owners",
          "depart", "alone", "erase"}

Request == [pc : Steps,
            kind : {"none", "manage", "invite", "revoke", "accept", "leave",
                    "delete"},
            caller : Users \cup {NoUser},
            role : Roles \cup {"none"},     \* the caller's until "target";
                                 \* then the target's, as it was read
            target : 0..(MaxMembers + MaxInvites),  \* a membership or invite
            user : Users \cup {NoUser},     \* whom to invite
            new : Roles \cup {Gone, "none"},  \* the role to be given
            fresh : BOOLEAN,                \* accept: not expired at its start
            counted : SUBSET (1..MaxMembers),  \* history: the owners it has
                                 \* counted, or the members delete has seen
            tries : 0..MaxAttempts]

Idle == [pc |-> "idle", kind |-> "none", caller |-> NoUser, role |-> "none",
         target |-> 0, user |-> NoUser, new |-> "none", fresh |-> FALSE,
         counted |-> {}, tries |-> 0]

TypeOK ==
    /\ exists \in BOOLEAN
    /\ members \in Seq(Member) /\ Len(members) <= MaxMembers
    /\ invites \in Seq(Invite) /\ Len(invites) <= MaxInvites
    /\ req \in [Requests -> Request]

\* create_organization_with_owner has committed.
Init ==
    /\ exists = TRUE
    /\ \E u \in Users :
          members = <<[user |-> u, role |-> "owner", via |-> Founding]>>
    /\ invites = <<>>
    /\ req = [w \in Requests |-> Idle]

-----------------------------------------------------------------------------
(* The rows.                                                               *)

Present == {m \in DOMAIN members : members[m].role # Gone}
MembershipsOf(u) == {m \in Present : members[m].user = u}
Owners == {m \in Present : members[m].role = "owner"}

IsOrgMember(u) == MembershipsOf(u) # {}
IsOrgAdmin(u) ==
    \E m \in MembershipsOf(u) : members[m].role \in {"owner", "admin"}

\* Mutant: "for update" forgotten.
MutantInviteLocked(i) == FALSE

\* Row locks held by a transaction until it ends; writers of the row wait.
InviteLocked(i) ==
    \E w \in Requests : req[w].pc = "join" /\ req[w].target = i
MembershipLocked(m) ==
    \E w \in Requests :
        req[w].pc \in {"owners", "depart"} /\ req[w].target = m

\* Mutant: no unique constraint.
MutantSeatFree(u) == TRUE

\* unique (organization_id, user_id)
SeatFree(u) == MembershipsOf(u) = {}

LastOwner(owners) == Cardinality(owners) <= 1

-----------------------------------------------------------------------------
(* The requests.                                                           *)

Become(w, r) == req' = [req EXCEPT ![w] = r]

\* The request before its next call, having read the role of its target.
At(w, pc) == [req[w] EXCEPT !.pc = pc, !.role = members[req[w].target].role]

\* After an attempt of the last call of a request: it is made again, or the
\* request is answered.
AfterCall(w, outcome, again) ==
    Become(w, IF Retries(req[w].tries, outcome)
              THEN [req[w] EXCEPT !.pc = again, !.tries = @ + 1]
              ELSE Idle)

\* get_current_user and require_permission: a member who may do this kind of
\* thing.
Authenticated(u, role, roles) ==
    /\ role \in roles
    /\ \E m \in MembershipsOf(u) : members[m].role = role

Managers == {"owner", "admin"}   \* manage_members, manage_invites

ManageMember(w) ==
    /\ req[w].pc = "idle"
    /\ \E u \in Users, role \in Roles, m \in DOMAIN members :
          /\ Authenticated(u, role, Managers)
          /\ \E new \in Roles \cup {Gone} :
                Become(w, [Idle EXCEPT !.pc = "target", !.kind = "manage",
                              !.caller = u, !.role = role, !.target = m,
                              !.new = new])
    /\ UNCHANGED <<exists, members, invites>>

\* Mutant: an owner is demoted uncounted.
MutantNeedsCount(owner, new) == owner /\ new = Gone

\* What removing or demoting an owner needs: another one.
NeedsCount(owner, new) == owner /\ new # "owner"

\* get_member_role, and the permission that touching an owner needs.
ReadTarget(w) ==
    /\ req[w].pc = "target"
    /\ LET r == req[w]
           found == r.target \in Present /\ IsOrgMember(r.caller)
           owner == found /\ members[r.target].role = "owner"
       IN  Become(w, IF ~found \/ ((owner \/ r.new = "owner") /\ r.role # "owner")
                     THEN Idle
                     ELSE IF NeedsCount(owner, r.new) THEN At(w, "count")
                     ELSE At(w, "write"))
    /\ UNCHANGED <<exists, members, invites>>

\* count_owners: 409 for the last one.
CountOwners(w) ==
    /\ req[w].pc = "count"
    /\ Become(w, IF IsOrgMember(req[w].caller) /\ ~LastOwner(Owners)
                 THEN [req[w] EXCEPT !.pc = "write", !.counted = Owners]
                 ELSE Idle)
    /\ UNCHANGED <<exists, members, invites>>

\* remove_member (new is Gone) and update_member_role: by id alone, if row-level security
\* lets the caller.
WriteMember(w) ==
    /\ req[w].pc = "write" /\ req[w].kind = "manage"
    /\ ~MembershipLocked(req[w].target)
    /\ \E outcome \in Outcomes :
          /\ members' =
                IF /\ Committed(outcome)
                   /\ IsOrgAdmin(req[w].caller) /\ req[w].target \in Present
                THEN [members EXCEPT ![req[w].target].role = req[w].new]
                ELSE members
          /\ AfterCall(w, outcome, "write")
    /\ UNCHANGED <<exists, invites>>

-----------------------------------------------------------------------------
(* Invites.                                                                *)

StartInvite(w) ==
    /\ req[w].pc = "idle"
    /\ \E u \in Users, role \in Roles, user \in Users, new \in Roles \ {"owner"} :
          /\ Authenticated(u, role, Managers)
          /\ Become(w, [Idle EXCEPT !.pc = "write", !.kind = "invite",
                           !.caller = u, !.user = user, !.new = new])
    /\ UNCHANGED <<exists, members, invites>>

\* create_invite: made again, it is another invite.
CreateInvite(w) ==
    /\ req[w].pc = "write" /\ req[w].kind = "invite"
    /\ \E outcome \in Outcomes :
          /\ Committed(outcome) =>
                IsOrgAdmin(req[w].caller) /\ Len(invites) < MaxInvites
          /\ invites' = IF Committed(outcome)
                        THEN Append(invites, [user |-> req[w].user,
                                              role |-> req[w].new,
                                              status |-> "pending", late |-> FALSE])
                        ELSE invites
          /\ AfterCall(w, outcome, "write")
    /\ UNCHANGED <<exists, members>>

StartRevoke(w) ==
    /\ req[w].pc = "idle"
    /\ \E u \in Users, role \in Roles, i \in DOMAIN invites :
          /\ Authenticated(u, role, Managers)
          /\ Become(w, [Idle EXCEPT !.pc = "write", !.kind = "revoke",
                           !.caller = u, !.target = i])
    /\ UNCHANGED <<exists, members, invites>>

\* revoke_invite: whatever the invite says.
RevokeInvite(w) ==
    /\ req[w].pc = "write" /\ req[w].kind = "revoke"
    /\ ~InviteLocked(req[w].target)
    /\ \E outcome \in Outcomes :
          /\ invites' = IF Committed(outcome) /\ IsOrgAdmin(req[w].caller)
                        THEN [invites EXCEPT ![req[w].target].status = "revoked"]
                        ELSE invites
          /\ AfterCall(w, outcome, "write")
    /\ UNCHANGED <<exists, members>>

\* Somebody presents a token.
Accept(w) ==
    /\ req[w].pc = "idle"
    /\ \E u \in Users, i \in 0..MaxInvites :
          Become(w, [Idle EXCEPT !.pc = "send", !.kind = "accept",
                        !.caller = u, !.target = i])
    /\ UNCHANGED <<exists, members, invites>>

\* accept_organization_invite begins; now() is this moment.
BeginAccept(w) ==
    /\ req[w].pc = "send" /\ req[w].kind = "accept"
    /\ Become(w, [req[w] EXCEPT !.pc = "lock",
                     !.fresh = req[w].target \in DOMAIN invites
                               /\ ~invites[req[w].target].late])
    /\ UNCHANGED <<exists, members, invites>>

\* select ... for update, and the tests up to "already a member".
LockInvite(w) ==
    /\ req[w].pc = "lock" /\ req[w].kind = "accept"
    /\ ~InviteLocked(req[w].target)
    /\ LET i == req[w].target
       IN  Become(w, IF /\ exists /\ i \in DOMAIN invites
                        /\ invites[i].status = "pending" /\ req[w].fresh
                        /\ invites[i].user = req[w].caller
                        /\ ~IsOrgMember(req[w].caller)
                     THEN [req[w] EXCEPT !.pc = "join"]
                     ELSE Idle)
    /\ UNCHANGED <<exists, members, invites>>

\* The insert, the update of the invite, and the commit.
Join(w) ==
    /\ req[w].pc = "join"
    /\ \E outcome \in Outcomes \ {"request_lost"} :
          LET i == req[w].target
          IN  /\ IF Committed(outcome)
                 THEN /\ exists /\ SeatFree(req[w].caller)
                      /\ Len(members) < MaxMembers
                      /\ members' = Append(members,
                            [user |-> req[w].caller, role |-> invites[i].role,
                             via |-> i])
                      /\ invites' = [invites EXCEPT ![i].status = "accepted"]
                 ELSE UNCHANGED <<members, invites>>
              /\ AfterCall(w, outcome, "send")
    /\ UNCHANGED exists

\* expires_at passes.
Expire(i) ==
    /\ ~invites[i].late
    /\ invites' = [invites EXCEPT ![i].late = TRUE]
    /\ UNCHANGED <<exists, members, req>>

-----------------------------------------------------------------------------
(* Leaving and deleting.                                                   *)

\* leave_organization needs a membership, delete_organization an owner's.
StartFunction(w) ==
    /\ req[w].pc = "idle"
    /\ \E u \in Users, role \in Roles, kind \in {"leave", "delete"} :
          /\ Authenticated(u, role, IF kind = "leave" THEN Roles ELSE {"owner"})
          /\ Become(w, [Idle EXCEPT !.pc = "send", !.kind = kind, !.caller = u])
    /\ UNCHANGED <<exists, members, invites>>

\* An attempt of a function that does not reach the server.
LoseRequest(w) ==
    /\ req[w].pc = "send"
    /\ AfterCall(w, "request_lost", "send")
    /\ UNCHANGED <<exists, members, invites>>

\* select ... for update of the caller's own membership.
LockMembership(w) ==
    /\ req[w].pc = "send" /\ req[w].kind = "leave"
    /\ \/ \E m \in MembershipsOf(req[w].caller) :
             /\ ~MembershipLocked(m)
             /\ Become(w, [req[w] EXCEPT !.target = m, !.role = members[m].role,
                              !.pc = IF members[m].role = "owner" THEN "owners"
                                     ELSE "depart"])
       \/ ~IsOrgMember(req[w].caller) /\ Become(w, Idle)
    /\ UNCHANGED <<exists, members, invites>>

\* The last-owner guard of leave_organization.
CountOwnersToLeave(w) ==
    /\ req[w].pc = "owners"
    /\ Become(w, IF LastOwner(Owners) THEN Idle
                 ELSE [req[w] EXCEPT !.pc = "depart", !.counted = Owners])
    /\ UNCHANGED <<exists, members, invites>>

Depart(w) ==
    /\ req[w].pc = "depart"
    /\ \E outcome \in Outcomes \ {"request_lost"} :
          /\ members' = IF Committed(outcome)
                        THEN [members EXCEPT ![req[w].target].role = Gone]
                        ELSE members
          /\ AfterCall(w, outcome, "send")
    /\ UNCHANGED <<exists, invites>>

\* delete_organization: the caller's role is tested again.
CheckOwner(w) ==
    /\ req[w].pc = "send" /\ req[w].kind = "delete"
    /\ Become(w, IF \E m \in MembershipsOf(req[w].caller) :
                       members[m].role = "owner"
                 THEN [req[w] EXCEPT !.pc = "alone"] ELSE Idle)
    /\ UNCHANGED <<exists, members, invites>>

\* Mutant: only owners are looked for.
MutantAlone(u) == \A m \in Owners : members[m].user = u

Alone(u) == \A m \in Present : members[m].user = u

\* No other member; the other tests, for another organization of the caller
\* and for career data, may go either way.
CheckAlone(w) ==
    /\ req[w].pc = "alone"
    /\ \/ /\ Alone(req[w].caller)
          /\ Become(w, [req[w] EXCEPT !.pc = "erase", !.counted = Present])
       \/ Become(w, Idle)
    /\ UNCHANGED <<exists, members, invites>>

\* The delete cascades to members and invites, waiting for locks on them.
Erase(w) ==
    /\ req[w].pc = "erase"
    /\ \E outcome \in Outcomes \ {"request_lost"} :
          /\ IF Committed(outcome)
             THEN /\ \A m \in DOMAIN members : ~MembershipLocked(m)
                  /\ \A i \in DOMAIN invites : ~InviteLocked(i)
                  /\ exists' = FALSE
                  /\ members' = [m \in DOMAIN members |->
                                    [members[m] EXCEPT !.role = Gone]]
             ELSE UNCHANGED <<exists, members>>
          /\ AfterCall(w, outcome, "send")
    /\ UNCHANGED invites

-----------------------------------------------------------------------------
\* The platform kills a request between its calls.
Kill(w) ==
    /\ req[w].pc \in {"target", "count", "write", "send"}
    /\ Become(w, Idle)
    /\ UNCHANGED <<exists, members, invites>>

Managing(w) ==
    \/ ManageMember(w) \/ ReadTarget(w) \/ CountOwners(w) \/ WriteMember(w)
Inviting(w) ==
    \/ StartInvite(w) \/ CreateInvite(w) \/ StartRevoke(w) \/ RevokeInvite(w)
    \/ Accept(w) \/ BeginAccept(w) \/ LockInvite(w) \/ Join(w)
Ending(w) ==
    \/ StartFunction(w) \/ LoseRequest(w) \/ LockMembership(w)
    \/ CountOwnersToLeave(w) \/ Depart(w) \/ CheckOwner(w) \/ CheckAlone(w)
    \/ Erase(w)

Next ==
    \/ \E w \in Requests :
          Managing(w) \/ Inviting(w) \/ Ending(w) \/ Kill(w)
    \/ \E i \in DOMAIN invites : Expire(i)

Spec == Init /\ [][Next]_vars

-----------------------------------------------------------------------------
(* Safety.                                                                 *)

\* A user has one membership at a time, although two invites to the same
\* address may be accepted at once: both transactions find no membership.
OneMembershipPerUser ==
    \A m, n \in Present : members[m].user = members[n].user => m = n

\* An invite leads to one membership at most, also when it is accepted twice at
\* once, when the response is lost and the call repeated, and after the member
\* it led to was removed.
InviteUsedOnce ==
    \A m, n \in DOMAIN members :
        members[m].via = members[n].via /\ members[m].via # Founding => m = n

\* Nobody joins through an invite that has been revoked, even if it was still
\* pending when accepting it began, nor with another role than it gives.
RevokedInvitesSeatNobody ==
    [][\A m \in DOMAIN members' \ DOMAIN members :
          LET i == members'[m].via
          IN  /\ invites[i].status = "pending"
              /\ members'[m].role = invites[i].role]_members

\* "The org's last owner can never be removed", nor demoted, nor leave: as
\* long as the organization exists it has an owner.  True if requests are
\* served one at a time, false as soon as two overlap.
OwnerRemains == exists => Owners # {}

\* What does hold when requests overlap: a request that takes the last owner
\* away has either counted two owners or more, one of whom has since gone, or
\* read its target while that was no owner.  Nobody can take the last owner
\* away without having asked, and a request that runs alone leaves an owner,
\* whether it removes, demotes or leaves.
LastOwnerLostOnlyToAStaleCount ==
    [][\A w \in Requests :
          /\ req'[w] # req[w]
          /\ exists' /\ Owners # {} /\ Owners' = {}
          => \/ /\ Cardinality(req[w].counted) >= 2
                /\ ~(req[w].counted \subseteq Owners)
             \/ req[w].role \in Roles \ {"owner"}]_vars

\* delete_organization "refuses if the org has any other members": the only
\* ones it can take along are those who joined after its test, which no lock
\* keeps out.
DeletionTakesOnlyLateJoiners ==
    [][\A w \in Requests :
          /\ req'[w] # req[w]
          /\ exists /\ ~exists'
          => \A m \in Present :
                members[m].user = req[w].caller \/ m \notin req[w].counted]_vars

-----------------------------------------------------------------------------
(* The inductive invariant behind them.                                    *)

\* What a request does fits its kind.
FitsKind(r) ==
    /\ r.pc \in {"target", "count"} => r.kind = "manage"
    /\ r.pc \in {"lock", "join"} => r.kind = "accept"
    /\ r.pc \in {"owners", "depart"} => r.kind = "leave"
    /\ r.pc \in {"alone", "erase"} => r.kind = "delete"
    /\ r.kind = "manage" => r.new \in Roles \cup {Gone}
    /\ r.kind = "invite" => r.new \in Roles \ {"owner"} /\ r.user \in Users

\* A request that has read its target as an owner and is about to take the role
\* away.
TakesOwner(r) ==
    /\ r.role = "owner"
    /\ \/ r.pc = "write" /\ r.kind = "manage" /\ r.new # "owner"
       \/ r.pc = "depart"

\* What a request has decided upon may be stale, but it was never the last
\* owner, or a member other than the caller.
Decided(r) ==
    /\ \/ r.pc \in {"count", "owners", "depart"}
       \/ r.pc = "write" /\ r.kind = "manage"
       => r.role \in Roles
    /\ TakesOwner(r) => ~LastOwner(r.counted)
    /\ r.kind = "delete" =>
          \A m \in r.counted : m \in DOMAIN members /\ members[m].user = r.caller

\* The lock keeps the invite as it was tested.
HoldsInvite(r) ==
    r.pc = "join" => /\ r.target \in DOMAIN invites
                     /\ invites[r.target].status = "pending"
                     /\ invites[r.target].user = r.caller

Sound(r) == FitsKind(r) /\ Decided(r) /\ HoldsInvite(r)

\* One transaction at a time holds an invite.
LocksExclude ==
    \A v, w \in Requests :
        req[v].pc = "join" /\ req[w].pc = "join" /\ req[v].target = req[w].target
        => v = w

\* An invite somebody has joined through is never pending again.
InvitesAreSpent ==
    \A m \in DOMAIN members :
        members[m].via # Founding =>
            /\ members[m].via \in DOMAIN invites
            /\ invites[members[m].via].status # "pending"

IInv ==
    /\ TypeOK
    /\ OneMembershipPerUser
    /\ InviteUsedOnce
    /\ InvitesAreSpent
    /\ LocksExclude
    /\ \A w \in Requests : Sound(req[w])

\* What a request knows while it is the only one: the owners are those it has
\* counted, unless it takes none away.
CountIsFresh ==
    \A w \in Requests : LET r == req[w] IN
        /\ \/ r.pc = "write" /\ r.kind = "manage" /\ r.new # "owner"
           \/ r.pc = "depart"
        /\ r.target \in Owners
        => ~LastOwner(Owners)

AloneInv == IInv /\ OwnerRemains /\ CountIsFresh
=============================================================================

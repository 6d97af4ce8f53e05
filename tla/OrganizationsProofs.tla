------------------------ MODULE OrganizationsProofs ------------------------
(***************************************************************************)
(* Proofs about the members and invites of an organization, for any number *)
(* of users, requests, invites, membership rows and attempts.              *)
(*                                                                         *)
(* Most steps move one request and touch no row: OnlyRequest covers them.  *)
(* The four steps that write rows (WriteMember, Join, Depart, Erase and    *)
(* the writes to invites) are taken one conjunct of IInv at a time.        *)
(***************************************************************************)
EXTENDS Organizations, FiniteSetTheorems, SequenceTheorems, TLAPS

USE OrganizationBounds, AttemptsAssumption

-----------------------------------------------------------------------------
(* Typing.                                                                 *)

\* A slot without a request is typed.
LEMMA IdleType == Idle \in Request
  BY DEF Idle, Request, Steps, NoUser

\* Requests stay typed when one is started that manages a member,
LEMMA SetManage ==
  ASSUME NEW x \in Request, NEW pc \in Steps, NEW u \in Users,
         NEW role \in Roles, NEW m \in 0..(MaxMembers + MaxInvites),
         NEW new \in Roles \cup {Gone, "none"}
  PROVE  [x EXCEPT !.pc = pc, !.kind = "manage", !.caller = u, !.role = role,
                   !.target = m, !.new = new] \in Request
  BY DEF Request

\* ... one that invites,
LEMMA SetInvite ==
  ASSUME NEW x \in Request, NEW pc \in Steps, NEW u \in Users,
         NEW user \in Users, NEW new \in Roles \cup {Gone, "none"}
  PROVE  [x EXCEPT !.pc = pc, !.kind = "invite", !.caller = u, !.user = user,
                   !.new = new] \in Request
  BY DEF Request

\* ... one that revokes or accepts an invite,
LEMMA SetTarget ==
  ASSUME NEW x \in Request, NEW pc \in Steps, NEW u \in Users,
         NEW kind \in {"revoke", "accept"},
         NEW i \in 0..(MaxMembers + MaxInvites)
  PROVE  [x EXCEPT !.pc = pc, !.kind = kind, !.caller = u,
                   !.target = i] \in Request
  BY DEF Request

\* ... one that leaves or deletes.
LEMMA SetFunction ==
  ASSUME NEW x \in Request, NEW pc \in Steps, NEW u \in Users,
         NEW kind \in {"leave", "delete"}
  PROVE  [x EXCEPT !.pc = pc, !.kind = kind, !.caller = u] \in Request
  BY DEF Request

\* Requests stay typed when their control point is replaced, alone,
LEMMA SetPc ==
  ASSUME NEW x \in Request, NEW pc \in Steps
  PROVE  [x EXCEPT !.pc = pc] \in Request
  BY DEF Request

\* ... with the test of expires_at,
LEMMA SetFresh ==
  ASSUME NEW x \in Request, NEW pc \in Steps, NEW b \in BOOLEAN
  PROVE  [x EXCEPT !.pc = pc, !.fresh = b] \in Request
  BY DEF Request

\* ... with the membership that is locked,
LEMMA SetLocked ==
  ASSUME NEW x \in Request, NEW pc \in Steps, NEW role \in Roles,
         NEW m \in 0..(MaxMembers + MaxInvites)
  PROVE  [x EXCEPT !.target = m, !.role = role, !.pc = pc] \in Request
  BY DEF Request

\* ... with the owners that are counted,
LEMMA SetCounted ==
  ASSUME NEW x \in Request, NEW pc \in Steps, NEW S \in SUBSET (1..MaxMembers)
  PROVE  [x EXCEPT !.pc = pc, !.counted = S] \in Request
  BY DEF Request

\* ... with one more attempt.
LEMMA SetAgain ==
  ASSUME NEW x \in Request, NEW pc \in Steps, NEW outcome,
         Retries(x.tries, outcome)
  PROVE  [x EXCEPT !.pc = pc, !.tries = @ + 1] \in Request
<1>1. x.tries + 1 \in 0..MaxAttempts
  BY DEF Request, Retries
<1> QED BY <1>1 DEF Request

\* The request's next control point is typed.
LEMMA AtType ==
  ASSUME TypeOK, NEW w \in Requests, NEW pc \in Steps, req[w].target \in Present
  PROVE  At(w, pc) \in Request
<1>1. \A x \in Request, role \in Roles :
         [x EXCEPT !.pc = pc, !.role = role] \in Request
  BY DEF Request
<1>2. req[w] \in Request
  BY DEF TypeOK
<1>3. members[req[w].target] \in Member /\ members[req[w].target].role # Gone
  BY DEF TypeOK, Present
<1>4. members[req[w].target].role \in Roles
  BY <1>3 DEF Member
<1> QED BY <1>1, <1>2, <1>4 DEF At

\* The rows of a typed table.
LEMMA RowTypes ==
  ASSUME TypeOK
  PROVE  /\ \A m \in DOMAIN members : members[m] \in Member /\ m \in 1..MaxMembers
         /\ \A i \in DOMAIN invites : invites[i] \in Invite /\ i \in 1..MaxInvites
         /\ Present \subseteq 1..MaxMembers /\ Owners \subseteq 1..MaxMembers
         /\ Owners \subseteq Present /\ Present \subseteq DOMAIN members
<1>1. /\ \A m \in DOMAIN members : members[m] \in Member /\ m \in 1..MaxMembers
      /\ \A i \in DOMAIN invites : invites[i] \in Invite /\ i \in 1..MaxInvites
  BY DEF TypeOK
<1> QED BY <1>1 DEF Present, Owners

-----------------------------------------------------------------------------
(* Steps that only move a request.                                         *)

\* A slot without a request knows nothing.
LEMMA IdleSound == Sound(Idle)
  BY DEF Idle, Sound, FitsKind, Decided, TakesOwner, HoldsInvite

\* A request that repeats its call.
LEMMA AgainSound ==
  ASSUME NEW x \in Request, Sound(x), NEW pc \in {"write", "send"},
         pc = "write" => x.pc = "write"
  PROVE  /\ Sound([x EXCEPT !.pc = pc, !.tries = @ + 1])
         /\ [x EXCEPT !.pc = pc, !.tries = @ + 1].pc = pc
  BY DEF Request, Sound, FitsKind, Decided, TakesOwner, HoldsInvite

\* A step moves one request and no row, and if it locks an invite nobody else
\* holds it.
LEMMA OnlyRequest ==
  ASSUME IInv, NEW w \in Requests, NEW x \in Request, Become(w, x), Sound(x),
         UNCHANGED <<exists, members, invites>>,
         x.pc = "join" => \A v \in Requests :
                             ~(req[v].pc = "join" /\ req[v].target = x.target)
  PROVE  IInv'
<1> USE DEF IInv
<1>1. /\ req' \in [Requests -> Request] /\ req'[w] = x
      /\ \A v \in Requests : v # w => req'[v] = req[v]
  BY DEF Become, TypeOK
<1>2. TypeOK'
  BY <1>1 DEF TypeOK
<1>3. OneMembershipPerUser' /\ InviteUsedOnce' /\ InvitesAreSpent'
  BY DEF OneMembershipPerUser, InviteUsedOnce, InvitesAreSpent, Present
<1>4. LocksExclude'
  BY <1>1 DEF LocksExclude
<1>5. \A v \in Requests : Sound(req[v])'
  BY <1>1 DEF Sound, FitsKind, Decided, TakesOwner, HoldsInvite, LastOwner
<1> QED BY <1>2, <1>3, <1>4, <1>5

\* Where the last call of a request leaves it.
LEMMA Called ==
  ASSUME IInv, NEW w \in Requests, NEW outcome, NEW pc \in {"write", "send"},
         AfterCall(w, outcome, pc), pc = "write" => req[w].pc = "write"
  PROVE  /\ req' \in [Requests -> Request]
         /\ \A v \in Requests : v # w => req'[v] = req[v]
         /\ req'[w].pc \in {"idle", "write", "send"}
         /\ Sound(req'[w])
         /\ Become(w, req'[w])
         /\ \/ req'[w] = Idle
            \/ /\ req'[w].kind = req[w].kind /\ req'[w].target = req[w].target
               /\ req'[w].new = req[w].new /\ req'[w].pc = pc
<1> DEFINE again == [req[w] EXCEPT !.pc = pc, !.tries = @ + 1]
<1>1. req \in [Requests -> Request] /\ req[w] \in Request /\ Sound(req[w])
  BY DEF IInv, TypeOK
<1>2. CASE Retries(req[w].tries, outcome)
  <2>1. again \in Request
    BY <1>1, <1>2, SetAgain DEF Steps
  <2>2. Sound(again) /\ again.pc = pc
    BY <1>1, AgainSound
  <2>3. again.kind = req[w].kind /\ again.target = req[w].target /\ again.new = req[w].new
    BY <1>1 DEF Request
  <2>4. req' = [req EXCEPT ![w] = again]
    BY <1>2 DEF AfterCall, Become
  <2> HIDE DEF again
  <2>5. req'[w] = again
    BY <2>4, <1>1
  <2> QED BY <1>1, <2>1, <2>2, <2>3, <2>4, <2>5 DEF Become
<1>3. CASE ~Retries(req[w].tries, outcome)
  <2>1. req' = [req EXCEPT ![w] = Idle] /\ req'[w] = Idle
    BY <1>1, <1>3 DEF AfterCall, Become
  <2>2. Idle.pc = "idle"
    BY DEF Idle
  <2> QED BY <1>1, <2>1, <2>2, IdleType, IdleSound DEF Become
<1> QED BY <1>2, <1>3

\* A call that ends without having written anything.
LEMMA QuietCall ==
  ASSUME IInv, NEW w \in Requests, NEW outcome, NEW pc \in {"write", "send"},
         AfterCall(w, outcome, pc), pc = "write" => req[w].pc = "write",
         UNCHANGED <<exists, members, invites>>
  PROVE  IInv'
<1>1. /\ req' \in [Requests -> Request] /\ Sound(req'[w]) /\ Become(w, req'[w])
      /\ req'[w].pc \in {"idle", "write", "send"}
  <2>1. req' \in [Requests -> Request]
    BY Called
  <2>2. Sound(req'[w])
    BY Called
  <2>3. Become(w, req'[w])
    BY Called
  <2>4. req'[w].pc \in {"idle", "write", "send"}
    BY Called
  <2> QED BY <2>1, <2>2, <2>3, <2>4
<1>2. req'[w] \in Request /\ req'[w].pc # "join"
  BY <1>1
<1> QED BY <1>1, <1>2, OnlyRequest

\* What a request knows survives the writes of another: rows keep their user
\* and no invite is changed that somebody holds.
LEMMA KnowledgeSurvives ==
  ASSUME IInv, NEW w \in Requests, NEW outcome, NEW pc \in {"write", "send"},
         AfterCall(w, outcome, pc), pc = "write" => req[w].pc = "write",
         \A m \in DOMAIN members :
            m \in DOMAIN members' /\ members'[m].user = members[m].user,
         \A v \in Requests : v # w /\ req[v].pc = "join" =>
            LET i == req[v].target
            IN  /\ i \in DOMAIN invites'
                /\ invites'[i].status = invites[i].status
                /\ invites'[i].user = invites[i].user
  PROVE  LocksExclude' /\ \A v \in Requests : Sound(req[v])'
<1>1. /\ \A v \in Requests : v # w => req'[v] = req[v]
      /\ Sound(req'[w]) /\ req'[w].pc \in {"idle", "write", "send"}
  BY Called
<1>2. LocksExclude'
  BY <1>1 DEF LocksExclude, IInv
<1>3. ASSUME NEW v \in Requests
      PROVE  Sound(req[v])'
  <2>1. Sound(req'[v])
    BY <1>1 DEF IInv
  <2>2. FitsKind(req'[v]) /\ Decided(req'[v])
    BY <2>1 DEF Sound
  <2>3. FitsKind(req[v])'
    BY <2>2 DEF FitsKind
  <2>4. Decided(req[v])'
    BY <2>2 DEF Decided, TakesOwner, LastOwner
  <2>5. HoldsInvite(req[v])'
    BY <1>1, <2>1 DEF Sound, HoldsInvite
  <2> QED BY <2>3, <2>4, <2>5 DEF Sound
<1> QED BY <1>2, <1>3

-----------------------------------------------------------------------------
(* Managing members.                                                       *)

\* A request that starts touches nothing.
LEMMA ManageMemberIInv ==
  ASSUME IInv, NEW w \in Requests, ManageMember(w)
  PROVE  IInv'
<1>1. PICK u \in Users, role \in Roles, m \in DOMAIN members,
           new \in Roles \cup {Gone} :
        Become(w, [Idle EXCEPT !.pc = "target", !.kind = "manage", !.caller = u,
                      !.role = role, !.target = m, !.new = new])
  BY DEF ManageMember
<1> DEFINE x == [Idle EXCEPT !.pc = "target", !.kind = "manage", !.caller = u,
                      !.role = role, !.target = m, !.new = new]
<1>2. m \in 0..(MaxMembers + MaxInvites) /\ "target" \in Steps
  BY RowTypes DEF IInv, Steps
<1>3. x \in Request
  BY <1>2, IdleType, SetManage
<1>4. Sound(x) /\ x.pc # "join"
  BY DEF Idle, Sound, FitsKind, Decided, TakesOwner, HoldsInvite
<1> HIDE DEF x
<1> QED BY <1>1, <1>3, <1>4, OnlyRequest DEF ManageMember, x

\* The next control point keeps what a request knows.
LEMMA AtSound ==
  ASSUME IInv, NEW w \in Requests, req[w].kind = "manage",
         NEW pc \in {"count", "write"}, req[w].target \in Present,
         pc = "write" =>
            members[req[w].target].role # "owner" \/ req[w].new = "owner"
  PROVE  /\ At(w, pc) \in Request /\ Sound(At(w, pc)) /\ At(w, pc).pc = pc
         /\ At(w, pc).kind = "manage" /\ At(w, pc).new = req[w].new
         /\ At(w, pc).target = req[w].target
<1>1. pc \in Steps
  BY DEF Steps
<1>2. At(w, pc) \in Request
  BY <1>1, AtType DEF IInv
<1>3. req[w] \in Request /\ Sound(req[w])
  BY DEF IInv, TypeOK
<1>4. members[req[w].target] \in Member /\ members[req[w].target].role # Gone
  BY DEF IInv, TypeOK, Present
<1>5. members[req[w].target].role \in Roles
  BY <1>4 DEF Member
<1> QED BY <1>2, <1>3, <1>5 DEF At, Request, Sound, FitsKind, Decided, TakesOwner, HoldsInvite

\* Reading the target's role only moves the request.
LEMMA ReadTargetIInv ==
  ASSUME IInv, NEW w \in Requests, ReadTarget(w)
  PROVE  IInv'
<1>1. req[w].kind = "manage"
  BY DEF ReadTarget, IInv, Sound, FitsKind
<1>2. \/ Become(w, Idle)
      \/ req[w].target \in Present /\ Become(w, At(w, "count"))
      \/ /\ req[w].target \in Present /\ Become(w, At(w, "write"))
         /\ members[req[w].target].role # "owner" \/ req[w].new = "owner"
  BY DEF ReadTarget, NeedsCount
<1>3. UNCHANGED <<exists, members, invites>>
  BY DEF ReadTarget
<1>4. Idle.pc # "join"
  BY DEF Idle
<1> QED BY <1>1, <1>2, <1>3, <1>4, IdleType, IdleSound, AtSound, OnlyRequest

\* The owners are counted only when there is more than one.
LEMMA CountOwnersIInv ==
  ASSUME IInv, NEW w \in Requests, CountOwners(w)
  PROVE  IInv'
<1>1. req[w].kind = "manage"
  BY DEF CountOwners, IInv, Sound, FitsKind
<1>2. CASE Become(w, Idle)
  BY <1>2, IdleType, IdleSound, OnlyRequest DEF CountOwners, Idle
<1>3. CASE /\ ~LastOwner(Owners)
           /\ Become(w, [req[w] EXCEPT !.pc = "write", !.counted = Owners])
  <2> DEFINE x == [req[w] EXCEPT !.pc = "write", !.counted = Owners]
  <2>1. /\ req[w] \in Request /\ Sound(req[w]) /\ req[w].pc = "count"
        /\ Owners \in SUBSET (1..MaxMembers) /\ "write" \in Steps
    BY RowTypes DEF IInv, TypeOK, CountOwners, Steps
  <2>2. x \in Request
    BY <2>1, SetCounted
  <2>3. Sound(x) /\ x.pc # "join"
    BY <1>1, <1>3, <2>1
       DEF Sound, FitsKind, Decided, TakesOwner, HoldsInvite, Request
  <2> HIDE DEF x
  <2> QED BY <1>3, <2>2, <2>3, OnlyRequest DEF CountOwners, x
<1> QED BY <1>2, <1>3 DEF CountOwners

\* A call that changes roles, or removes members, and nothing else.
LEMMA RolesChange ==
  ASSUME IInv, NEW w \in Requests, NEW outcome, NEW pc \in {"write", "send"},
         AfterCall(w, outcome, pc), pc = "write" => req[w].pc = "write",
         exists' \in BOOLEAN, UNCHANGED invites,
         members' \in Seq(Member), DOMAIN members' = DOMAIN members,
         Len(members') = Len(members),
         \A m \in DOMAIN members :
            /\ members'[m].user = members[m].user
            /\ members'[m].via = members[m].via
            /\ members'[m].role # Gone => members[m].role # Gone
  PROVE  IInv'
<1>1. LocksExclude' /\ \A v \in Requests : Sound(req[v])'
  <2>1. \A v \in Requests : v # w /\ req[v].pc = "join" => req[v].target \in DOMAIN invites
    BY DEF IInv, Sound, HoldsInvite
  <2> QED BY <2>1, KnowledgeSurvives
<1>2. TypeOK'
  BY Called DEF IInv, TypeOK
<1>3. Present' \subseteq Present
  BY DEF Present
<1>4. OneMembershipPerUser'
  BY <1>3 DEF OneMembershipPerUser, IInv, Present
<1>5. InviteUsedOnce' /\ InvitesAreSpent'
  BY DEF IInv, InviteUsedOnce, InvitesAreSpent
<1> QED BY <1>1, <1>2, <1>4, <1>5 DEF IInv

\* A function over the indices of a sequence is one of the same length.
LEMMA SameLength ==
  ASSUME NEW S, NEW s \in Seq(S), NEW t \in [DOMAIN s -> S]
  PROVE  t \in Seq(S) /\ Len(t) = Len(s)
<1>1. Len(s) \in Nat /\ DOMAIN s = 1..Len(s)
  BY LenProperties
<1>2. t \in Seq(S)
  BY <1>1, SeqDef
<1>3. Len(t) \in Nat /\ 1..Len(t) = 1..Len(s)
  BY <1>1, <1>2, LenProperties
<1> QED BY <1>1, <1>2, <1>3

\* A row whose role is replaced.
LEMMA RoleWritten ==
  ASSUME IInv, NEW m, NEW new \in Roles \cup {Gone},
         members' = [members EXCEPT ![m].role = new]
  PROVE  /\ members' \in Seq(Member) /\ DOMAIN members' = DOMAIN members
         /\ Len(members') = Len(members)
         /\ \A n \in DOMAIN members :
               /\ members'[n].user = members[n].user
               /\ members'[n].via = members[n].via
               /\ members'[n].role = IF n = m THEN new ELSE members[n].role
<1>1. members \in Seq(Member)
  BY DEF IInv, TypeOK
<1>2. \A n \in DOMAIN members : members[n] \in Member
  BY <1>1
<1>3. ASSUME NEW n \in DOMAIN members
      PROVE  /\ members'[n] \in Member
             /\ members'[n].user = members[n].user
             /\ members'[n].via = members[n].via
             /\ members'[n].role = IF n = m THEN new ELSE members[n].role
  BY <1>2 DEF Member
<1>4. members' \in Seq(Member) /\ DOMAIN members' = DOMAIN members
      /\ Len(members') = Len(members)
  <2>1. members' \in [DOMAIN members -> Member]
    BY <1>3
  <2> QED BY <1>1, <2>1, SameLength
<1> QED BY <1>3, <1>4

\* The member written to is there, so nobody comes back.
LEMMA WriteMemberIInv ==
  ASSUME IInv, NEW w \in Requests, WriteMember(w)
  PROVE  IInv'
<1>1. PICK outcome \in Outcomes :
        /\ members' = IF /\ Committed(outcome)
                         /\ IsOrgAdmin(req[w].caller) /\ req[w].target \in Present
                      THEN [members EXCEPT ![req[w].target].role = req[w].new]
                      ELSE members
        /\ AfterCall(w, outcome, "write")
  BY DEF WriteMember
<1>2. CASE members' = members
  BY <1>1, <1>2, QuietCall DEF WriteMember
<1>3. CASE /\ req[w].target \in Present
           /\ members' = [members EXCEPT ![req[w].target].role = req[w].new]
  <2>1. req[w].new \in Roles \cup {Gone}
    BY DEF WriteMember, IInv, Sound, FitsKind
  <2>2. members[req[w].target].role # Gone
    BY <1>3 DEF Present
  <2> DEFINE m == req[w].target
             new == req[w].new
  <2>3. exists' \in BOOLEAN /\ UNCHANGED invites
    BY DEF WriteMember, IInv, TypeOK
  <2>4. /\ members' \in Seq(Member) /\ DOMAIN members' = DOMAIN members
        /\ Len(members') = Len(members)
        /\ \A n \in DOMAIN members :
              /\ members'[n].user = members[n].user
              /\ members'[n].via = members[n].via
              /\ members'[n].role = IF n = m THEN new ELSE members[n].role
    <3>1. new \in Roles \cup {Gone} /\ members' = [members EXCEPT ![m].role = new]
      BY <1>3, <2>1
    <3> HIDE DEF m, new
    <3> QED BY <3>1, RoleWritten
  <2>5. \A n \in DOMAIN members : members'[n].role # Gone => members[n].role # Gone
    BY <2>2, <2>4
  <2>6. req[w].pc = "write"
    BY DEF WriteMember
  <2> QED BY <1>1, <2>3, <2>4, <2>5, <2>6, RolesChange
<1> QED BY <1>1, <1>2, <1>3

-----------------------------------------------------------------------------
(* Invites.                                                                *)

\* A request that starts touches nothing.
LEMMA StartInviteIInv ==
  ASSUME IInv, NEW w \in Requests, StartInvite(w)
  PROVE  IInv'
<1>1. PICK u \in Users, user \in Users, new \in Roles \ {"owner"} :
        Become(w, [Idle EXCEPT !.pc = "write", !.kind = "invite", !.caller = u,
                      !.user = user, !.new = new])
  BY DEF StartInvite
<1> DEFINE x == [Idle EXCEPT !.pc = "write", !.kind = "invite", !.caller = u,
                      !.user = user, !.new = new]
<1>2. x \in Request
  BY IdleType, SetInvite DEF Steps
<1>3. Sound(x) /\ x.pc # "join"
  BY DEF Idle, Sound, FitsKind, Decided, TakesOwner, HoldsInvite
<1> HIDE DEF x
<1> QED BY <1>1, <1>2, <1>3, OnlyRequest DEF StartInvite, x

\* A request that starts touches nothing.
LEMMA StartRevokeIInv ==
  ASSUME IInv, NEW w \in Requests, StartRevoke(w)
  PROVE  IInv'
<1>1. PICK u \in Users, i \in DOMAIN invites :
        Become(w, [Idle EXCEPT !.pc = "write", !.kind = "revoke", !.caller = u,
                      !.target = i])
  BY DEF StartRevoke
<1> DEFINE x == [Idle EXCEPT !.pc = "write", !.kind = "revoke", !.caller = u,
                      !.target = i]
<1>2. i \in 0..(MaxMembers + MaxInvites) /\ "write" \in Steps
  BY RowTypes DEF IInv, Steps
<1>3. x \in Request
  BY <1>2, IdleType, SetTarget
<1>4. Sound(x) /\ x.pc # "join"
  BY DEF Idle, Sound, FitsKind, Decided, TakesOwner, HoldsInvite
<1> HIDE DEF x
<1> QED BY <1>1, <1>3, <1>4, OnlyRequest DEF StartRevoke, x

\* A request that starts touches nothing.
LEMMA AcceptIInv ==
  ASSUME IInv, NEW w \in Requests, Accept(w)
  PROVE  IInv'
<1>1. PICK u \in Users, i \in 0..MaxInvites :
        Become(w, [Idle EXCEPT !.pc = "send", !.kind = "accept", !.caller = u,
                      !.target = i])
  BY DEF Accept
<1> DEFINE x == [Idle EXCEPT !.pc = "send", !.kind = "accept", !.caller = u,
                      !.target = i]
<1>2. i \in 0..(MaxMembers + MaxInvites) /\ "send" \in Steps
  BY DEF Steps
<1>3. x \in Request
  BY <1>2, IdleType, SetTarget
<1>4. Sound(x) /\ x.pc # "join"
  BY DEF Idle, Sound, FitsKind, Decided, TakesOwner, HoldsInvite
<1> HIDE DEF x
<1> QED BY <1>1, <1>3, <1>4, OnlyRequest DEF Accept, x

\* The function begins; it holds nothing yet.
LEMMA BeginAcceptIInv ==
  ASSUME IInv, NEW w \in Requests, BeginAccept(w)
  PROVE  IInv'
<1> DEFINE fresh == req[w].target \in DOMAIN invites /\ ~invites[req[w].target].late
           x == [req[w] EXCEPT !.pc = "lock", !.fresh = fresh]
<1>1. req[w] \in Request /\ Sound(req[w]) /\ req[w].kind = "accept"
  BY DEF IInv, TypeOK, BeginAccept
<1>2. "lock" \in Steps /\ fresh \in BOOLEAN
  BY DEF Steps
<1>3. x \in Request
  <2> HIDE DEF fresh
  <2> QED BY <1>1, <1>2, SetFresh
<1>4. Sound(x) /\ x.pc # "join"
  <2> HIDE DEF fresh
  <2> QED BY <1>1 DEF Sound, FitsKind, Decided, TakesOwner, HoldsInvite, Request
<1>5. Become(w, x) /\ UNCHANGED <<exists, members, invites>>
  BY DEF BeginAccept
<1> HIDE DEF x
<1> QED BY <1>3, <1>4, <1>5, OnlyRequest

\* The invite is locked while nobody else holds it, and is as it was tested.
LEMMA LockInviteIInv ==
  ASSUME IInv, NEW w \in Requests, LockInvite(w)
  PROVE  IInv'
<1>1. CASE Become(w, Idle)
  BY <1>1, IdleType, IdleSound, OnlyRequest DEF LockInvite, Idle
<1>2. CASE /\ req[w].target \in DOMAIN invites
           /\ invites[req[w].target].status = "pending"
           /\ invites[req[w].target].user = req[w].caller
           /\ Become(w, [req[w] EXCEPT !.pc = "join"])
  <2> DEFINE x == [req[w] EXCEPT !.pc = "join"]
  <2>1. req[w] \in Request /\ Sound(req[w]) /\ req[w].kind = "accept"
    BY DEF IInv, TypeOK, LockInvite
  <2>2. x \in Request
    BY <2>1, SetPc DEF Steps
  <2>3. x.target = req[w].target
    BY <2>1 DEF Request
  <2>4. Sound(x)
    BY <1>2, <2>1 DEF Sound, FitsKind, Decided, TakesOwner, HoldsInvite, Request
  <2>5. \A v \in Requests : ~(req[v].pc = "join" /\ req[v].target = x.target)
    BY <2>3 DEF LockInvite, InviteLocked
  <2>6. Become(w, x) /\ UNCHANGED <<exists, members, invites>>
    BY <1>2 DEF LockInvite
  <2> HIDE DEF x
  <2> QED BY <2>2, <2>4, <2>5, <2>6, OnlyRequest
<1> QED BY <1>1, <1>2 DEF LockInvite

\* A call that adds invites, or revokes some that nobody holds.
LEMMA InvitesChange ==
  ASSUME IInv, NEW w \in Requests, req[w].pc # "join", NEW outcome,
         NEW pc \in {"write", "send"}, AfterCall(w, outcome, pc),
         pc = "write" => req[w].pc = "write",
         UNCHANGED <<exists, members>>,
         invites' \in Seq(Invite), Len(invites') <= MaxInvites,
         \A i \in DOMAIN invites :
            /\ i \in DOMAIN invites'
            /\ invites'[i].user = invites[i].user
            /\ \/ invites'[i].status = invites[i].status
               \/ invites'[i].status = "revoked" /\ ~InviteLocked(i)
  PROVE  IInv'
<1>1. LocksExclude' /\ \A v \in Requests : Sound(req[v])'
  <2>1. ASSUME NEW v \in Requests, req[v].pc = "join"
        PROVE  LET i == req[v].target
               IN  /\ i \in DOMAIN invites'
                   /\ invites'[i].status = invites[i].status
                   /\ invites'[i].user = invites[i].user
    <3>1. req[v].target \in DOMAIN invites
      BY <2>1 DEF IInv, Sound, HoldsInvite
    <3> QED BY <2>1, <3>1 DEF InviteLocked
  <2> QED BY <2>1, KnowledgeSurvives
<1>2. TypeOK'
  BY Called DEF IInv, TypeOK
<1>3. OneMembershipPerUser' /\ InviteUsedOnce' /\ InvitesAreSpent'
  BY DEF IInv, OneMembershipPerUser, InviteUsedOnce, InvitesAreSpent, Present
<1> QED BY <1>1, <1>2, <1>3 DEF IInv

\* A new invite gives nobody a seat.
LEMMA CreateInviteIInv ==
  ASSUME IInv, NEW w \in Requests, CreateInvite(w)
  PROVE  IInv'
<1> DEFINE invite == [user |-> req[w].user, role |-> req[w].new,
                      status |-> "pending", late |-> FALSE]
<1>1. PICK outcome \in Outcomes :
        /\ Committed(outcome) => Len(invites) < MaxInvites
        /\ invites' = IF Committed(outcome) THEN Append(invites, invite) ELSE invites
        /\ AfterCall(w, outcome, "write")
  BY DEF CreateInvite
<1>2. CASE ~Committed(outcome)
  BY <1>1, <1>2, QuietCall DEF CreateInvite
<1>3. CASE Committed(outcome)
  <2>1. invite \in Invite
    BY DEF CreateInvite, IInv, Sound, FitsKind, Invite
  <2>2. invites \in Seq(Invite)
    BY DEF IInv, TypeOK
  <2> HIDE DEF invite
  <2>3. /\ invites' \in Seq(Invite) /\ Len(invites') <= MaxInvites
        /\ \A i \in DOMAIN invites : i \in DOMAIN invites' /\ invites'[i] = invites[i]
    BY <1>1, <1>3, <2>1, <2>2
  <2> QED BY <1>1, <2>3, InvitesChange DEF CreateInvite
<1> QED BY <1>2, <1>3

\* An invite whose status is replaced.
LEMMA StatusWritten ==
  ASSUME IInv, NEW i, NEW status \in {"accepted", "revoked"},
         invites' = [invites EXCEPT ![i].status = status]
  PROVE  /\ invites' \in Seq(Invite) /\ Len(invites') = Len(invites)
         /\ DOMAIN invites' = DOMAIN invites
         /\ \A k \in DOMAIN invites :
               /\ invites'[k].user = invites[k].user
               /\ invites'[k].status = IF k = i THEN status ELSE invites[k].status
<1>1. invites \in Seq(Invite)
  BY DEF IInv, TypeOK
<1>2. \A k \in DOMAIN invites : invites[k] \in Invite
  BY <1>1
<1>3. ASSUME NEW k \in DOMAIN invites
      PROVE  /\ invites'[k] \in Invite
             /\ invites'[k].user = invites[k].user
             /\ invites'[k].status = IF k = i THEN status ELSE invites[k].status
  BY <1>2 DEF Invite
<1>4. invites' \in [DOMAIN invites -> Invite]
  BY <1>3
<1> QED BY <1>1, <1>3, <1>4, SameLength

\* A revocation waits for whoever holds the invite.
LEMMA RevokeInviteIInv ==
  ASSUME IInv, NEW w \in Requests, RevokeInvite(w)
  PROVE  IInv'
<1>1. PICK outcome \in Outcomes :
        /\ invites' = IF Committed(outcome) /\ IsOrgAdmin(req[w].caller)
                      THEN [invites EXCEPT ![req[w].target].status = "revoked"]
                      ELSE invites
        /\ AfterCall(w, outcome, "write")
  BY DEF RevokeInvite
<1>2. CASE invites' = invites
  BY <1>1, <1>2, QuietCall DEF RevokeInvite
<1>3. CASE invites' = [invites EXCEPT ![req[w].target].status = "revoked"]
  <2>1. Len(invites) <= MaxInvites
    BY DEF IInv, TypeOK
  <2>2. /\ invites' \in Seq(Invite) /\ Len(invites') <= MaxInvites
        /\ \A i \in DOMAIN invites :
              /\ i \in DOMAIN invites'
              /\ invites'[i].user = invites[i].user
              /\ \/ invites'[i].status = invites[i].status
                 \/ invites'[i].status = "revoked" /\ ~InviteLocked(i)
    BY <1>3, <2>1, StatusWritten DEF RevokeInvite
  <2> QED BY <1>1, <2>2, InvitesChange DEF RevokeInvite
<1> QED BY <1>1, <1>2, <1>3

\* Time makes an invite late and changes nothing a request relies on.
LEMMA ExpireIInv ==
  ASSUME IInv, NEW i \in DOMAIN invites, Expire(i)
  PROVE  IInv'
<1>1. invites \in Seq(Invite) /\ \A k \in DOMAIN invites : invites[k] \in Invite
  BY RowTypes DEF IInv, TypeOK
<1>2. ASSUME NEW k \in DOMAIN invites
      PROVE  /\ invites'[k] \in Invite
             /\ invites'[k].user = invites[k].user
             /\ invites'[k].status = invites[k].status
  BY <1>1 DEF Expire, Invite
<1>3. invites' \in [DOMAIN invites -> Invite]
  BY <1>2 DEF Expire
<1>4. /\ invites' \in Seq(Invite) /\ Len(invites') = Len(invites)
      /\ DOMAIN invites' = DOMAIN invites
  BY <1>1, <1>3, SameLength
<1>5. TypeOK'
  BY <1>4 DEF IInv, TypeOK, Expire
<1>6. OneMembershipPerUser' /\ InviteUsedOnce' /\ InvitesAreSpent' /\ LocksExclude'
  BY <1>2, <1>4 DEF IInv, OneMembershipPerUser, InviteUsedOnce, InvitesAreSpent,
                    LocksExclude, Present, Expire
<1>7. ASSUME NEW w \in Requests
      PROVE  Sound(req[w])'
  BY <1>2, <1>4 DEF IInv, Sound, FitsKind, Decided, TakesOwner, HoldsInvite, LastOwner, Expire
<1> QED BY <1>5, <1>6, <1>7 DEF IInv

\* Somebody joins: a member who has no seat, through an invite nobody has
\* joined through before.
LEMMA JoinIInv ==
  ASSUME IInv, NEW w \in Requests, Join(w)
  PROVE  IInv'
<1> DEFINE i == req[w].target
           row == [user |-> req[w].caller, role |-> invites[i].role, via |-> i]
<1>1. PICK outcome \in Outcomes \ {"request_lost"} :
        /\ IF Committed(outcome)
           THEN /\ exists /\ SeatFree(req[w].caller) /\ Len(members) < MaxMembers
                /\ members' = Append(members, row)
                /\ invites' = [invites EXCEPT ![i].status = "accepted"]
           ELSE UNCHANGED <<members, invites>>
        /\ AfterCall(w, outcome, "send")
  BY DEF Join
<1>2. CASE ~Committed(outcome)
  BY <1>1, <1>2, QuietCall DEF Join
<1>3. CASE Committed(outcome)
  <2>1. /\ members \in Seq(Member) /\ Len(members) \in Nat
        /\ DOMAIN members = 1..Len(members)
        /\ \A k \in DOMAIN invites : invites[k] \in Invite /\ k \in 1..MaxInvites
        /\ \A m \in DOMAIN members : members[m] \in Member
    BY RowTypes DEF IInv, TypeOK
  <2>2. /\ i \in DOMAIN invites /\ invites[i].status = "pending"
        /\ invites[i].user = req[w].caller
    BY DEF Join, IInv, Sound, HoldsInvite
  <2>3. row \in Member
    BY <2>1, <2>2 DEF Member, Invite
  <2>4. /\ invites' \in Seq(Invite) /\ Len(invites') = Len(invites)
        /\ DOMAIN invites' = DOMAIN invites
        /\ \A k \in DOMAIN invites :
              /\ invites'[k].user = invites[k].user
              /\ invites'[k].status = IF k = i THEN "accepted" ELSE invites[k].status
    BY <1>1, <1>3, StatusWritten
  <2>5. row.user = req[w].caller /\ row.via = i
    OBVIOUS
  <2> DEFINE n == Len(members) + 1
  <2> HIDE DEF row
  <2>6. /\ members' \in Seq(Member) /\ Len(members') = n
        /\ DOMAIN members' = 1..n /\ n \notin DOMAIN members
        /\ members'[n] = row
        /\ \A m \in DOMAIN members : m \in DOMAIN members' /\ members'[m] = members[m]
        /\ \A m \in DOMAIN members' : m = n \/ m \in DOMAIN members
    <3>1. members' = Append(members, row)
      BY <1>1, <1>3
    <3>2. /\ members' \in Seq(Member) /\ Len(members') = n
          /\ \A m \in 1..Len(members) : members'[m] = members[m]
          /\ members'[n] = row
      BY <2>1, <2>3, <3>1, AppendProperties
    <3>3. DOMAIN members' = 1..n
      BY <3>2, LenProperties
    <3> QED BY <2>1, <3>2, <3>3
  <2>7. TypeOK'
    <3>1. Len(members') <= MaxMembers /\ Len(invites') <= MaxInvites
      BY <1>1, <1>3, <2>1, <2>4, <2>6 DEF IInv, TypeOK
    <3>2. req' \in [Requests -> Request]
      BY <1>1, Called
    <3> QED BY <2>4, <2>6, <3>1, <3>2 DEF TypeOK, IInv, Join
  <2>8. LocksExclude' /\ \A v \in Requests : Sound(req[v])'
    <3>1. ASSUME NEW v \in Requests, v # w, req[v].pc = "join"
          PROVE  req[v].target \in DOMAIN invites /\ req[v].target # i
      BY <3>1 DEF IInv, LocksExclude, Join, Sound, HoldsInvite
    <3>2. \A v \in Requests : v # w /\ req[v].pc = "join" =>
             LET k == req[v].target
             IN  /\ k \in DOMAIN invites'
                 /\ invites'[k].status = invites[k].status
                 /\ invites'[k].user = invites[k].user
      BY <2>4, <3>1
    <3>3. \A m \in DOMAIN members :
             m \in DOMAIN members' /\ members'[m].user = members[m].user
      BY <2>6
    <3>4. AfterCall(w, outcome, "send")
      BY <1>1
    <3> QED BY <3>2, <3>3, <3>4, KnowledgeSurvives
  <2>9. OneMembershipPerUser'
    <3>1. \A m \in Present' : m = n \/ m \in Present
      BY <2>6 DEF Present
    <3>2. \A m \in Present : members[m].user # req[w].caller
      BY <1>1, <1>3 DEF SeatFree, MembershipsOf
    <3> QED BY <2>5, <2>6, <3>1, <3>2 DEF OneMembershipPerUser, IInv, Present
  <2>10. InvitesAreSpent'
    BY <2>2, <2>4, <2>5, <2>6 DEF InvitesAreSpent, IInv
  <2>11. InviteUsedOnce'
    <3>1. \A m \in DOMAIN members : members[m].via # Founding => members[m].via # i
      BY <2>2 DEF InvitesAreSpent, IInv
    <3> QED BY <2>5, <2>6, <3>1 DEF InviteUsedOnce, IInv
  <2> QED BY <2>7, <2>8, <2>9, <2>10, <2>11 DEF IInv
<1> QED BY <1>2, <1>3

-----------------------------------------------------------------------------
(* Leaving and deleting.                                                   *)

\* A request that starts touches nothing.
LEMMA StartFunctionIInv ==
  ASSUME IInv, NEW w \in Requests, StartFunction(w)
  PROVE  IInv'
<1>1. PICK u \in Users, kind \in {"leave", "delete"} :
        Become(w, [Idle EXCEPT !.pc = "send", !.kind = kind, !.caller = u])
  BY DEF StartFunction
<1> DEFINE x == [Idle EXCEPT !.pc = "send", !.kind = kind, !.caller = u]
<1>2. "send" \in Steps
  BY DEF Steps
<1>3. x \in Request
  BY <1>2, IdleType, SetFunction
<1>4. Sound(x) /\ x.pc # "join"
  BY DEF Idle, Sound, FitsKind, Decided, TakesOwner, HoldsInvite
<1> HIDE DEF x
<1> QED BY <1>1, <1>3, <1>4, OnlyRequest DEF StartFunction, x

\* The next control point of a function keeps what it knows.
LEMMA PcSound ==
  ASSUME IInv, NEW w \in Requests, NEW pc \in {"alone", "erase"},
         req[w].kind = "delete"
  PROVE  /\ [req[w] EXCEPT !.pc = pc] \in Request
         /\ Sound([req[w] EXCEPT !.pc = pc])
         /\ [req[w] EXCEPT !.pc = pc].pc = pc
<1>1. req[w] \in Request /\ Sound(req[w]) /\ pc \in Steps
  BY DEF IInv, TypeOK, Steps
<1>2. [req[w] EXCEPT !.pc = pc] \in Request
  BY <1>1, SetPc
<1> QED BY <1>1, <1>2 DEF Sound, FitsKind, Decided, TakesOwner, HoldsInvite, Request

\* The caller's membership is locked.
LEMMA LockMembershipIInv ==
  ASSUME IInv, NEW w \in Requests, LockMembership(w)
  PROVE  IInv'
<1>1. CASE Become(w, Idle)
  BY <1>1, IdleType, IdleSound, OnlyRequest DEF LockMembership, Idle
<1>2. ASSUME NEW m \in MembershipsOf(req[w].caller), NEW pc \in {"owners", "depart"},
             pc = "depart" => members[m].role # "owner",
             Become(w, [req[w] EXCEPT !.target = m, !.role = members[m].role,
                                      !.pc = pc])
      PROVE  IInv'
  <2> DEFINE x == [req[w] EXCEPT !.target = m, !.role = members[m].role, !.pc = pc]
  <2>0. m \in 1..MaxMembers
    BY RowTypes DEF IInv, MembershipsOf
  <2>1. m \in 0..(MaxMembers + MaxInvites)
    BY <2>0
  <2>2. pc \in Steps
    BY DEF Steps
  <2>3. req[w] \in Request /\ Sound(req[w]) /\ req[w].kind = "leave"
    BY DEF IInv, TypeOK, LockMembership
  <2>6. members[m] \in Member /\ members[m].role # Gone
    BY RowTypes DEF IInv, MembershipsOf, Present
  <2>7. members[m].role \in Roles
    BY <2>6 DEF Member
  <2>4. x \in Request
    BY <2>1, <2>2, <2>3, <2>7, SetLocked
  <2>8. /\ x.pc = pc /\ x.kind = "leave" /\ x.role = members[m].role
        /\ x.counted = req[w].counted /\ x.new = req[w].new
    BY <2>3 DEF Request
  <2> HIDE DEF x
  <2>9. FitsKind(x) /\ HoldsInvite(x) /\ x.pc # "join"
    BY <2>8 DEF FitsKind, HoldsInvite
  <2>10. Decided(x)
    BY <1>2, <2>7, <2>8 DEF Decided, TakesOwner
  <2>5. Sound(x) /\ x.pc # "join"
    BY <2>9, <2>10 DEF Sound
  <2> QED BY <1>2, <2>4, <2>5, OnlyRequest DEF LockMembership, x
<1> QED BY <1>1, <1>2 DEF LockMembership

\* The owners are counted only when there is more than one.
LEMMA CountOwnersToLeaveIInv ==
  ASSUME IInv, NEW w \in Requests, CountOwnersToLeave(w)
  PROVE  IInv'
<1>1. CASE Become(w, Idle)
  BY <1>1, IdleType, IdleSound, OnlyRequest DEF CountOwnersToLeave, Idle
<1>2. CASE /\ ~LastOwner(Owners)
           /\ Become(w, [req[w] EXCEPT !.pc = "depart", !.counted = Owners])
  <2> DEFINE x == [req[w] EXCEPT !.pc = "depart", !.counted = Owners]
  <2>1. /\ req[w] \in Request /\ Sound(req[w]) /\ req[w].kind = "leave"
        /\ req[w].pc = "owners"
        /\ Owners \in SUBSET (1..MaxMembers) /\ "depart" \in Steps
    BY RowTypes DEF IInv, TypeOK, CountOwnersToLeave, Sound, FitsKind, Steps
  <2>2. x \in Request
    BY <2>1, SetCounted
  <2>3. Sound(x) /\ x.pc # "join"
    BY <1>2, <2>1 DEF Sound, FitsKind, Decided, TakesOwner, HoldsInvite, Request
  <2> HIDE DEF x
  <2> QED BY <1>2, <2>2, <2>3, OnlyRequest DEF CountOwnersToLeave, x
<1> QED BY <1>1, <1>2 DEF CountOwnersToLeave

\* A member leaves.
LEMMA DepartIInv ==
  ASSUME IInv, NEW w \in Requests, Depart(w)
  PROVE  IInv'
<1>1. PICK outcome \in Outcomes \ {"request_lost"} :
        /\ members' = IF Committed(outcome)
                      THEN [members EXCEPT ![req[w].target].role = Gone]
                      ELSE members
        /\ AfterCall(w, outcome, "send")
  BY DEF Depart
<1>2. CASE members' = members
  BY <1>1, <1>2, QuietCall DEF Depart
<1>3. CASE members' = [members EXCEPT ![req[w].target].role = Gone]
  <2>1. exists' \in BOOLEAN /\ UNCHANGED invites
    BY DEF Depart, IInv, TypeOK
  <2> DEFINE m == req[w].target
  <2>2. Gone \in Roles \cup {Gone}
    OBVIOUS
  <2>3. /\ members' \in Seq(Member) /\ DOMAIN members' = DOMAIN members
        /\ Len(members') = Len(members)
        /\ \A n \in DOMAIN members :
              /\ members'[n].user = members[n].user
              /\ members'[n].via = members[n].via
              /\ members'[n].role = IF n = m THEN Gone ELSE members[n].role
    <3>1. members' = [members EXCEPT ![m].role = Gone]
      BY <1>3
    <3> HIDE DEF m
    <3> QED BY <2>2, <3>1, RoleWritten
  <2> QED BY <1>1, <2>1, <2>3, RolesChange
<1> QED BY <1>1, <1>2, <1>3

\* The caller's role is read again.
LEMMA CheckOwnerIInv ==
  ASSUME IInv, NEW w \in Requests, CheckOwner(w)
  PROVE  IInv'
<1>1. CASE Become(w, Idle)
  BY <1>1, IdleType, IdleSound, OnlyRequest DEF CheckOwner, Idle
<1>2. CASE Become(w, [req[w] EXCEPT !.pc = "alone"])
  BY <1>2, PcSound, OnlyRequest DEF CheckOwner
<1> QED BY <1>1, <1>2 DEF CheckOwner

\* The members are seen only when the caller is the only one.
LEMMA CheckAloneIInv ==
  ASSUME IInv, NEW w \in Requests, CheckAlone(w)
  PROVE  IInv'
<1>1. CASE Become(w, Idle)
  BY <1>1, IdleType, IdleSound, OnlyRequest DEF CheckAlone, Idle
<1>2. CASE /\ Alone(req[w].caller)
           /\ Become(w, [req[w] EXCEPT !.pc = "erase", !.counted = Present])
  <2> DEFINE x == [req[w] EXCEPT !.pc = "erase", !.counted = Present]
  <2>1. /\ req[w] \in Request /\ Sound(req[w]) /\ req[w].kind = "delete"
        /\ Present \in SUBSET (1..MaxMembers) /\ "erase" \in Steps
    BY RowTypes DEF IInv, TypeOK, CheckAlone, Sound, FitsKind, Steps
  <2>2. x \in Request
    BY <2>1, SetCounted
  <2>3. /\ x.pc = "erase" /\ x.kind = "delete" /\ x.counted = Present
        /\ x.caller = req[w].caller
    BY <2>1 DEF Request
  <2>4. Sound(x)
    BY <1>2, <2>3, RowTypes DEF IInv, Sound, FitsKind, Decided, TakesOwner, HoldsInvite, Alone
  <2> HIDE DEF x
  <2> QED BY <1>2, <2>2, <2>3, <2>4, OnlyRequest DEF CheckAlone, x
<1> QED BY <1>1, <1>2 DEF CheckAlone

\* The organization goes with its members.
LEMMA EraseIInv ==
  ASSUME IInv, NEW w \in Requests, Erase(w)
  PROVE  IInv'
<1>1. PICK outcome \in Outcomes \ {"request_lost"} :
        /\ IF Committed(outcome)
           THEN /\ exists' = FALSE
                /\ members' = [m \in DOMAIN members |->
                                  [members[m] EXCEPT !.role = Gone]]
           ELSE UNCHANGED <<exists, members>>
        /\ AfterCall(w, outcome, "send")
  BY DEF Erase
<1>2. CASE ~Committed(outcome)
  BY <1>1, <1>2, QuietCall DEF Erase
<1>3. CASE Committed(outcome)
  <2>1. members \in Seq(Member) /\ \A m \in DOMAIN members : members[m] \in Member
    BY RowTypes DEF IInv, TypeOK
  <2>2. ASSUME NEW m \in DOMAIN members
        PROVE  /\ members'[m] \in Member /\ members'[m].role = Gone
               /\ members'[m].user = members[m].user
               /\ members'[m].via = members[m].via
    BY <1>1, <1>3, <2>1 DEF Member
  <2>3. members' \in [DOMAIN members -> Member]
    BY <1>1, <1>3, <2>2
  <2>4. /\ members' \in Seq(Member) /\ DOMAIN members' = DOMAIN members
        /\ Len(members') = Len(members)
    BY <2>1, <2>3, SameLength
  <2> QED BY <1>1, <1>3, <2>2, <2>4, RolesChange DEF Erase
<1> QED BY <1>2, <1>3

\* A lost request or a kill leaves the rows as they are.
LEMMA LostIInv ==
  ASSUME IInv, NEW w \in Requests, LoseRequest(w) \/ Kill(w)
  PROVE  IInv'
<1>1. CASE LoseRequest(w)
  BY <1>1, QuietCall DEF LoseRequest
<1>2. CASE Kill(w)
  BY <1>2, IdleType, IdleSound, OnlyRequest DEF Kill, Idle
<1> QED BY <1>1, <1>2

-----------------------------------------------------------------------------
(* The theorems.                                                           *)

\* The founder is the only member and nobody is doing anything.
LEMMA InitIInv == Init => IInv
<1> SUFFICES ASSUME Init PROVE IInv
  OBVIOUS
<1>1. PICK u \in Users : members = <<[user |-> u, role |-> "owner", via |-> Founding]>>
  BY DEF Init
<1>2. [user |-> u, role |-> "owner", via |-> Founding] \in Member
  BY DEF Member, Founding
<1>3. /\ members \in Seq(Member) /\ Len(members) = 1 /\ DOMAIN members = {1}
      /\ members[1].via = Founding
  BY <1>1, <1>2
<1>4. TypeOK
  BY <1>3, IdleType DEF Init, TypeOK
<1>5. OneMembershipPerUser /\ InviteUsedOnce /\ InvitesAreSpent
  BY <1>3 DEF OneMembershipPerUser, InviteUsedOnce, InvitesAreSpent, Present
<1>6. LocksExclude /\ \A w \in Requests : Sound(req[w])
  BY IdleSound DEF Init, LocksExclude, Idle
<1> QED BY <1>4, <1>5, <1>6 DEF IInv

\* Every step keeps the invariant.
LEMMA NextIInv == IInv /\ [Next]_vars => IInv'
<1> SUFFICES ASSUME IInv, [Next]_vars PROVE IInv'
  OBVIOUS
<1>1. ASSUME NEW w \in Requests, Managing(w)
      PROVE  IInv'
  BY <1>1, ManageMemberIInv, ReadTargetIInv, CountOwnersIInv, WriteMemberIInv
     DEF Managing
<1>2. ASSUME NEW w \in Requests, Inviting(w)
      PROVE  IInv'
  BY <1>2, StartInviteIInv, CreateInviteIInv, StartRevokeIInv, RevokeInviteIInv,
     AcceptIInv, BeginAcceptIInv, LockInviteIInv, JoinIInv DEF Inviting
<1>3. ASSUME NEW w \in Requests, Ending(w)
      PROVE  IInv'
  BY <1>3, StartFunctionIInv, LostIInv, LockMembershipIInv, CountOwnersToLeaveIInv,
     DepartIInv, CheckOwnerIInv, CheckAloneIInv, EraseIInv DEF Ending
<1>4. ASSUME NEW i \in DOMAIN invites, Expire(i)
      PROVE  IInv'
  BY <1>4, ExpireIInv
<1>5. CASE UNCHANGED vars
  <2>1. TypeOK' /\ OneMembershipPerUser' /\ InviteUsedOnce' /\ InvitesAreSpent'
    BY <1>5 DEF vars, IInv, TypeOK, OneMembershipPerUser, InviteUsedOnce,
                InvitesAreSpent, Present
  <2>2. LocksExclude' /\ \A w \in Requests : Sound(req[w])'
    BY <1>5 DEF vars, IInv, LocksExclude, Sound, FitsKind, Decided, TakesOwner, HoldsInvite, LastOwner
  <2> QED BY <2>1, <2>2 DEF IInv
<1> QED BY <1>1, <1>2, <1>3, <1>4, <1>5, LostIInv DEF Next

\* The invariant holds throughout.
LEMMA Inductive == Spec => []IInv
  BY InitIInv, NextIInv, PTL DEF Spec

\* The tables and the requests keep their types.
THEOREM TypeCorrect == Spec => []TypeOK
  BY Inductive, PTL DEF IInv

\* A user has one membership at a time, for any number of invites accepted at
\* once.
THEOREM OneMembership == Spec => []OneMembershipPerUser
  BY Inductive, PTL DEF IInv

\* An invite leads to one membership, for any number of clients, attempts and
\* removals.
THEOREM InvitesAreUsedOnce == Spec => []InviteUsedOnce
  BY Inductive, PTL DEF IInv

\* Steps that are not a write to members leave their number as it is.
LEMMA JoinsOnly ==
  ASSUME IInv, NEW w \in Requests, Managing(w) \/ Ending(w) \/ Kill(w)
  PROVE  DOMAIN members' = DOMAIN members
<1>1. CASE Managing(w)
  BY <1>1 DEF Managing, ManageMember, ReadTarget, CountOwners, WriteMember
<1>2. CASE Ending(w) \/ Kill(w)
  BY <1>2 DEF Ending, StartFunction, LoseRequest, LockMembership,
              CountOwnersToLeave, Depart, CheckOwner, CheckAlone, Erase, Kill
<1> QED BY <1>1, <1>2

\* The only new member rows are those of Join, whose invite is pending.
LEMMA StepSeatsInvited ==
  ASSUME IInv, [Next]_vars, NEW m \in DOMAIN members' \ DOMAIN members
  PROVE  /\ invites[members'[m].via].status = "pending"
         /\ members'[m].role = invites[members'[m].via].role
<1>1. PICK w \in Requests : Join(w)
  <2>1. ASSUME NEW w \in Requests, Inviting(w), ~Join(w)
        PROVE  members' = members
    BY <2>1 DEF Inviting, StartInvite, CreateInvite, StartRevoke, RevokeInvite,
                Accept, BeginAccept, LockInvite
  <2>2. ASSUME NEW w \in Requests, Inviting(w) PROVE Join(w)
    BY <2>1, <2>2
  <2>3. ~UNCHANGED vars /\ \A i \in DOMAIN invites : ~Expire(i)
    BY DEF vars, Expire
  <2> QED BY <2>2, <2>3, JoinsOnly DEF Next
<1> DEFINE i == req[w].target
<1>2. members' = Append(members, [user |-> req[w].caller,
                                  role |-> invites[i].role, via |-> i])
  BY <1>1 DEF Join
<1>3. members \in Seq(Member)
  BY DEF IInv, TypeOK
<1>4. m = Len(members) + 1
  BY <1>2, <1>3
<1>5. members'[m] = [user |-> req[w].caller, role |-> invites[i].role, via |-> i]
  BY <1>2, <1>3, <1>4
<1>6. invites[i].status = "pending"
  BY <1>1 DEF Join, IInv, Sound, HoldsInvite
<1> QED BY <1>5, <1>6

\* Nobody joins through a revoked invite or with another role than it gives.
THEOREM RevokedInvitesAreDead == Spec => RevokedInvitesSeatNobody
<1>1. IInv /\ [Next]_vars =>
        [\A m \in DOMAIN members' \ DOMAIN members :
            LET i == members'[m].via
            IN  /\ invites[i].status = "pending"
                /\ members'[m].role = invites[i].role]_members
  BY StepSeatsInvited
<1> QED BY <1>1, Inductive, PTL DEF Spec, RevokedInvitesSeatNobody

\* A row that is not the only owner's leaves an owner when it is taken away.
LEMMA OneOwnerLeft ==
  ASSUME NEW m, ~LastOwner(Owners)
  PROVE  Owners # {m} /\ Owners # {}
  BY FS_Singleton, FS_EmptySet DEF LastOwner

\* More than one owner counted are two at least, and no one member is all.
LEMMA SeveralCounted ==
  ASSUME NEW S \in SUBSET (1..MaxMembers), ~LastOwner(S)
  PROVE  Cardinality(S) >= 2 /\ \A m : ~(S \subseteq {m})
<1>1. IsFiniteSet(S)
  <2>1. IsFiniteSet(1..MaxMembers)
    BY FS_Interval, OrganizationBounds
  <2> QED BY <2>1, FS_Subset
<1>2. Cardinality(S) \in Nat
  BY <1>1, FS_CardinalityType
<1>3. Cardinality(S) >= 2
  BY <1>2 DEF LastOwner
<1>4. ASSUME NEW m, S \subseteq {m} PROVE FALSE
  <2>1. S = {} \/ S = {m}
    BY <1>4
  <2>2. Cardinality({}) = 0 /\ Cardinality({m}) = 1
    BY FS_EmptySet, FS_Singleton
  <2>3. CASE S = {}
    BY <1>3, <2>2, <2>3
  <2>4. CASE S = {m}
    BY <1>3, <2>2, <2>4
  <2> QED BY <2>1, <2>3, <2>4
<1> QED BY <1>3, <1>4

\* Who takes the last owner away has counted others, or read no owner.
LEMMA StepKeepsCountedOwners ==
  ASSUME IInv, [Next]_vars, NEW w \in Requests, req'[w] # req[w],
         exists', Owners # {}, Owners' = {}
  PROVE  \/ /\ Cardinality(req[w].counted) >= 2
            /\ ~(req[w].counted \subseteq Owners)
         \/ req[w].role \in Roles \ {"owner"}
<1>1. members \in Seq(Member)
  BY DEF IInv, TypeOK
<1>2. ~UNCHANGED members
  BY DEF Owners, Present
<1>3. PICK v \in Requests : WriteMember(v) \/ Depart(v) \/ Join(v) \/ Erase(v)
  BY <1>2 DEF Next, vars, Managing, Inviting, Ending, ManageMember, ReadTarget,
     CountOwners, StartInvite, CreateInvite, StartRevoke, RevokeInvite, Accept,
     BeginAccept, LockInvite, Expire, StartFunction, LoseRequest, LockMembership,
     CountOwnersToLeave, CheckOwner, CheckAlone, Kill
<1>4. v = w
  BY <1>3 DEF WriteMember, Depart, Join, Erase, AfterCall, Become, IInv, TypeOK
<1>5. CASE Join(w)
  <2>1. PICK x : members' = Append(members, x)
    BY <1>2, <1>5 DEF Join
  <2>2. \A m \in DOMAIN members : m \in DOMAIN members' /\ members'[m] = members[m]
    BY <1>1, <2>1
  <2> QED BY <2>2 DEF Owners, Present
<1>6. ~Erase(w)
  BY <1>2 DEF Erase
<1>7. CASE WriteMember(w) \/ Depart(w)
  <2> DEFINE m == req[w].target
  <2>1. PICK new : members' = [members EXCEPT ![m].role = new]
    BY <1>2, <1>7 DEF WriteMember, Depart
  <2>2. Owners = {m}
    BY <1>1, <2>1 DEF Owners, Present, Member
  <2>3. req[w] \in Request /\ Decided(req[w])
    BY DEF IInv, TypeOK, Sound
  <2>4. /\ req[w].role \in Roles
        /\ WriteMember(w) => req[w].pc = "write" /\ req[w].kind = "manage"
        /\ Depart(w) => req[w].pc = "depart"
    BY <1>7, <2>3 DEF WriteMember, Depart, Decided
  <2>5. CASE req[w].role # "owner"
    BY <2>4, <2>5
  <2>6. CASE req[w].role = "owner"
    <3>1. WriteMember(w) => req[w].new # "owner"
      <4>1. SUFFICES ASSUME WriteMember(w), req[w].new = "owner" PROVE FALSE
        OBVIOUS
      <4>2. /\ m \in DOMAIN members
            /\ members' = [members EXCEPT ![m].role = "owner"]
        BY <1>2, <2>2, <4>1 DEF WriteMember, Owners, Present
      <4> HIDE DEF m
      <4>3. members[m] \in Member /\ DOMAIN members' = DOMAIN members
        BY <1>1, <4>2
      <4>4. members'[m] = [members[m] EXCEPT !.role = "owner"]
        BY <1>1, <4>2
      <4>5. m \in DOMAIN members' /\ members'[m].role = "owner"
        BY <4>2, <4>3, <4>4 DEF Member
      <4> QED BY <4>5 DEF Owners, Present, Gone
    <3>2. ~LastOwner(req[w].counted)
      BY <1>7, <2>3, <2>4, <2>6, <3>1 DEF Decided, TakesOwner
    <3>3. req[w].counted \in SUBSET (1..MaxMembers)
      BY <2>3 DEF Request
    <3> QED BY <2>2, <3>2, <3>3, SeveralCounted
  <2> QED BY <2>5, <2>6
<1> QED BY <1>3, <1>4, <1>5, <1>6, <1>7

\* Who takes the last owner away has counted two owners at least, of whom one
\* has gone since, or has read a role that others have changed since: nobody
\* gets there without having asked, and an answer that is up to date prevents
\* it.
THEOREM OnlyStaleCountsLoseTheLastOwner == Spec => LastOwnerLostOnlyToAStaleCount
<1>1. IInv /\ [Next]_vars =>
        [\A w \in Requests :
            /\ req'[w] # req[w]
            /\ exists' /\ Owners # {} /\ Owners' = {}
            => \/ /\ Cardinality(req[w].counted) >= 2
                  /\ ~(req[w].counted \subseteq Owners)
               \/ req[w].role \in Roles \ {"owner"}]_vars
  BY StepKeepsCountedOwners
<1> QED BY <1>1, Inductive, PTL DEF Spec, LastOwnerLostOnlyToAStaleCount

\* Only Erase deletes the organization, and the members it has seen are the
\* caller.
LEMMA StepDeletesOwn ==
  ASSUME IInv, [Next]_vars, NEW w \in Requests, req'[w] # req[w],
         exists, ~exists', NEW m \in Present, m \in req[w].counted
  PROVE  members[m].user = req[w].caller
<1>1. PICK v \in Requests : Erase(v)
  BY DEF Next, vars, Managing, Inviting, Ending, ManageMember, ReadTarget,
     CountOwners, WriteMember, StartInvite, CreateInvite, StartRevoke,
     RevokeInvite, Accept, BeginAccept, LockInvite, Join, Expire, StartFunction,
     LoseRequest, LockMembership, CountOwnersToLeave, Depart, CheckOwner,
     CheckAlone, Kill
<1>2. v = w
  BY <1>1 DEF Erase, AfterCall, Become, IInv, TypeOK
<1>3. req[w].kind = "delete"
  BY <1>1, <1>2 DEF Erase, IInv, Sound, FitsKind
<1> QED BY <1>3 DEF IInv, Sound, Decided

\* Deleting the organization takes no member along whom the test has seen, for
\* any number of requests: only those who joined after it.
THEOREM DeletionTakesNobodySeen == Spec => DeletionTakesOnlyLateJoiners
<1>1. IInv /\ [Next]_vars =>
        [\A w \in Requests :
            /\ req'[w] # req[w]
            /\ exists /\ ~exists'
            => \A m \in Present :
                  members[m].user = req[w].caller \/ m \notin req[w].counted]_vars
  BY StepDeletesOwn
<1> QED BY <1>1, Inductive, PTL DEF Spec, DeletionTakesOnlyLateJoiners

-----------------------------------------------------------------------------
(* Requests that are served one at a time.                                 *)

\* A step with fresh counts leaves an owner, whatever else is in progress.
LEMMA StepLeavesOwner ==
  ASSUME AloneInv, [Next]_vars
  PROVE  OwnerRemains'
<1> SUFFICES ASSUME exists' PROVE Owners' # {}
  BY DEF OwnerRemains
<1> USE DEF AloneInv
<1>1. members \in Seq(Member)
  BY DEF IInv, TypeOK
<1>2. CASE UNCHANGED <<exists, members>>
  BY <1>2 DEF OwnerRemains, Owners, Present
<1>3. ASSUME NEW w \in Requests, WriteMember(w) \/ Depart(w), ~UNCHANGED members
      PROVE  exists' = exists /\ Owners' # {}
  <2> DEFINE m == req[w].target
  <2>1. PICK new : /\ members' = [members EXCEPT ![m].role = new]
                   /\ \/ new = req[w].new /\ WriteMember(w)
                      \/ new = Gone /\ Depart(w)
    BY <1>3 DEF WriteMember, Depart
  <2>2. exists' = exists
    BY <1>3 DEF WriteMember, Depart
  <2>3. PICK n \in Owners : TRUE
    BY <2>2 DEF OwnerRemains
  <2>4. /\ DOMAIN members' = DOMAIN members
        /\ \A k \in DOMAIN members : k # m => members'[k] = members[k]
        /\ m \in DOMAIN members => members'[m].role = new
    BY <1>1, <2>1 DEF Member
  <2>5. CASE n # m
    <3>1. n \in Owners'
      BY <2>3, <2>4, <2>5 DEF Owners, Present
    <3> QED BY <2>2, <3>1
  <2>6. CASE n = m /\ new = "owner"
    <3>1. m \in Owners'
      BY <2>3, <2>4, <2>6 DEF Owners, Present, Gone
    <3> QED BY <2>2, <3>1
  <2>7. CASE n = m /\ new # "owner"
    <3>1. ~LastOwner(Owners)
      BY <2>1, <2>3, <2>7 DEF CountIsFresh, WriteMember, Depart
    <3>2. PICK k \in Owners : k # m
      BY <2>3, <3>1, OneOwnerLeft
    <3>3. k \in Owners'
      BY <2>4, <3>2 DEF Owners, Present
    <3> QED BY <2>2, <3>3
  <2> QED BY <2>5, <2>6, <2>7
<1>4. ASSUME NEW w \in Requests, Join(w)
      PROVE  exists' = exists /\ Owners \subseteq Owners'
  <2>1. members' = members \/ \E x : members' = Append(members, x)
    BY <1>4 DEF Join
  <2>2. \A m \in DOMAIN members : m \in DOMAIN members' /\ members'[m] = members[m]
    BY <1>1, <2>1
  <2> QED BY <1>4, <2>2 DEF Owners, Present, Join
<1>5. ASSUME NEW w \in Requests, Erase(w)
      PROVE  UNCHANGED <<exists, members>>
  BY <1>5 DEF Erase
<1>6. CASE ~UNCHANGED <<exists, members>>
  <2>1. PICK w \in Requests : WriteMember(w) \/ Depart(w) \/ Join(w) \/ Erase(w)
    BY <1>6 DEF Next, vars, Managing, Inviting, Ending, ManageMember, ReadTarget,
       CountOwners, StartInvite, CreateInvite, StartRevoke, RevokeInvite, Accept,
       BeginAccept, LockInvite, Expire, StartFunction, LoseRequest, LockMembership,
       CountOwnersToLeave, CheckOwner, CheckAlone, Kill
  <2>2. CASE WriteMember(w) \/ Depart(w)
    <3>1. ~UNCHANGED members
      BY <1>6, <2>2 DEF WriteMember, Depart
    <3> QED BY <1>3, <2>2, <3>1
  <2>3. CASE Join(w)
    BY <1>4, <2>3 DEF OwnerRemains
  <2>4. CASE Erase(w)
    BY <1>5, <1>6, <2>4
  <2> QED BY <2>1, <2>2, <2>3, <2>4
<1> QED BY <1>2, <1>6

\* A request that is nowhere near its write, or not about to take an owner
\* away, has nothing to be fresh.
Harmless(r) ==
    ~(r.pc = "write" /\ r.kind = "manage") /\ r.pc # "depart"

\* Where a step leaves the request it serves: harmless, or with a target that
\* is no owner, or after a count.
LEMMA StepCountsAfresh ==
  ASSUME AloneInv, NEW w \in Requests,
         Managing(w) \/ Inviting(w) \/ Ending(w) \/ Kill(w),
         ~Harmless(req'[w]), req'[w].pc = "write" => req'[w].new # "owner",
         req'[w].target \in Owners'
  PROVE  ~LastOwner(Owners')
<1> USE DEF AloneInv
<1>1. req \in [Requests -> Request] /\ req[w] \in Request /\ Sound(req[w])
  BY DEF IInv, TypeOK
<1>2. ASSUME NEW x, Become(w, x)
      PROVE  req'[w] = x
  BY <1>1, <1>2 DEF Become
<1>3. Harmless(Idle)
  BY DEF Idle, Harmless
<1>4. CASE ReadTarget(w)
  <2>3. req[w].kind = "manage"
    BY <1>1, <1>4 DEF ReadTarget, Sound, FitsKind
  <2>4. ASSUME req[w].target \in Present, Become(w, At(w, "count"))
        PROVE  Harmless(req'[w])
    BY <1>2, <2>3, <2>4, AtSound DEF Harmless
  <2>1. /\ req[w].target \in Owners => req[w].new = "owner"
        /\ req[w].target \in Present /\ Become(w, At(w, "write"))
    BY <1>2, <1>3, <1>4, <2>4 DEF ReadTarget, NeedsCount, Owners
  <2>5. members[req[w].target].role # "owner" \/ req[w].new = "owner"
    BY <2>1 DEF Owners
  <2>2. /\ req'[w].pc = "write" /\ req'[w].target = req[w].target
        /\ req'[w].new = req[w].new
    BY <1>2, <2>1, <2>3, <2>5, AtSound
  <2> QED BY <1>4, <2>1, <2>2 DEF ReadTarget, Owners, Present
<1>5. CASE CountOwners(w)
  BY <1>2, <1>3, <1>5 DEF CountOwners, Owners, Present
<1>6. CASE WriteMember(w)
  <2>1. PICK outcome \in Outcomes : AfterCall(w, outcome, "write")
    BY <1>6 DEF WriteMember
  <2>5. req[w].pc = "write"
    BY <1>6 DEF WriteMember
  <2>2. /\ req'[w].kind = req[w].kind /\ req'[w].target = req[w].target
        /\ req'[w].new = req[w].new /\ req'[w].pc = "write"
    BY <1>3, <2>1, <2>5, Called
  <2>3. CASE members' = members
    BY <1>6, <2>2, <2>3 DEF CountIsFresh, WriteMember, Owners, Present
  <2>4. CASE members' = [members EXCEPT ![req[w].target].role = req[w].new]
    <3>1. req[w].new \in Roles \cup {Gone}
      BY <1>1, <1>6 DEF WriteMember, Sound, FitsKind
    <3>2. /\ DOMAIN members' = DOMAIN members
          /\ \A n \in DOMAIN members :
                members'[n].role = IF n = req[w].target THEN req[w].new
                                   ELSE members[n].role
      BY <2>4, <3>1, RoleWritten
    <3>3. req[w].target \in DOMAIN members' => members'[req[w].target].role = req[w].new
      BY <3>2
    <3> QED BY <2>2, <3>3 DEF Owners, Present
  <2> QED BY <1>6, <2>3, <2>4 DEF WriteMember
<1>7. CASE LockMembership(w)
  <2>1. PICK m \in MembershipsOf(req[w].caller) :
          Become(w, [req[w] EXCEPT !.target = m, !.role = members[m].role,
                              !.pc = IF members[m].role = "owner" THEN "owners"
                                     ELSE "depart"])
    BY <1>2, <1>3, <1>7 DEF LockMembership
  <2>2. /\ req'[w].target = m
        /\ req'[w].pc = IF members[m].role = "owner" THEN "owners" ELSE "depart"
        /\ req'[w].kind = req[w].kind
    <3>1. req'[w] = [req[w] EXCEPT !.target = m, !.role = members[m].role,
                              !.pc = IF members[m].role = "owner" THEN "owners"
                                     ELSE "depart"]
      BY <1>2, <2>1
    <3>2. req[w] \in Request
      BY <1>1
    <3> HIDE DEF AloneInv
    <3> QED BY <3>1, <3>2 DEF Request
  <2>3. members[m].role # "owner"
    <3>1. SUFFICES ASSUME members[m].role = "owner" PROVE Harmless(req'[w])
      OBVIOUS
    <3>2. req'[w].pc = "owners"
      BY <2>2, <3>1
    <3> QED BY <3>2 DEF Harmless
  <2> QED BY <1>7, <2>2, <2>3 DEF LockMembership, Owners, Present
<1>8. CASE CountOwnersToLeave(w)
  BY <1>2, <1>3, <1>8 DEF CountOwnersToLeave, Owners, Present
<1>9. CASE LoseRequest(w) \/ Depart(w) \/ Erase(w) \/ Join(w)
  <2>1. \E outcome : AfterCall(w, outcome, "send")
    BY <1>9 DEF LoseRequest, Depart, Erase, Join
  <2>2. Harmless(req'[w])
    BY <1>3, <2>1, Called DEF Harmless
  <2> QED BY <2>2
<1>10. CASE CreateInvite(w) \/ RevokeInvite(w)
  <2>1. /\ req[w].kind # "manage" /\ req[w].pc = "write"
        /\ \E outcome : AfterCall(w, outcome, "write")
    BY <1>10 DEF CreateInvite, RevokeInvite
  <2>2. Harmless(req'[w])
    BY <1>3, <2>1, Called DEF Harmless
  <2> QED BY <2>2
<1>11. CASE \/ ManageMember(w) \/ StartInvite(w) \/ StartRevoke(w) \/ Accept(w)
            \/ StartFunction(w) \/ Kill(w)
  <2>1. ASSUME ManageMember(w) PROVE Harmless(req'[w])
    <3>1. req'[w].pc = "target"
      BY <1>2, <2>1 DEF ManageMember, Idle
    <3> QED BY <3>1 DEF Harmless
  <2>6. ASSUME Accept(w) PROVE Harmless(req'[w])
    <3>1. req'[w].pc = "send"
      BY <1>2, <2>6 DEF Accept, Idle
    <3> QED BY <3>1 DEF Harmless
  <2>2. ASSUME StartInvite(w) PROVE Harmless(req'[w])
    BY <1>2, <2>2 DEF StartInvite, Harmless, Idle
  <2>3. ASSUME StartRevoke(w) PROVE Harmless(req'[w])
    BY <1>2, <2>3 DEF StartRevoke, Harmless, Idle
  <2>4. ASSUME StartFunction(w) PROVE Harmless(req'[w])
    BY <1>2, <2>4 DEF StartFunction, Harmless, Idle
  <2>5. ASSUME Kill(w) PROVE Harmless(req'[w])
    BY <1>2, <2>5, <1>3 DEF Kill
  <2> QED BY <1>11, <2>1, <2>2, <2>3, <2>4, <2>5, <2>6
<1>12. CASE \/ BeginAccept(w) \/ LockInvite(w) \/ CheckOwner(w) \/ CheckAlone(w)
  <2>1. req'[w] = Idle \/ req'[w].pc \in {"lock", "join", "alone", "erase"}
    <3>1. ASSUME BeginAccept(w) PROVE req'[w].pc = "lock"
      BY <1>1, <1>2, <3>1 DEF BeginAccept, Request
    <3>2. ASSUME LockInvite(w) PROVE req'[w] = Idle \/ req'[w].pc = "join"
      BY <1>1, <1>2, <3>2 DEF LockInvite, Request
    <3>3. ASSUME CheckOwner(w) PROVE req'[w] = Idle \/ req'[w].pc = "alone"
      BY <1>1, <1>2, <3>3 DEF CheckOwner, Request
    <3>4. ASSUME CheckAlone(w) PROVE req'[w] = Idle \/ req'[w].pc = "erase"
      BY <1>1, <1>2, <3>4 DEF CheckAlone, Request
    <3> QED BY <1>12, <3>1, <3>2, <3>3, <3>4
  <2> QED BY <1>3, <2>1 DEF Harmless
<1> QED BY <1>4, <1>5, <1>6, <1>7, <1>8, <1>9, <1>10, <1>11, <1>12
        DEF Managing, Inviting, Ending

\* If requests are served one at a time, what one has counted is still so when
\* it writes: the organization keeps an owner.
THEOREM ServedAloneAnOwnerRemains ==
  ASSUME \A v, w \in Requests : v = w
  PROVE  Spec => []OwnerRemains
<1>1. Init => AloneInv
  <2> SUFFICES ASSUME Init PROVE AloneInv
    OBVIOUS
  <2>1. OwnerRemains
    BY DEF Init, OwnerRemains, Owners, Present, Gone
  <2>2. CountIsFresh
    BY DEF Init, CountIsFresh, Idle
  <2> QED BY <2>1, <2>2, InitIInv DEF AloneInv
<1>2. AloneInv /\ [Next]_vars => AloneInv'
  <2> SUFFICES ASSUME AloneInv, [Next]_vars PROVE AloneInv'
    OBVIOUS
  <2>1. IInv' /\ OwnerRemains'
    BY NextIInv, StepLeavesOwner DEF AloneInv
  <2>2. ASSUME NEW w \in Requests, Managing(w) \/ Inviting(w) \/ Ending(w) \/ Kill(w)
        PROVE  CountIsFresh'
    BY <2>2, StepCountsAfresh DEF CountIsFresh, Harmless
  <2>3. CountIsFresh'
    <3>1. CASE UNCHANGED vars \/ \E i \in DOMAIN invites : Expire(i)
      BY <3>1 DEF vars, Expire, AloneInv, CountIsFresh, Owners, Present
    <3> QED BY <2>2, <3>1 DEF Next
  <2> QED BY <2>1, <2>3 DEF AloneInv
<1> QED BY <1>1, <1>2, PTL DEF Spec, AloneInv
=============================================================================

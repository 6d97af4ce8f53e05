------------------------ MODULE ApplicationsProofs ------------------------
(***************************************************************************)
(* Proofs about the application of a pair, for any number of requests,     *)
(* documents, retries, undo windows and clock bound, and whatever statuses *)
(* a PATCH may set: there is at most one application, and what a request   *)
(* has read long ago is still true where it matters.                       *)
(***************************************************************************)
EXTENDS Applications, TLAPS

DP == INSTANCE DocumentsProofs

-----------------------------------------------------------------------------
(* The documents.                                                          *)

\* The invariant of Documents, as the module of its proofs knows it.
LEMMA SameInvariant == (D!IInv <=> DP!IInv) /\ (D!IInv' <=> DP!IInv')
  BY DEF D!IInv, DP!IInv, D!TypeOK, DP!TypeOK, D!VersionsHaveNoGaps,
         DP!VersionsHaveNoGaps, D!PendingVersions, DP!PendingVersions,
         D!RunningTypes, DP!RunningTypes, D!SavedRows, DP!SavedRows,
         D!Versions, DP!Versions, D!OfType, DP!OfType, D!Doc, DP!Doc,
         D!Generation, DP!Generation, D!AppId, DP!AppId, D!NoApp, DP!NoApp

\* The steps of Documents, as the module of its proofs knows them.
LEMMA SameNext == D!Next <=> DP!Next
<1>1. \A w, t : D!Generate(w, t) <=> DP!Generate(w, t)
  BY DEF D!Generate, DP!Generate, D!NoGeneration, DP!NoGeneration,
         D!NoDoc, DP!NoDoc
<1>2. \A w : D!ListVersions(w) <=> DP!ListVersions(w)
  BY DEF D!ListVersions, DP!ListVersions, D!IsNextVersion, DP!IsNextVersion,
         D!Versions, DP!Versions, D!OfType, DP!OfType
<1>3. \A w : D!FailGeneration(w) <=> DP!FailGeneration(w)
  BY DEF D!FailGeneration, DP!FailGeneration
<1>4. \A w : D!InsertDocument(w) <=> DP!InsertDocument(w)
  BY DEF D!InsertDocument, DP!InsertDocument, D!AfterInsert, DP!AfterInsert,
         D!NoApp, DP!NoApp, D!Outcomes, DP!Outcomes, D!Committed, DP!Committed,
         D!Retries, DP!Retries
<1>5. \A w : D!Leave(w) <=> DP!Leave(w)
  BY DEF D!Leave, DP!Leave, D!NoGeneration, DP!NoGeneration, D!NoDoc, DP!NoDoc
<1>6. \A d, a : D!SetApplicationId(d, a) <=> DP!SetApplicationId(d, a)
  BY DEF D!SetApplicationId, DP!SetApplicationId
<1>7. D!AppId = DP!AppId
  BY DEF D!AppId, DP!AppId
<1> QED BY <1>1, <1>2, <1>3, <1>4, <1>5, <1>6, <1>7
        DEF D!Next, DP!Next, D!GenerationStep, DP!GenerationStep

\* A step of Documents keeps the invariant of Documents.
LEMMA DocumentsStep == D!IInv /\ [D!Next]_<<docs, gen>> => D!IInv'
<1>1. DP!IInv /\ [DP!Next]_<<docs, gen>> => DP!IInv'
  BY DP!NextIInv, ApplicationBounds, AttemptsAssumption DEF DP!vars
<1> QED BY <1>1, SameInvariant, SameNext

\* Every step of this module is a step of Documents or leaves it alone: what
\* is linked is a row, and it is linked to an application.
LEMMA StepOfDocuments ==
  ASSUME IInv, [Next]_vars
  PROVE  [D!Next]_<<docs, gen>>
<1>1. ASSUME NEW w \in Requests, Applying(w)
      PROVE  [D!Next]_<<docs, gen>>
  <2>1. CASE Apply(w)
    BY <2>1 DEF Apply
  <2>2. CASE CheckExisting(w)
    BY <2>2 DEF CheckExisting
  <2>3. CASE InsertApplication(w)
    BY <2>3 DEF InsertApplication
  <2>4. CASE Tailor(w)
    <3>1. req[w].type \in DocTypes
      BY <2>4 DEF Tailor, IInv, GoodRequest
    <3> QED BY <2>4, <3>1 DEF Tailor, D!Next
  <2>5. CASE TakeDocument(w)
    BY <2>5 DEF TakeDocument, D!Next
  <2>6. CASE FindDocument(w)
    BY <2>6 DEF FindDocument
  <2>7. CASE LinkDocument(w)
    <3>1. req[w].doc \in DOMAIN docs /\ req[w].app \in DOMAIN apps
      BY <2>7 DEF LinkDocument, IInv, GoodRequest
    <3>2. req[w].app \in D!AppId
      <4>1. apps \in Seq(App) /\ Len(apps) <= MaxApps
        BY DEF IInv, TypeOK
      <4> QED BY <3>1, <4>1, ApplicationBounds DEF D!AppId
    <3>3. UNCHANGED <<docs, gen>> \/ D!SetApplicationId(req[w].doc, req[w].app)
      BY <2>7 DEF LinkDocument
    <3> QED BY <3>1, <3>2, <3>3 DEF D!Next
  <2> QED BY <1>1, <2>1, <2>2, <2>3, <2>4, <2>5, <2>6, <2>7 DEF Applying
<1>2. ASSUME NEW w \in Requests, Generating(w)
      PROVE  [D!Next]_<<docs, gen>>
  BY <1>2 DEF Generating, GenerateDocument, Generation, AnswerGeneration, D!Next
<1>3. ASSUME NEW w \in Requests, Handling(w)
      PROVE  [D!Next]_<<docs, gen>>
  BY <1>3 DEF Handling, ListApplications, AdvanceExpired, CancelQueued,
              UpdateStatus, WriteStatus
<1>4. ASSUME NEW w \in Requests, Kill(w)
      PROVE  [D!Next]_<<docs, gen>>
  BY <1>4 DEF Kill, D!Next
<1>5. CASE Tick \/ UNCHANGED vars
  BY <1>5 DEF Tick, vars
<1> QED BY <1>1, <1>2, <1>3, <1>4, <1>5 DEF Next

\* A step of Documents never removes a row.
LEMMA RowsStay ==
  ASSUME D!TypeOK, [D!Next]_<<docs, gen>>
  PROVE  DOMAIN docs \subseteq DOMAIN docs'
<1>1. ASSUME NEW w \in Requests, D!InsertDocument(w)
      PROVE  DOMAIN docs \subseteq DOMAIN docs'
  <2> DEFINE d == [type |-> gen[w].type, version |-> gen[w].version,
                   app |-> D!NoApp]
  <2>1. UNCHANGED docs \/ docs' = Append(docs, d)
    BY <1>1 DEF D!InsertDocument
  <2>2. docs \in Seq(D!Doc)
    BY DEF D!TypeOK
  <2> HIDE DEF d
  <2> QED BY <2>1, <2>2
<1>2. ASSUME NEW d, NEW a, D!SetApplicationId(d, a)
      PROVE  DOMAIN docs \subseteq DOMAIN docs'
  BY <1>2 DEF D!SetApplicationId
<1> QED BY <1>1, <1>2 DEF D!Next, D!GenerationStep, D!Generate, D!ListVersions,
                          D!FailGeneration, D!Leave

\* A step of Documents never unlinks a row.
LEMMA LinkKept ==
  ASSUME D!TypeOK, [D!Next]_<<docs, gen>>, NEW d \in DOMAIN docs,
         docs[d].app # NoApp
  PROVE  docs'[d].app # NoApp
<1>1. docs \in Seq(D!Doc)
  BY DEF D!TypeOK
<1>2. ASSUME NEW w \in Requests, D!GenerationStep(w)
      PROVE  docs'[d].app # NoApp
  <2>1. CASE D!InsertDocument(w)
    <3> DEFINE e == [type |-> gen[w].type, version |-> gen[w].version,
                     app |-> D!NoApp]
    <3>1. UNCHANGED docs \/ docs' = Append(docs, e)
      BY <2>1 DEF D!InsertDocument
    <3> HIDE DEF e
    <3> QED BY <1>1, <3>1
  <2> QED BY <1>2, <2>1 DEF D!GenerationStep, D!ListVersions, D!FailGeneration
<1>3. ASSUME NEW x \in DOMAIN docs, NEW a \in D!AppId, D!SetApplicationId(x, a)
      PROVE  docs'[d].app # NoApp
  <2>1. docs' = [docs EXCEPT ![x].app = a] /\ a # NoApp
    BY <1>3 DEF D!SetApplicationId, D!AppId, NoApp, D!NoApp
  <2>2. docs[x] \in D!Doc
    BY <1>1
  <2> QED BY <2>1, <2>2 DEF D!Doc
<1> QED BY <1>2, <1>3 DEF D!Next, D!Generate, D!Leave

\* What a step of Documents other than a link makes rows linked to.
LEMMA NewRowsAreUnlinked ==
  ASSUME D!TypeOK, NEW w \in Requests, D!GenerationStep(w)
  PROVE  \A d \in DOMAIN docs' :
            \/ d \in DOMAIN docs /\ docs'[d].app = docs[d].app
            \/ docs'[d].app = NoApp
<1>1. CASE D!InsertDocument(w)
  <2> DEFINE e == [type |-> gen[w].type, version |-> gen[w].version,
                   app |-> D!NoApp]
  <2>1. UNCHANGED docs \/ docs' = Append(docs, e)
    BY <1>1 DEF D!InsertDocument
  <2>2. docs \in Seq(D!Doc)
    BY DEF D!TypeOK
  <2>3. e.app = NoApp
    BY DEF NoApp
  <2> HIDE DEF e
  <2> QED BY <2>1, <2>2, <2>3
<1>2. CASE D!ListVersions(w) \/ D!FailGeneration(w)
  BY <1>2 DEF D!ListVersions, D!FailGeneration
<1> QED BY <1>1, <1>2 DEF D!GenerationStep

-----------------------------------------------------------------------------
(* Typing of a request, one field at a time.                               *)

\* Requests stay typed when their control point is replaced.
LEMMA SetPc ==
  ASSUME NEW r \in Request,
         NEW pc \in Steps
  PROVE  [r EXCEPT !.pc = pc] \in Request
  BY DEF Request

\* Requests stay typed when their application row is replaced.
LEMMA SetApp ==
  ASSUME NEW r \in Request,
         NEW a \in AppId \cup {NoApp}
  PROVE  [r EXCEPT !.app = a] \in Request
  BY DEF Request

\* Requests stay typed when the status they has read is replaced.
LEMMA SetSeen ==
  ASSUME NEW r \in Request,
         NEW s \in Statuses \cup {"none"}
  PROVE  [r EXCEPT !.seen = s] \in Request
  BY DEF Request

\* Requests stay typed when the status they will write is replaced.
LEMMA SetStatus ==
  ASSUME NEW r \in Request,
         NEW s \in Statuses \cup {"none"}
  PROVE  [r EXCEPT !.status = s] \in Request
  BY DEF Request

\* Requests stay typed when their timestamp is replaced.
LEMMA SetStamp ==
  ASSUME NEW r \in Request,
         NEW n \in 0..MaxTime
  PROVE  [r EXCEPT !.stamp = n] \in Request
  BY DEF Request

\* Requests stay typed when their document type is replaced.
LEMMA SetType ==
  ASSUME NEW r \in Request,
         NEW t \in DocTypes \cup {"none"}
  PROVE  [r EXCEPT !.type = t] \in Request
  BY DEF Request

\* Requests stay typed when their document is replaced.
LEMMA SetDoc ==
  ASSUME NEW r \in Request,
         NEW d \in 0..MaxDocs
  PROVE  [r EXCEPT !.doc = d] \in Request
  BY DEF Request

\* Requests stay typed when their failed attempts are replaced.
LEMMA SetTries ==
  ASSUME NEW r \in Request,
         NEW n \in 0..MaxAttempts
  PROVE  [r EXCEPT !.tries = n] \in Request
  BY DEF Request

\* Requests stay typed when their kind is replaced.
LEMMA SetKind ==
  ASSUME NEW r \in Request,
         NEW k \in {"none", "auto", "manual", "listing", "cancel", "update"}
  PROVE  [r EXCEPT !.kind = k] \in Request
  BY DEF Request

\* The constants the fields may take.
LEMMA Nulls == /\ 0 \in 0..MaxAttempts /\ 0 \in 0..MaxDocs /\ 0 \in 0..MaxTime
               /\ NoDoc = 0 /\ NoApp = 0 /\ Never = 0
  BY ApplicationBounds, AttemptsAssumption DEF NoDoc, NoApp, Never, D!NoDoc, D!NoApp

\* An idle request is typed and relies on nothing.
LEMMA IdleType == Idle \in Request /\ Idle.pc = "idle" /\ GoodRequest(Idle)
  BY Nulls DEF Idle, Request, Steps, GoodRequest

\* At(w, pc) moves the request and keeps what it knows.
LEMMA AtType ==
  ASSUME NEW w \in Requests, req[w] \in Request, NEW pc \in Steps
  PROVE  /\ At(w, pc) \in Request
         /\ At(w, pc).pc = pc
         /\ At(w, pc).app = req[w].app
         /\ At(w, pc).type = req[w].type
         /\ At(w, pc).doc = req[w].doc
         /\ At(w, pc).kind = req[w].kind
<1>1. [req[w] EXCEPT !.pc = pc] \in Request
  BY SetPc
<1>2. [[req[w] EXCEPT !.pc = pc] EXCEPT !.tries = 0] \in Request
  BY <1>1, Nulls, SetTries
<1> QED BY <1>2 DEF At, Request

\* A request turned to a document of a type, if there is one left.
LEMMA ForDocumentFields ==
  ASSUME NEW r \in Request, NEW t \in DocTypes \cup {"none"}
  PROVE  /\ ForDocument(r, t) \in Request
         /\ \/ ForDocument(r, t) = Idle
            \/ /\ ForDocument(r, t).pc \in {"tailor", "find"}
               /\ ForDocument(r, t).app = r.app
               /\ ForDocument(r, t).type = t /\ t \in DocTypes
<1>1. CASE t = "none"
  BY <1>1, IdleType DEF ForDocument
<1>2. CASE t # "none"
  <2> DEFINE pc == IF r.kind = "auto" THEN "tailor" ELSE "find"
             r1 == [r EXCEPT !.pc = pc]
             r2 == [r1 EXCEPT !.type = t]
             r3 == [r2 EXCEPT !.doc = NoDoc]
             r4 == [r3 EXCEPT !.tries = 0]
  <2>1. pc \in Steps /\ pc \in {"tailor", "find"}
    BY DEF Steps
  <2>2. ForDocument(r, t) = r4
    BY <1>2 DEF ForDocument
  <2> HIDE DEF pc
  <2>3. r1 \in Request /\ r1.pc = pc /\ r1.app = r.app
    BY <2>1, SetPc DEF Request
  <2> HIDE DEF r1
  <2>4. r2 \in Request /\ r2.pc = pc /\ r2.app = r.app /\ r2.type = t
    BY <2>3, SetType DEF Request
  <2> HIDE DEF r2
  <2>5. r3 \in Request /\ r3.pc = pc /\ r3.app = r.app /\ r3.type = t
    BY <2>4, Nulls, SetDoc DEF Request
  <2> HIDE DEF r3
  <2>6. r4 \in Request /\ r4.pc = pc /\ r4.app = r.app /\ r4.type = t
    BY <2>5, Nulls, SetTries DEF Request
  <2> HIDE DEF r4
  <2> QED BY <1>2, <2>1, <2>2, <2>6
<1> QED BY <1>1, <1>2

\* The next document of a request that is at one.
LEMMA NextDocumentType ==
  ASSUME NEW w \in Requests, req[w] \in Request, GoodRequest(req[w]),
         req[w].pc \in {"await", "find", "link"}
  PROVE  NextDocument(w) \in Request /\ GoodRequest(NextDocument(w))
<1>1. req[w].app \in DOMAIN apps
  BY DEF GoodRequest
<1>2. NextType(req[w].kind, req[w].type) \in DocTypes \cup {"none"}
  BY DEF NextType, DocTypes
<1> DEFINE r == ForDocument(req[w], NextType(req[w].kind, req[w].type))
<1>3. /\ r \in Request
      /\ \/ r = Idle
         \/ /\ r.pc \in {"tailor", "find"} /\ r.app = req[w].app
            /\ r.type \in DocTypes
  BY <1>2, ForDocumentFields
<1> HIDE DEF r
<1>4. GoodRequest(r)
  BY <1>1, <1>3, IdleType DEF GoodRequest
<1> QED BY <1>3, <1>4 DEF NextDocument, r

\* Where a call leaves the request.
LEMMA Called ==
  ASSUME NEW w \in Requests, req[w] \in Request, GoodRequest(req[w]),
         NEW outcome \in Outcomes,
         NEW ack \in Request, NEW raised \in Request,
         GoodRequest(raised),
         AfterCall(w, outcome, ack, raised)
  PROVE  \E r \in Request :
            /\ req' = [req EXCEPT ![w] = r]
            /\ \/ r = ack /\ outcome = "ok"
               \/ GoodRequest(r) /\ (r = raised \/ r.pc = req[w].pc)
<1>1. CASE outcome = "ok"
  BY <1>1 DEF AfterCall, Become
<1>2. CASE outcome # "ok" /\ Retries(req[w].tries, outcome)
  <2> DEFINE r == [req[w] EXCEPT !.tries = req[w].tries + 1]
  <2>1. req[w].tries + 1 \in 0..MaxAttempts
    BY <1>2, AttemptsAssumption DEF Request, Retries
  <2>2. r \in Request
    BY <2>1, SetTries
  <2>3. /\ r.pc = req[w].pc /\ r.app = req[w].app /\ r.type = req[w].type
        /\ r.doc = req[w].doc /\ r.status = req[w].status
        /\ r.stamp = req[w].stamp /\ r.kind = req[w].kind
    BY DEF Request
  <2>4. req' = [req EXCEPT ![w] = r]
    BY <1>2 DEF AfterCall, Become
  <2> HIDE DEF r
  <2>5. GoodRequest(r)
    BY <2>3 DEF GoodRequest
  <2> QED BY <2>2, <2>3, <2>4, <2>5
<1>3. CASE outcome # "ok" /\ ~Retries(req[w].tries, outcome)
  BY <1>3 DEF AfterCall, Become
<1> QED BY <1>1, <1>2, <1>3

-----------------------------------------------------------------------------
(* The inductive invariant.                                                *)

\* What the proofs use of the state before a step.
LEMMA Unpack ==
  ASSUME IInv, NEW w \in Requests
  PROVE  /\ req \in [Requests -> Request] /\ req[w] \in Request
         /\ GoodRequest(req[w])
         /\ apps \in Seq(App) /\ Len(apps) <= MaxApps
         /\ D!IInv /\ D!TypeOK
         /\ clock \in 1..MaxTime
  BY DEF IInv, TypeOK, D!IInv

\* Base case.
LEMMA InitIInv == Init => IInv
<1> SUFFICES ASSUME Init PROVE IInv
  OBVIOUS
<1>1. D!IInv
  <2>1. DP!Init => DP!IInv
    BY DP!InitIInv, ApplicationBounds, AttemptsAssumption
  <2>2. D!Init <=> DP!Init
    BY DEF D!Init, DP!Init, D!NoGeneration, DP!NoGeneration, D!NoDoc, DP!NoDoc
  <2> QED BY <2>1, <2>2, SameInvariant DEF Init
<1>2. TypeOK
  BY <1>1, IdleType, ApplicationBounds DEF Init, TypeOK, D!IInv
<1>3. OneApplicationPerPair /\ SubmittedIsDated /\ LinkedToExisting
  BY DEF Init, OneApplicationPerPair, SubmittedIsDated, LinkedToExisting, D!Init
<1>4. \A w \in Requests : GoodRequest(req[w])
  BY IdleType DEF Init
<1> QED BY <1>1, <1>2, <1>3, <1>4 DEF IInv

\* What other requests rely on survives a step that removes no row, keeps the
\* undo windows, never takes an applied_at away and never turns back the clock.
LEMMA OthersStayGood ==
  ASSUME NEW r, GoodRequest(r),
         DOMAIN docs \subseteq DOMAIN docs', DOMAIN apps \subseteq DOMAIN apps',
         clock \in Nat, clock' \in Nat, clock <= clock',
         \A a \in DOMAIN apps :
            /\ apps[a].deadline \in Nat /\ apps'[a].deadline = apps[a].deadline
            /\ apps'[a].auto = apps[a].auto
            /\ apps[a].appliedAt # Never => apps'[a].appliedAt # Never
  PROVE  /\ r.pc \in {"tailor", "await", "find", "link", "listed", "write"} =>
               r.app \in DOMAIN apps'
         /\ r.pc \in {"tailor", "await", "find", "link"} => r.type \in DocTypes
         /\ r.pc = "link" => r.doc \in DOMAIN docs'
         /\ r.pc = "listed" => r.kind = "listing"
         /\ r.pc = "write" =>
               /\ r.status \in Statuses
               /\ r.status = "submitted" /\ r.stamp = Never =>
                     apps'[r.app].appliedAt # Never
               /\ r.kind \in {"listing", "cancel", "update"}
               /\ r.kind = "listing" =>
                     /\ r.status = "ready_to_submit"
                     /\ apps'[r.app].auto /\ apps'[r.app].deadline <= clock'
               /\ r.kind = "cancel" => r.status = "cancelled"
  BY DEF GoodRequest, WindowClosed

\* A step of one request that touches no application and does not link: all
\* there is to show is that the request relies on nothing false.
LEMMA RequestStep ==
  ASSUME IInv, NEW w \in Requests, NEW r \in Request,
         req' = [req EXCEPT ![w] = r], GoodRequest(r),
         UNCHANGED <<apps, clock>>, [D!Next]_<<docs, gen>>, LinkedToExisting'
  PROVE  IInv'
<1>1. D!IInv'
  BY DocumentsStep DEF IInv
<1>2. TypeOK'
  BY <1>1 DEF IInv, TypeOK, D!IInv
<1>3. DOMAIN docs \subseteq DOMAIN docs'
  BY RowsStay DEF IInv, TypeOK
<1>6. ASSUME NEW x \in Requests PROVE GoodRequest(req[x])'
  <2>1. req'[x] = IF x = w THEN r ELSE req[x]
    BY DEF IInv, TypeOK
  <2>2. GoodRequest(req[x])
    BY DEF IInv
  <2>3. CASE x = w
    BY <2>1, <2>3, <1>3 DEF GoodRequest, WindowClosed
  <2>4. CASE x # w
    BY <2>1, <2>2, <2>4, <1>3 DEF GoodRequest, WindowClosed
  <2> QED BY <2>3, <2>4
<1>7. OneApplicationPerPair' /\ SubmittedIsDated'
  BY DEF IInv, OneApplicationPerPair, SubmittedIsDated
<1> QED BY <1>1, <1>2, <1>6, <1>7 DEF IInv

\* The same for a step that leaves the rows of generated_documents alone.
LEMMA QuietStep ==
  ASSUME IInv, [Next]_vars, NEW w \in Requests, NEW r \in Request,
         req' = [req EXCEPT ![w] = r], GoodRequest(r),
         UNCHANGED <<apps, clock, docs>>
  PROVE  IInv'
<1>1. LinkedToExisting'
  BY DEF IInv, LinkedToExisting
<1> QED BY <1>1, StepOfDocuments, RequestStep

\* Checking before an insert.
LEMMA CheckIInv ==
  ASSUME IInv, [Next]_vars, NEW w \in Requests, Apply(w) \/ CheckExisting(w)
  PROVE  IInv'
<1>1. CASE Apply(w)
  <2>1. PICK kind \in {"auto", "manual"} :
           req' = [req EXCEPT ![w] = [Idle EXCEPT !.pc = "apply", !.kind = kind]]
    BY <1>1 DEF Apply, Become
  <2> DEFINE r1 == [Idle EXCEPT !.pc = "apply"]
             r2 == [r1 EXCEPT !.kind = kind]
  <2>2. r1 \in Request /\ r1.pc = "apply"
    BY IdleType, SetPc DEF Request, Steps
  <2>5. req' = [req EXCEPT ![w] = r2]
    BY <2>1
  <2> HIDE DEF r1
  <2>3. r2 \in Request /\ r2.pc = "apply"
    BY <2>2, SetKind DEF Request
  <2> HIDE DEF r2
  <2>4. GoodRequest(r2)
    BY <2>3 DEF GoodRequest
  <2> QED BY <1>1, <2>3, <2>4, <2>5, QuietStep DEF Apply
<1>2. CASE CheckExisting(w)
  <2>1. CASE apps = <<>>
    <3> DEFINE r1 == At(w, "insert")
               r2 == [r1 EXCEPT !.stamp = clock]
    <3>1. req' = [req EXCEPT ![w] = r2]
      BY <1>2, <2>1 DEF CheckExisting, Become
    <3>2. r1 \in Request /\ r1.pc = "insert"
      BY Unpack, AtType DEF Steps
    <3> HIDE DEF r1
    <3>3. clock \in 0..MaxTime
      BY ApplicationBounds, Unpack
    <3>4. r2 \in Request /\ r2.pc = "insert"
      BY <3>2, <3>3, SetStamp DEF Request
    <3> HIDE DEF r2
    <3>5. GoodRequest(r2)
      BY <3>4 DEF GoodRequest
    <3> QED BY <1>2, <3>1, <3>4, <3>5, QuietStep DEF CheckExisting
  <2>2. CASE apps # <<>>
    BY <1>2, <2>2, IdleType, QuietStep DEF CheckExisting, Become
  <2> QED BY <2>1, <2>2
<1> QED BY <1>1, <1>2

\* Auto-apply asks for a document.
LEMMA TailorIInv ==
  ASSUME IInv, [Next]_vars, NEW w \in Requests, Tailor(w)
  PROVE  IInv'
<1> DEFINE r == At(w, "await")
<1>1. req' = [req EXCEPT ![w] = r] /\ req[w].pc = "tailor"
  BY DEF Tailor, Become
<1>2. /\ r \in Request /\ r.pc = "await" /\ r.app = req[w].app
      /\ r.type = req[w].type
  BY Unpack, AtType DEF Steps
<1> HIDE DEF r
<1>3. GoodRequest(r)
  BY <1>1, <1>2, Unpack DEF GoodRequest
<1> QED BY <1>1, <1>2, <1>3, QuietStep DEF Tailor, D!Generate

\* A request turned to linking a row that exists.
LEMMA LinkType ==
  ASSUME IInv, NEW w \in Requests, req[w].pc \in {"await", "find"},
         NEW d \in DOMAIN docs
  PROVE  /\ [At(w, "link") EXCEPT !.doc = d] \in Request
         /\ GoodRequest([At(w, "link") EXCEPT !.doc = d])
<1> DEFINE r1 == At(w, "link")
           r2 == [r1 EXCEPT !.doc = d]
<1>1. /\ r1 \in Request /\ r1.pc = "link" /\ r1.app = req[w].app
      /\ r1.type = req[w].type
  BY Unpack, AtType DEF Steps
<1> HIDE DEF r1
<1>2. d \in 0..MaxDocs
  <2>1. docs \in Seq(D!Doc) /\ Len(docs) <= MaxDocs
    BY Unpack DEF D!TypeOK
  <2> QED BY <2>1, ApplicationBounds
<1>3. /\ r2 \in Request /\ r2.pc = "link" /\ r2.app = req[w].app
      /\ r2.type = req[w].type /\ r2.doc = d
  BY <1>1, <1>2, SetDoc DEF Request
<1>4. r2 = [At(w, "link") EXCEPT !.doc = d]
  BY DEF r1
<1> HIDE DEF r2
<1>5. GoodRequest(r2)
  BY <1>3, Unpack DEF GoodRequest
<1> QED BY <1>3, <1>4, <1>5

\* Taking over a generated document, and looking for one.
LEMMA TakeIInv ==
  ASSUME IInv, [Next]_vars, NEW w \in Requests,
         TakeDocument(w) \/ FindDocument(w)
  PROVE  IInv'
<1>1. CASE TakeDocument(w)
  <2>1. UNCHANGED <<apps, clock, docs>> /\ req[w].pc = "await"
    BY <1>1 DEF TakeDocument, D!Leave
  <2>2. CASE gen[w].pc = "saved"
    <3>1. gen[w].doc \in DOMAIN docs
      BY <2>2 DEF IInv, D!IInv, D!SavedRows
    <3>2. req' = [req EXCEPT ![w] = [At(w, "link") EXCEPT !.doc = gen[w].doc]]
      BY <1>1, <2>2 DEF TakeDocument, Become
    <3> QED BY <2>1, <3>1, <3>2, LinkType, QuietStep
  <2>3. CASE gen[w].pc # "saved"
    <3>1. req' = [req EXCEPT ![w] = NextDocument(w)]
      BY <1>1, <2>3 DEF TakeDocument, Become
    <3> QED BY <2>1, <3>1, Unpack, NextDocumentType, QuietStep
  <2> QED BY <2>2, <2>3
<1>2. CASE FindDocument(w)
  <2>1. UNCHANGED <<apps, clock, docs>> /\ req[w].pc = "find"
    BY <1>2 DEF FindDocument
  <2>2. CASE req' = [req EXCEPT ![w] = NextDocument(w)]
    BY <2>1, <2>2, Unpack, NextDocumentType, QuietStep
  <2>3. ASSUME NEW d \in DOMAIN docs,
               req' = [req EXCEPT ![w] = [At(w, "link") EXCEPT !.doc = d]]
        PROVE  IInv'
    BY <2>1, <2>3, LinkType, QuietStep
  <2> QED BY <1>2, <2>2, <2>3 DEF FindDocument, Become
<1> QED BY <1>1, <1>2

\* Linking: the row and the application both exist.
LEMMA LinkIInv ==
  ASSUME IInv, [Next]_vars, NEW w \in Requests, LinkDocument(w)
  PROVE  IInv'
<1>1. PICK outcome \in Outcomes :
         /\ IF Committed(outcome)
            THEN D!SetApplicationId(req[w].doc, req[w].app)
            ELSE UNCHANGED <<docs, gen>>
         /\ AfterCall(w, outcome, NextDocument(w),
               IF req[w].kind = "auto" THEN NextDocument(w) ELSE Idle)
  BY DEF LinkDocument
<1>2. /\ req[w].pc = "link" /\ req[w].app \in DOMAIN apps
      /\ UNCHANGED <<apps, clock>>
  BY Unpack DEF LinkDocument, GoodRequest
<1>3. NextDocument(w) \in Request /\ GoodRequest(NextDocument(w))
  BY <1>2, Unpack, NextDocumentType
<1> DEFINE raised == IF req[w].kind = "auto" THEN NextDocument(w) ELSE Idle
<1>4. raised \in Request /\ GoodRequest(raised)
  BY <1>3, IdleType
<1>5. AfterCall(w, outcome, NextDocument(w), raised)
  BY <1>1
<1> HIDE DEF raised
<1>6. PICK r \in Request :
         req' = [req EXCEPT ![w] = r] /\ GoodRequest(r)
  BY <1>3, <1>4, <1>5, Unpack, Called
<1>7. LinkedToExisting'
  <2>1. docs \in Seq(D!Doc)
    BY Unpack DEF D!TypeOK
  <2>2. CASE UNCHANGED docs
    BY <1>2, <2>2 DEF IInv, LinkedToExisting
  <2>3. CASE D!SetApplicationId(req[w].doc, req[w].app)
    <3>1. docs' = [docs EXCEPT ![req[w].doc].app = req[w].app]
      BY <2>3 DEF D!SetApplicationId
    <3>2. \A d \in DOMAIN docs : docs[d] \in D!Doc
      BY <2>1
    <3>3. \A d \in DOMAIN docs' :
             docs'[d].app = docs[d].app \/ docs'[d].app = req[w].app
      BY <3>1, <3>2 DEF D!Doc
    <3> QED BY <1>2, <3>1, <3>3 DEF IInv, LinkedToExisting
  <2> QED BY <1>1, <2>2, <2>3
<1> QED BY <1>2, <1>6, <1>7, StepOfDocuments, RequestStep

\* Generations, those of the endpoints and those of auto-apply.
LEMMA GeneratingIInv ==
  ASSUME IInv, [Next]_vars, NEW w \in Requests, Generating(w)
  PROVE  IInv'
<1>1. CASE GenerateDocument(w)
  <2> DEFINE r == At(w, "generate")
  <2>1. r \in Request /\ r.pc = "generate"
    BY Unpack, AtType DEF Steps
  <2>2. req' = [req EXCEPT ![w] = r] /\ UNCHANGED <<apps, clock, docs>>
    BY <1>1 DEF GenerateDocument, Become, D!Generate
  <2> HIDE DEF r
  <2>3. GoodRequest(r)
    BY <2>1 DEF GoodRequest
  <2> QED BY <2>1, <2>2, <2>3, QuietStep
<1>2. CASE Generation(w)
  <2>1. D!GenerationStep(w) /\ UNCHANGED <<apps, req, clock>>
    BY <1>2 DEF Generation
  <2>2. LinkedToExisting'
    BY <2>1, Unpack, NewRowsAreUnlinked DEF IInv, LinkedToExisting
  <2>3. req' = [req EXCEPT ![w] = req[w]]
    BY <2>1, Unpack
  <2> QED BY <2>1, <2>2, <2>3, Unpack, StepOfDocuments, RequestStep
<1>3. CASE AnswerGeneration(w)
  BY <1>3, IdleType, QuietStep DEF AnswerGeneration, Become, D!Leave
<1> QED BY <1>1, <1>2, <1>3 DEF Generating

\* Reading the row for a listing, and deciding on the row as it was read: the
\* deadline of the row has not moved since.
LEMMA ListingIInv ==
  ASSUME IInv, [Next]_vars, NEW w \in Requests,
         ListApplications(w) \/ AdvanceExpired(w)
  PROVE  IInv'
<1>1. CASE ListApplications(w)
  <2>1. PICK a \in DOMAIN apps :
           req' = [req EXCEPT ![w] =
                     [Idle EXCEPT !.pc = "listed", !.kind = "listing",
                                  !.app = a, !.seen = apps[a].status]]
    BY <1>1 DEF ListApplications, Become
  <2>2. a \in AppId \cup {NoApp} /\ apps[a] \in App
    BY Unpack, ApplicationBounds DEF AppId, D!AppId
  <2>3. apps[a].status \in Statuses \cup {"none"}
    BY <2>2 DEF App
  <2> DEFINE r1 == [Idle EXCEPT !.pc = "listed"]
             r2 == [r1 EXCEPT !.kind = "listing"]
             r3 == [r2 EXCEPT !.app = a]
             r4 == [r3 EXCEPT !.seen = apps[a].status]
  <2>4. req' = [req EXCEPT ![w] = r4]
    BY <2>1
  <2>5. r1 \in Request /\ r1.pc = "listed"
    BY IdleType, SetPc DEF Request, Steps
  <2> HIDE DEF r1
  <2>6. r2 \in Request /\ r2.pc = "listed" /\ r2.kind = "listing"
    BY <2>5, SetKind DEF Request
  <2> HIDE DEF r2
  <2>7. /\ r3 \in Request /\ r3.pc = "listed" /\ r3.kind = "listing"
        /\ r3.app = a
    BY <2>2, <2>6, SetApp DEF Request
  <2> HIDE DEF r3
  <2>8. /\ r4 \in Request /\ r4.pc = "listed" /\ r4.kind = "listing"
        /\ r4.app = a
    BY <2>3, <2>7, SetSeen DEF Request
  <2> HIDE DEF r4
  <2>9. GoodRequest(r4)
    BY <2>8 DEF GoodRequest
  <2> QED BY <1>1, <2>4, <2>8, <2>9, QuietStep DEF ListApplications
<1>2. CASE AdvanceExpired(w)
  <2>1. CASE req[w].seen = "queued" /\ WindowClosed(req[w].app)
    <3> DEFINE r1 == At(w, "write")
               r2 == [r1 EXCEPT !.status = "ready_to_submit"]
    <3>1. req' = [req EXCEPT ![w] = r2]
      BY <1>2, <2>1 DEF AdvanceExpired, Become
    <3>2. /\ r1 \in Request /\ r1.pc = "write" /\ r1.app = req[w].app
          /\ r1.kind = req[w].kind
      BY Unpack, AtType DEF Steps
    <3> HIDE DEF r1
    <3>3. "ready_to_submit" \in Statuses
      BY DEF Statuses
    <3>4. /\ r2 \in Request /\ r2.pc = "write" /\ r2.app = req[w].app
          /\ r2.status = "ready_to_submit" /\ r2.kind = req[w].kind
      BY <3>2, <3>3, SetStatus DEF Request
    <3> HIDE DEF r2
    <3>5. /\ req[w].app \in DOMAIN apps /\ WindowClosed(req[w].app)
          /\ req[w].kind = "listing"
      BY <1>2, <2>1, Unpack DEF AdvanceExpired, GoodRequest
    <3>6. GoodRequest(r2)
      BY <3>3, <3>4, <3>5 DEF GoodRequest
    <3> QED BY <1>2, <3>1, <3>4, <3>6, QuietStep DEF AdvanceExpired
  <2>2. CASE ~(req[w].seen = "queued" /\ WindowClosed(req[w].app))
    BY <1>2, <2>2, IdleType, QuietStep DEF AdvanceExpired, Become
  <2> QED BY <2>1, <2>2
<1> QED BY <1>1, <1>2

\* A request of the candidate that is about to write a status.
LEMMA WriteType ==
  ASSUME IInv, NEW a \in DOMAIN apps, NEW s \in Statuses,
         NEW n \in 0..MaxTime, NEW k \in {"cancel", "update"},
         s = "submitted" /\ n = Never => apps[a].appliedAt # Never,
         k = "cancel" => s = "cancelled"
  PROVE  Writing(k, a, s, n) \in Request /\ GoodRequest(Writing(k, a, s, n))
<1> DEFINE r1 == [Idle EXCEPT !.pc = "write"]
           r2 == [r1 EXCEPT !.kind = k]
           r3 == [r2 EXCEPT !.app = a]
           r4 == [r3 EXCEPT !.status = s]
           r5 == [r4 EXCEPT !.stamp = n]
<1>1. a \in AppId \cup {NoApp}
  <2>1. apps \in Seq(App) /\ Len(apps) <= MaxApps
    BY DEF IInv, TypeOK
  <2> QED BY <2>1, ApplicationBounds DEF AppId, D!AppId
<1>7. r5 = Writing(k, a, s, n)
  BY DEF Writing
<1>2. r1 \in Request /\ r1.pc = "write"
  <2>1. "write" \in Steps
    BY DEF Steps
  <2>2. r1 \in Request
    BY <2>1, IdleType, SetPc
  <2> QED BY <2>2 DEF Idle
<1> HIDE DEF r1
<1>3. r2 \in Request /\ r2.pc = "write" /\ r2.kind = k
  BY <1>2, SetKind DEF Request
<1> HIDE DEF r2
<1>4. r3 \in Request /\ r3.pc = "write" /\ r3.kind = k /\ r3.app = a
  BY <1>1, <1>3, SetApp DEF Request
<1> HIDE DEF r3
<1>5. /\ r4 \in Request /\ r4.pc = "write" /\ r4.kind = k /\ r4.app = a
      /\ r4.status = s
  BY <1>4, SetStatus DEF Request
<1> HIDE DEF r4
<1>6. /\ r5 \in Request /\ r5.pc = "write" /\ r5.app = a /\ r5.status = s
      /\ r5.stamp = n /\ r5.kind = k
  BY <1>5, SetStamp DEF Request
<1> HIDE DEF r5
<1>8. GoodRequest(r5)
  BY <1>6 DEF GoodRequest
<1> QED BY <1>6, <1>7, <1>8

\* The candidate cancels, or sets a status: if the row read has no applied_at
\* and the status is submitted, the update brings one.
LEMMA CandidateIInv ==
  ASSUME IInv, [Next]_vars, NEW w \in Requests,
         CancelQueued(w) \/ UpdateStatus(w)
  PROVE  IInv'
<1>1. CASE CancelQueued(w)
  <2>1. PICK a \in DOMAIN apps :
           req' = [req EXCEPT ![w] = Writing("cancel", a, "cancelled", Never)]
    BY <1>1 DEF CancelQueued, Become
  <2>2. "cancelled" \in Statuses /\ Never \in 0..MaxTime
    BY Nulls DEF Statuses
  <2> QED BY <1>1, <2>1, <2>2, WriteType, QuietStep DEF CancelQueued
<1>2. CASE UpdateStatus(w)
  <2>1. PICK a \in DOMAIN apps, s \in PatchStatuses :
           req' = [req EXCEPT ![w] =
                     Writing("update", a, s,
                        IF FirstSubmission(a, s) THEN clock ELSE Never)]
    BY <1>2 DEF UpdateStatus, Become
  <2> DEFINE n == IF FirstSubmission(a, s) THEN clock ELSE Never
  <2>2. s \in Statuses
    BY ApplicationBounds
  <2>3. n \in 0..MaxTime
    BY Nulls, Unpack, ApplicationBounds
  <2>4. s = "submitted" /\ n = Never => apps[a].appliedAt # Never
    BY Unpack, ApplicationBounds DEF FirstSubmission, Never
  <2>5. req' = [req EXCEPT ![w] = Writing("update", a, s, n)]
    BY <2>1
  <2> HIDE DEF n
  <2> QED BY <1>2, <2>2, <2>3, <2>4, <2>5, WriteType, QuietStep
          DEF UpdateStatus
<1> QED BY <1>1, <1>2

\* A request that ends, at any point.
LEMMA KillIInv ==
  ASSUME IInv, [Next]_vars, NEW w \in Requests, Kill(w)
  PROVE  IInv'
  BY IdleType, QuietStep DEF Kill, Become, D!Leave

-----------------------------------------------------------------------------
(* The steps that write applications, and the clock.                       *)

\* What is left of the invariant after a step that changes applications or the
\* clock and no documents.
LEMMA ApplicationsStep ==
  ASSUME IInv, NEW w \in Requests, NEW r \in Request,
         req' = [req EXCEPT ![w] = r], UNCHANGED <<docs, gen>>,
         apps' \in Seq(App), Len(apps') <= MaxApps,
         DOMAIN apps \subseteq DOMAIN apps',
         clock' \in 1..MaxTime, clock <= clock',
         \A a \in DOMAIN apps :
            /\ apps[a].deadline \in Nat /\ apps'[a].deadline = apps[a].deadline
            /\ apps'[a].auto = apps[a].auto
            /\ apps[a].appliedAt # Never => apps'[a].appliedAt # Never,
         OneApplicationPerPair', SubmittedIsDated',
         GoodRequest(r) \/ GoodRequest(r)'
  PROVE  IInv'
<1>1. D!IInv' /\ D!TypeOK'
  BY DocumentsStep DEF IInv, D!IInv
<1>2. TypeOK'
  BY <1>1 DEF IInv, TypeOK
<1>3. LinkedToExisting'
  BY DEF IInv, LinkedToExisting
<1>4. clock \in Nat /\ clock' \in Nat
  BY Unpack, ApplicationBounds
<1>5. ASSUME NEW x \in Requests PROVE GoodRequest(req[x])'
  <2>1. req'[x] = IF x = w THEN r ELSE req[x]
    BY DEF IInv, TypeOK
  <2>2. GoodRequest(req[x])
    BY DEF IInv
  <2>3. CASE x # w
    BY <1>4, <2>1, <2>2, <2>3, OthersStayGood DEF GoodRequest, WindowClosed
  <2>4. CASE x = w /\ GoodRequest(r)'
    BY <2>1, <2>4 DEF GoodRequest
  <2>5. CASE x = w /\ GoodRequest(r)
    BY <1>4, <2>1, <2>5, OthersStayGood DEF GoodRequest, WindowClosed
  <2> QED BY <2>3, <2>4, <2>5
<1> QED BY <1>1, <1>2, <1>3, <1>5 DEF IInv

\* What is known of the rows.
LEMMA AppRows ==
  ASSUME IInv
  PROVE  \A a \in DOMAIN apps :
            /\ apps[a] \in App /\ apps[a].deadline \in Nat
            /\ apps[a].appliedAt \in 0..MaxTime
            /\ a = 1 /\ apps[a].status \in Statuses
<1>1. apps \in Seq(App) /\ Len(apps) <= 1
  BY DEF IInv, TypeOK, OneApplicationPerPair
<1>2. \A a \in DOMAIN apps : apps[a] \in App /\ a = 1
  BY <1>1
<1> QED BY <1>2 DEF App

\* The UPDATE of a status.
LEMMA WriteIInv ==
  ASSUME IInv, NEW w \in Requests, WriteStatus(w)
  PROVE  IInv'
<1> DEFINE a == req[w].app
           s == req[w].status
           n == IF req[w].stamp = Never THEN apps[a].appliedAt ELSE req[w].stamp
           e1 == [apps[a] EXCEPT !.status = s]
           e == [e1 EXCEPT !.appliedAt = n]
<1>1. PICK outcome \in Outcomes :
         /\ apps' = IF Committed(outcome) THEN [apps EXCEPT ![a] = e] ELSE apps
         /\ AfterCall(w, outcome, Idle, Idle)
  BY DEF WriteStatus
<1>2. /\ req[w].pc = "write" /\ a \in DOMAIN apps /\ s \in Statuses
      /\ s = "submitted" => n # Never
      /\ UNCHANGED <<docs, gen, clock>>
  BY Unpack DEF WriteStatus, GoodRequest
<1>3. n \in 0..MaxTime /\ (apps[a].appliedAt # Never => n # Never)
  BY <1>2, AppRows, Unpack DEF Request
<1> HIDE DEF n
<1>4. PICK r \in Request : req' = [req EXCEPT ![w] = r] /\ GoodRequest(r)
  BY <1>1, IdleType, Unpack, Called
<1> HIDE DEF a, s
<1>5. apps[a] \in App
  BY <1>2, AppRows
<1>6. e1 \in App /\ e1.status = s /\ e1.deadline = apps[a].deadline
      /\ e1.auto = apps[a].auto
  BY <1>2, <1>5 DEF App
<1> HIDE DEF e1
<1>7. /\ e \in App /\ e.status = s /\ e.deadline = apps[a].deadline
      /\ e.auto = apps[a].auto /\ e.appliedAt = n
  BY <1>3, <1>6 DEF App
<1> HIDE DEF e
<1>8. apps \in Seq(App) /\ Len(apps) <= MaxApps /\ Len(apps) <= 1
  BY Unpack DEF IInv, OneApplicationPerPair
<1>9. /\ apps' \in Seq(App) /\ Len(apps') = Len(apps)
      /\ DOMAIN apps' = DOMAIN apps
      /\ \A b \in DOMAIN apps : apps'[b] = apps[b] \/ (apps'[b] = e /\ b = a)
  BY <1>1, <1>2, <1>7, <1>8
<1>10. \A b \in DOMAIN apps :
          /\ apps[b].deadline \in Nat /\ apps'[b].deadline = apps[b].deadline
          /\ apps'[b].auto = apps[b].auto
          /\ apps[b].appliedAt # Never => apps'[b].appliedAt # Never
  BY <1>3, <1>7, <1>9, AppRows
<1>11. OneApplicationPerPair'
  BY <1>8, <1>9 DEF OneApplicationPerPair
<1>12. SubmittedIsDated'
  BY <1>2, <1>7, <1>9 DEF IInv, SubmittedIsDated
<1>13. clock' \in 1..MaxTime /\ clock <= clock'
  BY <1>2, Unpack, ApplicationBounds
<1> QED BY <1>2, <1>4, <1>8, <1>9, <1>10, <1>11, <1>12, <1>13,
           ApplicationsStep

\* The clock only moves forward, past more deadlines.
LEMMA TickIInv ==
  ASSUME IInv, Tick
  PROVE  IInv'
<1>1. /\ clock' \in 1..MaxTime /\ clock <= clock' /\ clock \in Nat
      /\ UNCHANGED <<docs, gen, apps, req>>
  BY ApplicationBounds DEF Tick, IInv, TypeOK
<1>2. D!IInv' /\ D!TypeOK'
  BY <1>1, DocumentsStep DEF IInv, D!IInv
<1>3. TypeOK'
  BY <1>1, <1>2 DEF IInv, TypeOK
<1>4. /\ OneApplicationPerPair' /\ SubmittedIsDated' /\ LinkedToExisting'
  BY <1>1 DEF IInv, OneApplicationPerPair, SubmittedIsDated, LinkedToExisting
<1>5. ASSUME NEW x \in Requests PROVE GoodRequest(req[x])'
  <2>1. GoodRequest(req[x])
    BY DEF IInv
  <2> QED BY <1>1, <2>1, AppRows DEF GoodRequest, WindowClosed
<1> QED BY <1>2, <1>3, <1>4, <1>5 DEF IInv

\* The INSERT of an application, which the unique index refuses if there is one.
LEMMA InsertIInv ==
  ASSUME IInv, NEW w \in Requests, InsertApplication(w)
  PROVE  IInv'
<1> DEFINE r0 == [[req[w] EXCEPT !.app = Len(apps) + 1] EXCEPT !.stamp = Never]
           ack == ForDocument(r0, "cv")
<1>1. PICK outcome \in Outcomes, window \in UndoWindows :
         /\ Committed(outcome) => Accepts
         /\ IF Committed(outcome)
            THEN /\ Len(apps) < MaxApps
                 /\ apps' = Append(apps,
                       IF req[w].kind = "auto"
                       THEN [status |-> "queued", auto |-> TRUE,
                             deadline |-> req[w].stamp + window, appliedAt |-> Never]
                       ELSE [status |-> "draft", auto |-> FALSE,
                             deadline |-> Never, appliedAt |-> Never])
            ELSE UNCHANGED apps
         /\ AfterCall(w, outcome, ack, Idle)
  BY DEF InsertApplication
<1>2. UNCHANGED <<docs, gen, clock>> /\ req[w].pc = "insert"
  BY DEF InsertApplication
<1>3. CASE ~Committed(outcome)
  <2>1. UNCHANGED apps /\ AfterCall(w, outcome, Idle, Idle)
    BY <1>1, <1>3 DEF AfterCall, Committed
  <2>2. PICK r \in Request : req' = [req EXCEPT ![w] = r] /\ GoodRequest(r)
    BY <2>1, IdleType, Unpack, Called
  <2>3. LinkedToExisting'
    BY <1>2, <2>1 DEF IInv, LinkedToExisting
  <2> QED BY <1>2, <2>1, <2>2, <2>3, RequestStep
<1>4. CASE Committed(outcome)
  <2>1. apps = <<>> /\ 1 <= MaxApps
    BY <1>1, <1>4, ApplicationBounds DEF Accepts
  <2> DEFINE queued == [status |-> "queued", auto |-> TRUE,
                        deadline |-> req[w].stamp + window, appliedAt |-> Never]
             draft == [status |-> "draft", auto |-> FALSE,
                       deadline |-> Never, appliedAt |-> Never]
             e == IF req[w].kind = "auto" THEN queued ELSE draft
  <2>2. apps' = <<e>>
    BY <1>1, <1>4, <2>1
  <2>3. req[w].stamp + window \in Nat
    BY Unpack, ApplicationBounds DEF Request
  <2>4. queued \in App /\ draft \in App
    BY <2>3, Nulls DEF App, Statuses
  <2>5. e \in App /\ e.status \in {"queued", "draft"}
    BY <2>4
  <2> HIDE DEF queued, draft, e
  <2>6. apps' \in Seq(App) /\ Len(apps') = 1 /\ apps'[1] = e /\ DOMAIN apps' = {1}
    BY <2>2, <2>5
  <2>7. OneApplicationPerPair' /\ SubmittedIsDated'
    BY <2>5, <2>6 DEF OneApplicationPerPair, SubmittedIsDated
  <2>8. PICK r \in Request :
           req' = [req EXCEPT ![w] = r] /\ (GoodRequest(r) \/ GoodRequest(r)')
    <3>1. r0 \in Request /\ r0.app = 1
      <4>1. Len(apps) + 1 = 1 /\ 1 \in AppId
        BY <2>1, ApplicationBounds DEF AppId, D!AppId
      <4> DEFINE r1 == [req[w] EXCEPT !.app = Len(apps) + 1]
      <4>2. r1 \in Request /\ r1.app = 1
        <5>1. req[w] \in Request /\ Len(apps) + 1 \in AppId \cup {NoApp}
          BY <4>1, Unpack
        <5>2. r1 \in Request
          BY <5>1, SetApp
        <5>3. r1.app = Len(apps) + 1
          BY <5>1 DEF Request
        <5> QED BY <4>1, <5>2, <5>3
      <4> HIDE DEF r1
      <4>3. [r1 EXCEPT !.stamp = Never] \in Request
            /\ [r1 EXCEPT !.stamp = Never].app = 1
        BY <4>2, Nulls, SetStamp DEF Request
      <4> QED BY <4>3 DEF r1
    <3> HIDE DEF r0
    <3>2. /\ ack \in Request
          /\ \/ ack = Idle
             \/ /\ ack.pc \in {"tailor", "find"} /\ ack.app = 1
                /\ ack.type \in DocTypes
      BY <3>1, ForDocumentFields DEF DocTypes
    <3> HIDE DEF ack
    <3>3. PICK r \in Request :
             /\ req' = [req EXCEPT ![w] = r]
             /\ (r = ack /\ outcome = "ok") \/ GoodRequest(r)
      BY <1>1, <3>2, IdleType, Unpack, Called
    <3>4. CASE GoodRequest(r)
      BY <3>3, <3>4
    <3>5. CASE r = ack
      <4>1. \/ GoodRequest(r)
            \/ /\ r.pc \in {"tailor", "find"} /\ r.app = 1 /\ r.type \in DocTypes
        BY <3>2, <3>5, IdleType
      <4>2. GoodRequest(r) \/ GoodRequest(r)'
        BY <2>6, <4>1 DEF GoodRequest
      <4> QED BY <3>3, <4>2
    <3> QED BY <3>3, <3>4, <3>5
  <2>9. clock' \in 1..MaxTime /\ clock <= clock'
    BY <1>2, Unpack, ApplicationBounds
  <2>10. DOMAIN apps = {}
    BY <2>1
  <2> QED BY <1>2, <2>1, <2>6, <2>7, <2>8, <2>9, <2>10, ApplicationsStep
<1> QED BY <1>3, <1>4

\* The inductive step.
LEMMA NextIInv == IInv /\ [Next]_vars => IInv'
<1> SUFFICES ASSUME IInv, [Next]_vars PROVE IInv'
  OBVIOUS
<1>1. ASSUME NEW w \in Requests, Applying(w)
      PROVE  IInv'
  BY <1>1, CheckIInv, InsertIInv, TailorIInv, TakeIInv, LinkIInv DEF Applying
<1>2. ASSUME NEW w \in Requests, Generating(w)
      PROVE  IInv'
  BY <1>2, GeneratingIInv
<1>3. ASSUME NEW w \in Requests, Handling(w)
      PROVE  IInv'
  BY <1>3, ListingIInv, CandidateIInv, WriteIInv DEF Handling
<1>4. ASSUME NEW w \in Requests, Kill(w)
      PROVE  IInv'
  BY <1>4, KillIInv
<1>5. CASE Tick
  BY <1>5, TickIInv
<1>6. CASE UNCHANGED vars
  <2>1. UNCHANGED <<docs, gen, apps, req, clock>>
    BY <1>6 DEF vars
  <2>2. D!IInv' /\ D!TypeOK'
    BY <2>1, DocumentsStep DEF IInv, D!IInv
  <2>3. TypeOK'
    BY <2>1, <2>2 DEF IInv, TypeOK
  <2> QED BY <2>1, <2>2, <2>3
          DEF IInv, OneApplicationPerPair, SubmittedIsDated,
              LinkedToExisting, GoodRequest, WindowClosed
<1> QED BY <1>1, <1>2, <1>3, <1>4, <1>5, <1>6 DEF Next

-----------------------------------------------------------------------------
\* A row that becomes ready_to_submit has been written so by a status update:
\* rows are created queued or draft, and nothing else writes a status.
LEMMA ReadyIsWritten ==
  ASSUME IInv, Next, NEW a \in DOMAIN apps,
         apps[a].status # "ready_to_submit", apps'[a].status = "ready_to_submit"
  PROVE  \E x \in Requests : WriteStatus(x) /\ req[x].status = "ready_to_submit"
<1>1. apps' # apps
  OBVIOUS
<1>2. apps # <<>>
  BY AppRows
<1>3. ASSUME NEW x \in Requests, InsertApplication(x)
      PROVE  UNCHANGED apps
  BY <1>2, <1>3 DEF InsertApplication, Accepts
<1>4. PICK x \in Requests : WriteStatus(x)
  <2>1. ASSUME NEW x \in Requests, Applying(x)
        PROVE  UNCHANGED apps
    BY <1>3, <2>1
       DEF Applying, Apply, CheckExisting, Tailor, TakeDocument, FindDocument,
           LinkDocument
  <2>2. ASSUME NEW x \in Requests, Generating(x) \/ Kill(x)
        PROVE  UNCHANGED apps
    BY <2>2 DEF Generating, GenerateDocument, Generation, AnswerGeneration, Kill
  <2>3. ASSUME NEW x \in Requests, Handling(x), ~WriteStatus(x)
        PROVE  UNCHANGED apps
    BY <2>3 DEF Handling, ListApplications, AdvanceExpired, CancelQueued,
                UpdateStatus
  <2> QED BY <1>1, <2>1, <2>2, <2>3 DEF Next, Tick
<1>5. /\ apps \in Seq(App) /\ req[x].app \in DOMAIN apps
  BY <1>4, Unpack DEF WriteStatus, GoodRequest
<1>6. a = 1 /\ req[x].app = 1
  BY <1>5, AppRows
<1>7. apps[1] \in App
  BY <1>6, AppRows
<1>8. PICK outcome \in Outcomes :
         apps' = IF Committed(outcome)
                 THEN [apps EXCEPT ![req[x].app].status = req[x].status,
                                   ![req[x].app].appliedAt =
                          IF req[x].stamp = Never THEN @ ELSE req[x].stamp]
                 ELSE apps
  BY <1>4 DEF WriteStatus
<1>9. req[x].status = "ready_to_submit"
  BY <1>1, <1>5, <1>6, <1>7, <1>8 DEF App
<1> QED BY <1>4, <1>9

-----------------------------------------------------------------------------
\* The inductive invariant holds in every reachable state.
THEOREM Inductive == Spec => []IInv
  BY InitIInv, NextIInv, PTL DEF Spec

\* Rows and requests are well typed, and no call is tried more than
\* MaxAttempts times.
THEOREM TypeCorrect == Spec => []TypeOK
<1>1. IInv => TypeOK
  BY DEF IInv
<1> QED BY <1>1, Inductive, PTL

\* However many requests and runs apply at once, and however their checks and
\* retried inserts interleave, the pair has at most one application.
THEOREM OneApplication == Spec => []OneApplicationPerPair
<1>1. IInv => OneApplicationPerPair
  BY DEF IInv
<1> QED BY <1>1, Inductive, PTL

\* A submitted application has its applied_at, although the update that wrote
\* the status may have found it set by another one.
THEOREM SubmittedHasADate == Spec => []SubmittedIsDated
<1>1. IInv => SubmittedIsDated
  BY DEF IInv
<1> QED BY <1>1, Inductive, PTL

\* An application that becomes ready_to_submit inside its undo window was made
\* so by the candidate's own PATCH: no listing or cancellation does it, however
\* old the row it has read is.
THEOREM NeverReadyEarly == Spec => AdvancesOnlyExpired
<1> DEFINE Expired ==
        \A a \in DOMAIN apps, w \in Requests :
            /\ req'[w] # req[w]
            /\ apps[a].status # "ready_to_submit"
            /\ apps'[a].status = "ready_to_submit"
            => \/ req[w].kind = "update"
               \/ apps[a].auto /\ apps[a].deadline <= clock
<1>1. IInv /\ [Next]_vars => [Expired]_vars
  <2> SUFFICES ASSUME IInv, Next, NEW a \in DOMAIN apps, NEW w \in Requests,
                      req'[w] # req[w],
                      apps[a].status # "ready_to_submit",
                      apps'[a].status = "ready_to_submit"
               PROVE  \/ req[w].kind = "update"
                      \/ apps[a].auto /\ apps[a].deadline <= clock
    BY DEF vars
  <2>1. PICK x \in Requests :
           WriteStatus(x) /\ req[x].status = "ready_to_submit"
    BY ReadyIsWritten
  <2>2. x = w
    BY <2>1, Unpack DEF WriteStatus, AfterCall, Become, IInv, TypeOK
  <2>3. /\ GoodRequest(req[w]) /\ req[w].pc = "write"
        /\ req[w].app \in DOMAIN apps /\ req[w].status = "ready_to_submit"
    BY <2>1, <2>2, Unpack DEF WriteStatus, GoodRequest
  <2>4. a = 1 /\ req[w].app = 1
    BY <2>3, AppRows
  <2> QED BY <2>3, <2>4 DEF GoodRequest, WindowClosed
<1> QED BY <1>1, Inductive, PTL DEF Spec, AdvancesOnlyExpired

\* A link is never overwritten by another one: there is one application only
\* that a document of the pair could be linked to.
THEOREM LinksStay == Spec => LinksAreStable
<1> DEFINE Stable == \A d \in DOMAIN docs :
                        docs[d].app # NoApp => docs'[d].app = docs[d].app
<1>1. IInv /\ IInv' /\ [Next]_vars => [Stable]_docs
  <2> SUFFICES ASSUME IInv, IInv', [Next]_vars PROVE Stable
    OBVIOUS
  <2>1. DOMAIN docs \subseteq DOMAIN docs'
    BY StepOfDocuments, RowsStay DEF IInv, TypeOK
  <2>2. ASSUME NEW d \in DOMAIN docs, docs[d].app # NoApp
        PROVE  docs'[d].app = docs[d].app
    <3>1. docs[d].app = 1
      BY <2>2, AppRows DEF IInv, LinkedToExisting
    <3>2. docs'[d].app # NoApp
      BY <2>2, LinkKept, StepOfDocuments DEF IInv, TypeOK
    <3>3. docs'[d].app \in DOMAIN apps' /\ apps' \in Seq(App) /\ Len(apps') <= 1
      BY <2>1, <2>2, <3>2
         DEF IInv, LinkedToExisting, TypeOK, OneApplicationPerPair
    <3>4. docs'[d].app = 1
      BY <3>3
    <3> QED BY <3>1, <3>4
  <2> QED BY <2>2
<1> QED BY <1>1, Inductive, PTL DEF Spec, LinksAreStable
=============================================================================

--------------------------- MODULE Applications ---------------------------
(***************************************************************************)
(* The application of one (track, job) pair and its documents.             *)
(*                                                                         *)
(* Four kinds of actors meet on the pair: background matching runs, whose  *)
(* maybe_auto_apply queues an application and then tailors documents for   *)
(* it; users who apply by hand; users who cancel or move an application    *)
(* on; and every listing of the track, which advances queued applications  *)
(* whose undo window has closed.  Each reads the row, decides, and writes  *)
(* in a later call that is not conditional on what it has read.            *)
(*                                                                         *)
(* The only thing the database adds is the unique index of migration 0010  *)
(* on (cv_track_id, job_id).  Documents is the component for the rows of   *)
(* generated_documents; generations of this module are generations of it.  *)
(***************************************************************************)
EXTENDS Naturals, Sequences, DatabaseCalls

CONSTANTS
    Requests,        \* slots for HTTP requests and background runs
    MaxDocs,         \* bound: generated_documents rows of the pair
    MaxApps,         \* bound: rows the table could hold without the index
    MaxTime,         \* bound: the clock
    UndoWindows,     \* undo_window_minutes a track may have (0, 5, 15, 30)
    PatchStatuses    \* bound: the statuses PATCH requests ask for

\* ApplicationStatus.  The PATCH endpoint accepts each of them at any time;
\* the theorems hold for every PatchStatuses, all of Statuses included.
Statuses ==
    {"draft", "queued", "ready_to_submit", "submitted", "interviewing",
     "rejected", "offer", "withdrawn", "needs_attention", "cancelled"}

ASSUME ApplicationBounds ==
    /\ MaxDocs \in Nat /\ MaxApps \in Nat /\ MaxTime \in Nat \ {0}
    /\ UndoWindows \subseteq Nat
    /\ PatchStatuses \subseteq Statuses

VARIABLES
    docs,     \* Documents: the generated_documents rows
    gen,      \* Documents: what each request's generation is doing
    apps,     \* the applications rows, in insertion order
    req,      \* what each request or background run is doing
    clock     \* the current time

vars == <<docs, gen, apps, req, clock>>

DocTypes == {"cv", "cover_letter", "screening_answer"}
D == INSTANCE Documents

AppId == D!AppId
NoApp == D!NoApp
NoDoc == D!NoDoc
Never == 0    \* a timestamp that is null

App == [status : Statuses,
        auto : BOOLEAN,                 \* auto_applied
        deadline : Nat,                 \* undo_deadline; Never unless auto
        appliedAt : 0..MaxTime]         \* applied_at

\* "apply": maybe_auto_apply or create_application before its check; "insert":
\* before its INSERT; "tailor": auto-apply before generating a document,
\* "await": while it does; "find": create_application before looking for a
\* document; "link": before set_application_id; "listed": a listing that has
\* read the row; "write": before the UPDATE of the status; "generate": a
\* generation endpoint.
Steps == {"idle", "apply", "insert", "tailor", "await", "find", "link",
          "listed", "write", "generate"}

Request == [pc : Steps,
            kind : {"none", "auto", "manual", "listing", "cancel", "update"},
            app : AppId \cup {NoApp},           \* the row created or addressed
            seen : Statuses \cup {"none"},      \* listing: the status read
            status : Statuses \cup {"none"},    \* the status to be written
            stamp : 0..MaxTime,                 \* insert: queued_at; write:
                                                \* applied_at, if it is set
            type : DocTypes \cup {"none"},      \* documents: the one in turn
            doc : 0..MaxDocs,                   \* the document to be linked
            tries : 0..MaxAttempts]             \* failed attempts of the call

Idle == [pc |-> "idle", kind |-> "none", app |-> NoApp, seen |-> "none",
         status |-> "none", stamp |-> Never, type |-> "none", doc |-> NoDoc,
         tries |-> 0]

TypeOK ==
    /\ D!TypeOK
    /\ apps \in Seq(App) /\ Len(apps) <= MaxApps
    /\ req \in [Requests -> Request]
    /\ clock \in 1..MaxTime

Init ==
    /\ D!Init
    /\ apps = <<>>
    /\ req = [w \in Requests |-> Idle]
    /\ clock = 1

-----------------------------------------------------------------------------
(* The parts of the operations.                                            *)

Become(w, r) == req' = [req EXCEPT ![w] = r]
At(w, pc) == [req[w] EXCEPT !.pc = pc, !.tries = 0]

\* The request after an attempt of its call.
AfterCall(w, outcome, acknowledged, raised) ==
    Become(w, IF outcome = "ok" THEN acknowledged
              ELSE IF Retries(req[w].tries, outcome)
                   THEN [req[w] EXCEPT !.tries = @ + 1]
                   ELSE raised)

\* Mutant: the schema before migration 0010.
MutantAccepts == TRUE

\* uq_applications_track_job: the insert is refused with 409/23505 when the
\* pair has an application.
Accepts == apps = <<>>

\* The document whose turn it is after t, as auto-apply and create_application
\* go through the types; then the request is done.
NextType(kind, t) ==
    IF t = "cv" THEN "cover_letter"
    ELSE IF t = "cover_letter" /\ kind = "manual" THEN "screening_answer"
    ELSE "none"

\* The request turned to the first or the next document.
ForDocument(r, t) ==
    IF t = "none" THEN Idle
    ELSE [r EXCEPT !.pc = IF r.kind = "auto" THEN "tailor" ELSE "find",
                   !.type = t, !.doc = NoDoc, !.tries = 0]
NextDocument(w) == ForDocument(req[w], NextType(req[w].kind, req[w].type))

-----------------------------------------------------------------------------
(* Applying: maybe_auto_apply and create_application.                      *)

\* A matching run upserts a match that clears the track's threshold, or a user
\* applies to a job that is matched.
Apply(w) ==
    /\ req[w].pc = "idle"
    /\ \E kind \in {"auto", "manual"} :
          Become(w, [Idle EXCEPT !.pc = "apply", !.kind = kind])
    /\ UNCHANGED <<docs, gen, apps, clock>>

\* get_application_for_job_and_track: nothing more to do (or 409) if the pair
\* has an application.
CheckExisting(w) ==
    /\ req[w].pc = "apply"
    /\ Become(w, IF apps = <<>>
                 THEN [At(w, "insert") EXCEPT !.stamp = clock]
                 ELSE Idle)
    /\ UNCHANGED <<docs, gen, apps, clock>>

\* create_queued_application, with the deadline counted from now, and
\* create_application.  A refused insert ends the request: auto-apply backs
\* off, and so it does when it is its own lost insert it meets on the retry.
InsertApplication(w) ==
    /\ req[w].pc = "insert"
    /\ \E outcome \in Outcomes, window \in UndoWindows :
          /\ Committed(outcome) => Accepts
          /\ IF Committed(outcome)
             THEN /\ Len(apps) < MaxApps
                  /\ apps' = Append(apps,
                        IF req[w].kind = "auto"
                        THEN [status |-> "queued", auto |-> TRUE,
                              deadline |-> req[w].stamp + window, appliedAt |-> Never]
                        ELSE [status |-> "draft", auto |-> FALSE,
                              deadline |-> Never, appliedAt |-> Never])
             ELSE UNCHANGED apps
          /\ AfterCall(w, outcome,
                ForDocument([req[w] EXCEPT !.app = Len(apps) + 1,
                                          !.stamp = Never], "cv"), Idle)
    /\ UNCHANGED <<docs, gen, clock>>

\* maybe_auto_apply calls generate_tailored_cv, then generate_cover_letter.
Tailor(w) ==
    /\ req[w].pc = "tailor"
    /\ D!Generate(w, req[w].type)
    /\ Become(w, At(w, "await"))
    /\ UNCHANGED <<apps, clock>>

\* The generation returns its document, or raises and is passed over.
TakeDocument(w) ==
    /\ req[w].pc = "await"
    /\ \/ /\ gen[w].pc = "saved"
          /\ Become(w, [At(w, "link") EXCEPT !.doc = gen[w].doc])
       \/ /\ gen[w].pc = "failed"
          /\ Become(w, NextDocument(w))
    /\ D!Leave(w)
    /\ UNCHANGED <<apps, clock>>

\* create_application: the latest document of the type in turn, if it is not
\* linked to an application yet.
FindDocument(w) ==
    /\ req[w].pc = "find"
    /\ \/ \E d \in DOMAIN docs :
             /\ D!IsLatest(req[w].type, d)
             /\ Become(w, IF docs[d].app = NoApp
                          THEN [At(w, "link") EXCEPT !.doc = d]
                          ELSE NextDocument(w))
       \/ /\ D!OfType(req[w].type) = {}
          /\ Become(w, NextDocument(w))
    /\ UNCHANGED <<docs, gen, apps, clock>>

\* set_application_id.  Auto-apply passes over an exception, create_application
\* fails with it.
LinkDocument(w) ==
    /\ req[w].pc = "link"
    /\ \E outcome \in Outcomes :
          /\ IF Committed(outcome)
             THEN D!SetApplicationId(req[w].doc, req[w].app)
             ELSE UNCHANGED <<docs, gen>>
          /\ AfterCall(w, outcome, NextDocument(w),
                IF req[w].kind = "auto" THEN NextDocument(w) ELSE Idle)
    /\ UNCHANGED <<apps, clock>>

-----------------------------------------------------------------------------
(* The generation endpoints, which link nothing.                           *)

GenerateDocument(w) ==
    /\ req[w].pc = "idle"
    /\ \E t \in DocTypes : D!Generate(w, t)
    /\ Become(w, At(w, "generate"))
    /\ UNCHANGED <<apps, clock>>

\* The steps of a generation, whoever has asked for it.
Generation(w) ==
    /\ D!GenerationStep(w)
    /\ UNCHANGED <<apps, req, clock>>

AnswerGeneration(w) ==
    /\ req[w].pc = "generate" /\ gen[w].pc \in {"saved", "failed"}
    /\ D!Leave(w)
    /\ Become(w, Idle)
    /\ UNCHANGED <<apps, clock>>

-----------------------------------------------------------------------------
(* The life of an application: list, cancel, update.                       *)

\* list_applications_for_track's SELECT.
ListApplications(w) ==
    /\ req[w].pc = "idle"
    /\ \E a \in DOMAIN apps :
          Become(w, [Idle EXCEPT !.pc = "listed", !.kind = "listing",
                                 !.app = a, !.seen = apps[a].status])
    /\ UNCHANGED <<docs, gen, apps, clock>>

\* Mutant: the list returned is advanced, the table is not.
MutantAdvanceExpired(w) ==
    /\ req[w].pc = "listed"
    /\ Become(w, Idle)
    /\ UNCHANGED <<docs, gen, apps, clock>>

\* Mutant: the undo window ignored.
MutantWindowClosed(a) == TRUE

\* undo_deadline <= now
WindowClosed(a) == apps[a].auto /\ apps[a].deadline <= clock

\* advance_expired_queued's test of the row as it was read.
AdvanceExpired(w) ==
    /\ req[w].pc = "listed"
    /\ Become(w, IF req[w].seen = "queued" /\ WindowClosed(req[w].app)
                 THEN [At(w, "write") EXCEPT !.status = "ready_to_submit"]
                 ELSE Idle)
    /\ UNCHANGED <<docs, gen, apps, clock>>

\* A request of the candidate before its UPDATE of row a.
Writing(kind, a, status, stamp) ==
    [Idle EXCEPT !.pc = "write", !.kind = kind, !.app = a,
                 !.status = status, !.stamp = stamp]

\* cancel_queued_application: 400 unless the row it reads is queued.
CancelQueued(w) ==
    /\ req[w].pc = "idle"
    /\ \E a \in DOMAIN apps :
          /\ apps[a].status = "queued"
          /\ Become(w, Writing("cancel", a, "cancelled", Never))
    /\ UNCHANGED <<docs, gen, apps, clock>>

\* Mutant: applied_at belongs to the step from draft to submitted.
MutantFirstSubmission(a, status) ==
    status = "submitted" /\ apps[a].appliedAt = Never /\ apps[a].status = "draft"

\* update_status sets applied_at if the row it reads has none.
FirstSubmission(a, status) ==
    status = "submitted" /\ apps[a].appliedAt = Never

\* update_application_status up to the UPDATE.
UpdateStatus(w) ==
    /\ req[w].pc = "idle"
    /\ \E a \in DOMAIN apps, status \in PatchStatuses :
          Become(w, Writing("update", a, status,
                       IF FirstSubmission(a, status) THEN clock ELSE Never))
    /\ UNCHANGED <<docs, gen, apps, clock>>

\* The UPDATE that ends a listing, a cancellation or an update, whatever the
\* row says by then.
WriteStatus(w) ==
    /\ req[w].pc = "write"
    /\ \E outcome \in Outcomes :
          /\ apps' = IF Committed(outcome)
                     THEN [apps EXCEPT ![req[w].app].status = req[w].status,
                                       ![req[w].app].appliedAt =
                              IF req[w].stamp = Never THEN @ ELSE req[w].stamp]
                     ELSE apps
          /\ AfterCall(w, outcome, Idle, Idle)
    /\ UNCHANGED <<docs, gen, clock>>

-----------------------------------------------------------------------------
(* The platform.                                                           *)

\* The request ends: a read raises, or the platform kills the invocation.
Kill(w) ==
    /\ req[w].pc # "idle"
    /\ Become(w, Idle)
    /\ IF gen[w].pc = "idle" THEN UNCHANGED <<docs, gen>> ELSE D!Leave(w)
    /\ UNCHANGED <<apps, clock>>

Tick ==
    /\ clock < MaxTime
    /\ clock' = clock + 1
    /\ UNCHANGED <<docs, gen, apps, req>>

Applying(w) ==
    \/ Apply(w) \/ CheckExisting(w) \/ InsertApplication(w) \/ Tailor(w)
    \/ TakeDocument(w) \/ FindDocument(w) \/ LinkDocument(w)
Generating(w) == GenerateDocument(w) \/ Generation(w) \/ AnswerGeneration(w)
Handling(w) ==
    \/ ListApplications(w) \/ AdvanceExpired(w)
    \/ CancelQueued(w) \/ UpdateStatus(w) \/ WriteStatus(w)

Next ==
    \/ \E w \in Requests :
          Applying(w) \/ Generating(w) \/ Handling(w) \/ Kill(w)
    \/ Tick

Spec == Init /\ [][Next]_vars

-----------------------------------------------------------------------------
(* Safety.                                                                 *)

\* The pair has at most one application, whoever applies and however their
\* checks interleave: overlapping matching runs, a user who double-clicks, an
\* insert that is retried after its response was lost.
OneApplicationPerPair == Len(apps) <= 1

\* A document stays with the application it was linked to.  set_application_id
\* does not look at what it overwrites: create_application decides from an
\* earlier read, auto-apply links without one.
LinksAreStable ==
    [][\A d \in DOMAIN docs :
          docs[d].app # NoApp => docs'[d].app = docs[d].app]_docs

\* An application that says 'submitted' has an applied_at, although the update
\* that wrote the status may have left applied_at to another one it had read.
SubmittedIsDated ==
    \A a \in DOMAIN apps :
        apps[a].status = "submitted" => apps[a].appliedAt # Never

\* Only the candidate's own PATCH makes an application ready_to_submit inside
\* its undo window: no listing does, however long ago it read the row and
\* whatever has been written to it since.
AdvancesOnlyExpired ==
    [][\A a \in DOMAIN apps, w \in Requests :
          /\ req'[w] # req[w]
          /\ apps[a].status # "ready_to_submit"
          /\ apps'[a].status = "ready_to_submit"
          => \/ req[w].kind = "update"
             \/ apps[a].auto /\ apps[a].deadline <= clock]_vars

\* The claim of the docstring that a queued application advances "unless
\* cancelled".  The unconditional update of a listing that has read the row
\* before it was cancelled refutes it.
CancelledNeverAdvances ==
    [][\A a \in DOMAIN apps :
          apps[a].status = "cancelled" => apps'[a].status # "ready_to_submit"
       ]_apps

-----------------------------------------------------------------------------
(* The inductive invariant behind the safety properties.                   *)

\* A document is linked to nothing or to a row that exists.
LinkedToExisting ==
    \A d \in DOMAIN docs :
        docs[d].app = NoApp \/ docs[d].app \in DOMAIN apps

\* What a request has read and still relies on.
GoodRequest(r) ==
    /\ r.pc \in {"tailor", "await", "find", "link", "listed", "write"} =>
          r.app \in DOMAIN apps
    /\ r.pc \in {"tailor", "await", "find", "link"} => r.type \in DocTypes
    /\ r.pc = "link" => r.doc \in DOMAIN docs
    /\ r.pc = "listed" => r.kind = "listing"
    /\ r.pc = "write" =>
          /\ r.status \in Statuses
          /\ r.status = "submitted" /\ r.stamp = Never =>
                apps[r.app].appliedAt # Never
          /\ r.kind \in {"listing", "cancel", "update"}
          /\ r.kind = "listing" =>
                r.status = "ready_to_submit" /\ WindowClosed(r.app)
          /\ r.kind = "cancel" => r.status = "cancelled"

IInv ==
    /\ D!IInv
    /\ TypeOK
    /\ OneApplicationPerPair
    /\ SubmittedIsDated
    /\ LinkedToExisting
    /\ \A w \in Requests : GoodRequest(req[w])

-----------------------------------------------------------------------------
(* Liveness.                                                               *)

\* Somebody looks at the track again and again, what has been started is
\* finished or killed, and a listing that is tried again and again gets
\* through.  Nothing is assumed of anybody applying, cancelling or updating.
Fairness ==
    /\ WF_vars(Tick)
    /\ \A w \in Requests :
          /\ WF_vars(Kill(w))
          /\ SF_vars(ListApplications(w))
          /\ SF_vars(AdvanceExpired(w))
          /\ SF_vars(WriteStatus(w) /\ req[w].kind = "listing"
                       /\ apps'[req[w].app].status = req[w].status)

FairSpec == Spec /\ Fairness

\* An application whose undo window has closed does not stay queued for ever:
\* nothing but listings advances it, and each of them may be killed half-way or
\* be looking at the row as it was.
QueuedIsSettled ==
    (apps # <<>> /\ apps[1].status = "queued" /\ WindowClosed(1))
        ~> (apps # <<>> /\ apps[1].status # "queued")
=============================================================================

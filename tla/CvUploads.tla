----------------------------- MODULE CvUploads -----------------------------
(***************************************************************************)
(* CV uploads and the profile they build, for one candidate.               *)
(*                                                                         *)
(* POST /profile/cv-upload inserts a cv_uploads row and, after the         *)
(* response, extracts the text of the file, has the LLM parse it and saves *)
(* what it found: the profile, then each list entry.  Every save looks the *)
(* entry up by its key and updates or inserts it; only some of the tables  *)
(* have a unique index behind that lookup.  The row is then marked as      *)
(* completed or, by the except block, as failed.  Nothing reaps the row of *)
(* an invocation the platform has killed.                                  *)
(*                                                                         *)
(* POST /profile/cover-letter-sample is the same lookup and write of one   *)
(* row, in the request itself.                                             *)
(***************************************************************************)
EXTENDS Sequences, DatabaseCalls

CONSTANTS
    Slots,        \* the invocations the platform runs
    Kind,         \* Kind[e]: how entry e is stored, see Kinds
    CVs,          \* what the LLM may find: sequences of entries, a profile first
    MaxUploads,   \* bound: rows of cv_uploads
    LLMRetries,   \* max_retries of generate_text (5)
    MaxFaults     \* bound: lost or failed calls and kills

Entries == DOMAIN Kind

(* How an entry is stored.                                                 *)
(*   "profile"   candidate_profiles, unique user_id                        *)
(*   "catalog"   skills, unique name: found or inserted, never updated     *)
(*   "link"      candidate_skills, unique (profile_id, skill_id)           *)
(*   "keyed"     work_experience (company, title), education (institution, *)
(*               degree), certifications (name), languages (language):     *)
(*               no index                                                  *)
(*   "unkeyed"   education without a degree: eq.None finds no NULL         *)
(*   "project"   projects: inserted without a lookup                       *)
(*   "sample"    cover_letter_style_samples, unique user_id                *)
Kinds == {"profile", "catalog", "link", "keyed", "unkeyed", "project", "sample"}
Indexed == {"profile", "catalog", "link", "sample"}
LookedUp == Indexed \cup {"keyed"}

ASSUME UploadsAssumption ==
    /\ Kind \in [Entries -> Kinds]
    /\ CVs \subseteq Seq({e \in Entries : Kind[e] # "sample"}) \ {<<>>}
    /\ MaxUploads \in Nat /\ LLMRetries \in Nat /\ MaxFaults \in Nat

VARIABLES
    uploads,    \* cv_uploads
    next,       \* the row the next insert creates
    stored,     \* how many rows an entry has
    task,       \* what each invocation is doing
    disturbed,  \* history: two invocations overlapped or an insert's reply
                \* was lost
    lost,       \* history: uploads whose invocation was killed, or for which
                \* the call that creates the row or marks it as failed failed
    faults      \* failures so far

vars == <<uploads, next, stored, task, disturbed, lost, faults>>

UploadId == 1..MaxUploads

\* cv: what the completed row claims is saved (history).
Upload == [status : {"absent", "processing", "completed", "failed"},
           cv : CVs \cup {<<>>}]

Steps == {"idle", "create", "extract", "llm", "find", "write", "complete", "fail"}

Task == [pc : Steps,
         upload : {0} \cup UploadId,   \* its row; 0: none, or a sample request
         cv : CVs \cup {<<>>},
         todo : Seq(Entries),          \* entries to save
         found : BOOLEAN,              \* the lookup found a row
         limited : 0..LLMRetries,      \* 429 answers waited for
         tries : 0..MaxAttempts]

Idle == [pc |-> "idle", upload |-> 0, cv |-> <<>>, todo |-> <<>>,
         found |-> FALSE, limited |-> 0, tries |-> 0]

\* The types.  What a lookup found is not kept for the next entry.
TypeOK ==
    /\ uploads \in [UploadId -> Upload] /\ next \in 1..(MaxUploads + 1)
    /\ stored \in [Entries -> Nat] /\ task \in [Slots -> Task]
    /\ disturbed \in BOOLEAN /\ lost \subseteq UploadId /\ faults \in 0..MaxFaults
    /\ \A t \in Slots : task[t].found => task[t].pc \in {"write", "fail"}

Init ==
    /\ uploads = [u \in UploadId |-> [status |-> "absent", cv |-> <<>>]]
    /\ next = 1
    /\ stored = [e \in Entries |-> 0]
    /\ task = [t \in Slots |-> Idle]
    /\ disturbed = FALSE /\ lost = {} /\ faults = 0

-----------------------------------------------------------------------------
(* Helpers.                                                                *)

Become(t, x) == task' = [task EXCEPT ![t] = x]
Fault == faults < MaxFaults /\ faults' = faults + 1

SetStatus(u, status, cv) ==
    uploads' = [uploads EXCEPT ![u] = [status |-> status, cv |-> cv]]

\* Mutant: an exception that is not caught.
MutantRaise(x) == Idle

\* An exception: the except block of an upload, a 500 of a sample request.
Raise(x) == IF x.upload = 0 THEN Idle ELSE [x EXCEPT !.pc = "fail", !.tries = 0]

\* Mutant: an entry that cannot be saved is skipped.
MutantSaveFailed(x) ==
    IF Len(x.todo) > 1 THEN [x EXCEPT !.pc = "find", !.todo = Tail(@), !.tries = 0]
    ELSE [x EXCEPT !.pc = "complete", !.todo = <<>>, !.tries = 0]

\* save_parsed_profile catches nothing.
SaveFailed(x) == Raise(x)

\* Mutant: the row found for an entry is taken for the next one.
MutantSaved(x) ==
    IF Len(x.todo) > 1 THEN [x EXCEPT !.pc = "find", !.todo = Tail(@), !.tries = 0]
    ELSE IF x.upload = 0 THEN Idle
    ELSE [x EXCEPT !.pc = "complete", !.todo = <<>>, !.tries = 0]

\* The entry is saved: the next one, or the end.
Saved(x) ==
    IF Len(x.todo) > 1
    THEN [x EXCEPT !.pc = "find", !.todo = Tail(@), !.tries = 0, !.found = FALSE]
    ELSE IF x.upload = 0 THEN Idle
    ELSE [x EXCEPT !.pc = "complete", !.todo = <<>>, !.tries = 0, !.found = FALSE]

\* The unique indexes.
Accepts(e) == Kind[e] \in Indexed => stored[e] = 0

\* Mutant: no lookup before a keyed entry, as before duplicates were found.
MutantFinds(e) == Kind[e] \in Indexed /\ stored[e] > 0

\* The lookup before a save.
Finds(e) == Kind[e] \in LookedUp /\ stored[e] > 0

-----------------------------------------------------------------------------
(* The requests.                                                           *)

\* upload_cv has accepted the file; upload_cover_letter_sample has, and has
\* extracted its text.
Request(t) ==
    /\ task[t].pc = "idle"
    /\ \/ next <= MaxUploads /\ Become(t, [Idle EXCEPT !.pc = "create"])
       \/ \E e \in Entries :
             /\ Kind[e] = "sample"
             /\ Become(t, [Idle EXCEPT !.pc = "find", !.todo = <<e>>])
    /\ disturbed' = (disturbed \/ \E s \in Slots : task[s].pc # "idle")
    /\ UNCHANGED <<uploads, next, stored, lost, faults>>

\* create_upload.  A row whose response is lost stays behind as processing;
\* the bound refuses rows without a fault.
CreateUpload(t) ==
    LET x == task[t]
    IN  /\ x.pc = "create"
        /\ \E outcome \in Outcomes :
              /\ Committed(outcome) => next <= MaxUploads
              /\ IF Committed(outcome)
                 THEN SetStatus(next, "processing", <<>>) /\ next' = next + 1
                 ELSE UNCHANGED <<uploads, next>>
              /\ lost' = IF outcome = "reply_lost" THEN lost \cup {next} ELSE lost
              /\ IF outcome = "ok" \/ (outcome = "refused" /\ next > MaxUploads)
                 THEN UNCHANGED faults ELSE Fault
              /\ Become(t, IF outcome = "ok"
                           THEN [Idle EXCEPT !.pc = "extract", !.upload = next]
                           ELSE IF Retries(x.tries, outcome)
                           THEN [x EXCEPT !.tries = @ + 1]
                           ELSE Idle)
        /\ UNCHANGED <<stored, disturbed>>

\* delete_sample.
DeleteSample ==
    /\ \E e \in Entries :
          /\ Kind[e] = "sample" /\ stored[e] > 0
          /\ stored' = [stored EXCEPT ![e] = 0]
    /\ UNCHANGED <<uploads, next, task, disturbed, lost, faults>>

-----------------------------------------------------------------------------
(* parse_cv_upload_tracked.                                                *)

\* extract_text_from_file, or its ExtractionError.
Extract(t) ==
    LET x == task[t]
    IN  /\ x.pc = "extract"
        /\ Become(t, [x EXCEPT !.pc = "llm"]) \/ Become(t, Raise(x))
        /\ UNCHANGED <<uploads, next, stored, disturbed, lost, faults>>

\* generate_text waits for a 429 and tries again, max_retries times.
Waits(x) == x.limited < LLMRetries

\* extract_cv_profile: rate limited, failed (in the call, or because the
\* answer does not parse), or parsed.
Parse(t) ==
    LET x == task[t]
    IN  /\ x.pc = "llm"
        /\ \/ /\ Waits(x)
              /\ Become(t, [x EXCEPT !.limited = (@ + 1) % (LLMRetries + 1)])
           \/ Become(t, Raise(x))
           \/ \E cv \in CVs :
                 Become(t, [x EXCEPT !.pc = "find", !.cv = cv, !.todo = cv,
                                     !.limited = 0])
        /\ UNCHANGED <<uploads, next, stored, disturbed, lost, faults>>

\* The SELECT of get_profile_by_user, get_or_create_skill, add_skill, ...
Find(t) ==
    LET x == task[t]
    IN  /\ x.pc = "find"
        /\ \/ /\ Become(t, [x EXCEPT !.pc = "write", !.found = Finds(Head(x.todo))])
              /\ UNCHANGED faults
           \/ Become(t, SaveFailed(x)) /\ Fault
        /\ UNCHANGED <<uploads, next, stored, disturbed, lost>>

\* The UPDATE of the row found; a catalog entry needs none, and a sample that
\* has been deleted leaves rows[0] without a row.
Update(t) ==
    LET x == task[t]
    IN  /\ x.pc = "write" /\ x.found
        /\ \/ /\ Become(t, IF stored[Head(x.todo)] = 0 THEN SaveFailed(x)
                           ELSE Saved(x))
              /\ UNCHANGED faults
           \/ Become(t, SaveFailed(x)) /\ Fault
        /\ UNCHANGED <<uploads, next, stored, disturbed, lost>>

\* The INSERT.  Where no index refuses it, a retry inserts once more.
Insert(t) ==
    LET x == task[t]
        e == Head(x.todo)
    IN  /\ x.pc = "write" /\ ~x.found
        /\ \E outcome \in Outcomes :
              /\ outcome = "ok" => Accepts(e)
              /\ stored' = IF Committed(outcome) /\ Accepts(e)
                           THEN [stored EXCEPT ![e] = @ + 1] ELSE stored
              /\ disturbed' = (disturbed \/ outcome = "reply_lost")
              /\ IF outcome = "ok" \/ (outcome = "refused" /\ ~Accepts(e))
                 THEN UNCHANGED faults ELSE Fault
              /\ Become(t, IF outcome = "ok" THEN Saved(x)
                           ELSE IF Retries(x.tries, outcome)
                           THEN [x EXCEPT !.tries = @ + 1]
                           ELSE SaveFailed(x))
        /\ UNCHANGED <<uploads, next, lost>>

\* mark_completed, inside the try block: it may raise although it is applied.
MarkCompleted(t) ==
    LET x == task[t]
    IN  /\ x.pc = "complete"
        /\ \/ /\ SetStatus(x.upload, "completed", x.cv)
              /\ Become(t, Idle) /\ UNCHANGED faults
           \/ /\ SetStatus(x.upload, "completed", x.cv) \/ UNCHANGED uploads
              /\ Become(t, Raise(x)) /\ Fault
        /\ UNCHANGED <<next, stored, disturbed, lost>>

\* Mutant: mark_failed writes the status an upload starts with.
MutantFailedStatus == "processing"

FailedStatus == "failed"

\* mark_failed in the except block, which raises again in any case.
MarkFailed(t) ==
    LET x == task[t]
    IN  /\ x.pc = "fail"
        /\ \/ SetStatus(x.upload, FailedStatus, <<>>) /\ UNCHANGED <<lost, faults>>
           \/ UNCHANGED uploads /\ lost' = lost \cup {x.upload} /\ Fault
        /\ Become(t, Idle)
        /\ UNCHANGED <<next, stored, disturbed>>

\* The platform kills the invocation: no except block runs.
Kill(t) ==
    /\ task[t].pc # "idle"
    /\ lost' = lost \cup ({task[t].upload} \ {0})
    /\ Become(t, Idle) /\ Fault
    /\ UNCHANGED <<uploads, next, stored, disturbed>>

Advance(t) ==
    \/ CreateUpload(t) \/ Extract(t) \/ Parse(t) \/ Find(t) \/ Update(t)
    \/ Insert(t) \/ MarkCompleted(t) \/ MarkFailed(t)

Next ==
    \/ \E t \in Slots : Request(t) \/ Advance(t) \/ Kill(t)
    \/ DeleteSample

Spec == Init /\ [][Next]_vars

\* A started invocation is run: it is killed, or it takes its next step.
FairSpec == Spec /\ \A t \in Slots : WF_vars(Advance(t))

-----------------------------------------------------------------------------
(* Properties.                                                             *)

\* A candidate has one profile and one style sample, and a skill exists and
\* is linked once, however requests overlap and whatever is retried
\* (migrations 0001 and 0008, "One row per user").  Without an index, uploads
\* that do not overlap and whose inserts are all confirmed still never
\* duplicate an entry that has a key, even if some of them failed or were
\* killed half way and were repeated (comment of add_work_experience,
\* "duplicates were piling up silently").
StoredOnce ==
    \A e \in Entries :
        Kind[e] \in Indexed \/ (Kind[e] = "keyed" /\ ~disturbed)
            => stored[e] <= 1

\* A completed upload has saved everything the CV said: no entry of it has
\* been skipped on the way.
CompletedIsSaved ==
    \A u \in UploadId : uploads[u].status = "completed" =>
        \A i \in DOMAIN uploads[u].cv : stored[uploads[u].cv[i]] > 0

Status(u) == IF uploads[u].status = "processing" THEN "open" ELSE uploads[u].status

Tracked == INSTANCE TrackedTask
    WITH Tasks <- UploadId, status <- [u \in UploadId |-> Status(u)]

\* What a client polling GET /profile/cv-upload-status may rely on: uploads
\* are tracked tasks.
UploadsAreTrackedTasks == Tracked!Spec

\* Every upload gets its outcome: the LLM client gives up in the end, and every
\* way out of the task, by an exception too, marks the row as completed or
\* failed.  Only an upload whose invocation was killed, or whose row could not
\* be marked as failed, or whose creation was not confirmed, may stay
\* processing for ever: nothing reaps it.
UploadsEnd ==
    \A u \in UploadId :
        uploads[u].status = "processing"
            ~> uploads[u].status \in {"completed", "failed"} \/ u \in lost

-----------------------------------------------------------------------------
(* The inductive invariant behind them.                                    *)

Saving(x) == x.pc \in {"find", "write"}

\* The row of an upload waits for the outcome that its invocation will write,
\* unless the call that marked it as completed raised.
OwnsItsRow(x) ==
    /\ x.pc \in {"idle", "create"} => x.upload = 0
    /\ x.pc \in {"extract", "llm", "complete", "fail"} => x.upload # 0
    /\ x.upload # 0 =>
          /\ x.upload < next
          /\ \/ uploads[x.upload].status = "processing"
             \/ x.pc = "fail" /\ uploads[x.upload].status = "completed"

\* What an invocation has not saved of its CV is still to do.
KeepsTrack(x, store) ==
    /\ Saving(x) => x.todo # <<>>
    /\ Saving(x) \/ x.pc = "complete" =>
          \A i \in DOMAIN x.cv :
             \/ store[x.cv[i]] > 0
             \/ Saving(x) /\ \E j \in DOMAIN x.todo : x.todo[j] = x.cv[i]

RowsAreNew == \A u \in UploadId : u >= next => uploads[u].status = "absent"

OneOwner ==
    \A s, t \in Slots :
        task[s].upload = task[t].upload /\ task[s].upload # 0 => s = t

\* Without overlaps and lost replies, a lookup that found nothing still says so
\* when the entry is inserted.
LookupIsFresh ==
    ~disturbed =>
        /\ \A s, t \in Slots :
              task[s].pc # "idle" /\ task[t].pc # "idle" => s = t
        /\ \A t \in Slots : LET x == task[t] IN
              x.pc = "write" /\ ~x.found /\ Kind[Head(x.todo)] = "keyed"
                  => stored[Head(x.todo)] = 0

IInv ==
    /\ TypeOK
    /\ \A t \in Slots : OwnsItsRow(task[t]) /\ KeepsTrack(task[t], stored)
    /\ RowsAreNew
    /\ OneOwner
    /\ LookupIsFresh
    /\ StoredOnce
    /\ CompletedIsSaved
=============================================================================

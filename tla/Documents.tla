----------------------------- MODULE Documents -----------------------------
(***************************************************************************)
(* The generated documents of one (track, job) pair.                       *)
(*                                                                         *)
(* A generated_documents row is never overwritten: regenerating a CV, a    *)
(* cover letter or a screening answer inserts a new row, whose version is  *)
(* computed by DocumentRepository.create_document from a SELECT of the     *)
(* versions there are, followed by an INSERT.  Nothing in the database     *)
(* constrains versions, and the two calls of concurrent generations        *)
(* interleave: the endpoints of several users of the organization, and     *)
(* auto-apply in a background matching run.                                *)
(*                                                                         *)
(* Versions are counted per document type.  The content of a document is   *)
(* left out.                                                               *)
(***************************************************************************)
EXTENDS Naturals, Sequences, FiniteSets, DatabaseCalls

CONSTANTS
    Requests,    \* request slots and background workers
    DocTypes,    \* "cv", "cover_letter", "screening_answer"
    MaxDocs,     \* bound: rows the table can hold for this pair
    MaxApps      \* bound: applications a document can be linked to

ASSUME DocumentBounds == MaxDocs \in Nat /\ MaxApps \in Nat

VARIABLES
    docs,   \* the generated_documents rows, in insertion order
    gen     \* what each request's generation is doing

vars == <<docs, gen>>

AppId == 1..MaxApps
NoApp == 0     \* application_id is null
NoDoc == 0

Doc == [type : DocTypes, version : Nat, app : AppId \cup {NoApp}]

\* "list" waits for the LLM and then for list_versions; "saved" and "failed"
\* are the two ways generate_* gives control back to its caller.
Generation == [pc : {"idle", "list", "insert", "saved", "failed"},
               type : DocTypes \cup {"none"},
               version : Nat,                \* the version computed
               tries : 0..MaxAttempts,       \* failed attempts of the insert
               doc : 0..MaxDocs]             \* the row it got back

NoGeneration ==
    [pc |-> "idle", type |-> "none", version |-> 0, tries |-> 0, doc |-> NoDoc]

TypeOK ==
    /\ docs \in Seq(Doc) /\ Len(docs) <= MaxDocs
    /\ gen \in [Requests -> Generation]

Init ==
    /\ docs = <<>>
    /\ gen = [w \in Requests |-> NoGeneration]

-----------------------------------------------------------------------------
OfType(t) == {d \in DOMAIN docs : docs[d].type = t}
Versions(t) == {docs[d].version : d \in OfType(t)}

\* A row get_latest_document may return: the last one in version order.  Rows
\* of equal version come in no particular order.
IsLatest(t, d) ==
    /\ d \in OfType(t)
    /\ \A e \in OfType(t) : docs[e].version <= docs[d].version

\* Mutant: the number of versions instead of the highest one.
MutantIsNextVersion(t, v) == v = Cardinality(OfType(t)) + 1

\* v is one more than the highest version there is, 1 if there is none.
IsNextVersion(t, v) ==
    /\ v - 1 \in Versions(t) \cup {0}
    /\ \A u \in Versions(t) : u < v

\* The generation after an attempt of its INSERT.
AfterInsert(w, outcome) ==
    IF outcome = "ok"
    THEN [gen EXCEPT ![w].pc = "saved", ![w].doc = Len(docs) + 1,
                     ![w].tries = 0]
    ELSE IF Retries(gen[w].tries, outcome) THEN [gen EXCEPT ![w].tries = @ + 1]
    ELSE [gen EXCEPT ![w].pc = "failed", ![w].tries = 0]

-----------------------------------------------------------------------------
\* generate_tailored_cv, generate_cover_letter, generate_screening_answer.
Generate(w, t) ==
    /\ gen[w].pc = "idle"
    /\ gen' = [gen EXCEPT ![w] = [NoGeneration EXCEPT !.pc = "list", !.type = t]]
    /\ UNCHANGED docs

\* The LLM has answered, and create_document computes the next version.
ListVersions(w) ==
    /\ gen[w].pc = "list"
    /\ \E v \in 1..(Len(docs) + 1) :
          /\ IsNextVersion(gen[w].type, v)
          /\ gen' = [gen EXCEPT ![w].pc = "insert", ![w].version = v]
    /\ UNCHANGED docs

\* The LLM call, the parsing of its answer or list_versions raises.
FailGeneration(w) ==
    /\ gen[w].pc = "list"
    /\ gen' = [gen EXCEPT ![w].pc = "failed"]
    /\ UNCHANGED docs

\* create_document's INSERT, with the version read before.
InsertDocument(w) ==
    /\ gen[w].pc = "insert"
    /\ \E outcome \in Outcomes :
          /\ IF Committed(outcome)
             THEN /\ Len(docs) < MaxDocs
                  /\ docs' = Append(docs, [type |-> gen[w].type,
                                           version |-> gen[w].version,
                                           app |-> NoApp])
             ELSE UNCHANGED docs
          /\ gen' = AfterInsert(w, outcome)

\* The caller takes the document or the exception, or is killed.
Leave(w) ==
    /\ gen[w].pc # "idle"
    /\ gen' = [gen EXCEPT ![w] = NoGeneration]
    /\ UNCHANGED docs

\* DocumentRepository.set_application_id: unconditional on what the row says.
SetApplicationId(d, a) ==
    /\ docs' = [docs EXCEPT ![d].app = a]
    /\ UNCHANGED gen

GenerationStep(w) == ListVersions(w) \/ FailGeneration(w) \/ InsertDocument(w)

Next ==
    \/ \E w \in Requests :
          \/ \E t \in DocTypes : Generate(w, t)
          \/ GenerationStep(w)
          \/ Leave(w)
    \/ \E d \in DOMAIN docs, a \in AppId : SetApplicationId(d, a)

Spec == Init /\ [][Next]_vars

-----------------------------------------------------------------------------
(* Safety.                                                                 *)

\* The history of a document has no holes, however generations interleave and
\* whichever inserts are retried: every version below an existing one exists.
\* "version is computed automatically as (highest existing version) + 1".
VersionsHaveNoGaps ==
    \A t \in DocTypes : \A u \in Versions(t) : 1..u \subseteq Versions(t)

-----------------------------------------------------------------------------
(* The inductive invariant behind VersionsHaveNoGaps.                      *)

\* The versions below the one a request is about to insert exist: documents
\* inserted since its SELECT may have made it a duplicate, never a gap.
PendingVersions ==
    \A w \in Requests : gen[w].pc = "insert" =>
        1..(gen[w].version - 1) \subseteq Versions(gen[w].type)

\* A generation that runs has a type.
RunningTypes == \A w \in Requests : gen[w].pc # "idle" => gen[w].type \in DocTypes

\* The document a generation gives back is a row of the table.
SavedRows == \A w \in Requests : gen[w].pc = "saved" => gen[w].doc \in DOMAIN docs

IInv ==
    /\ TypeOK
    /\ VersionsHaveNoGaps
    /\ PendingVersions
    /\ RunningTypes
    /\ SavedRows
=============================================================================

-------------------------- MODULE DocumentsProofs --------------------------
(***************************************************************************)
(* Proofs about the generated documents of a pair, for any number of       *)
(* concurrent generations, document types, rows and attempts.              *)
(***************************************************************************)
EXTENDS Documents, TLAPS

USE DocumentBounds, AttemptsAssumption

\* What an insert adds to the history: one version of its own type.
LEMMA AppendVersions ==
  ASSUME docs \in Seq(Doc), NEW d \in Doc, docs' = Append(docs, d), NEW t
  PROVE  Versions(t)' = IF d.type = t THEN Versions(t) \cup {d.version}
                                      ELSE Versions(t)
<1>1. DOMAIN docs' = 1..(Len(docs) + 1) /\ docs'[Len(docs) + 1] = d
  OBVIOUS
<1>2. DOMAIN docs = 1..Len(docs) /\ Len(docs) \in Nat
  OBVIOUS
<1>3. \A i \in 1..Len(docs) : docs'[i] = docs[i]
  OBVIOUS
<1>4. OfType(t)' = IF d.type = t THEN OfType(t) \cup {Len(docs) + 1} ELSE OfType(t)
  BY <1>1, <1>2, <1>3 DEF OfType
<1>5. OfType(t) \subseteq 1..Len(docs)
  BY <1>2 DEF OfType
<1> QED BY <1>1, <1>3, <1>4, <1>5 DEF Versions

\* Linking a document changes no version.
LEMMA LinkVersions ==
  ASSUME docs \in Seq(Doc), NEW d \in DOMAIN docs, NEW a \in AppId,
         SetApplicationId(d, a), NEW t
  PROVE  Versions(t)' = Versions(t)
<1>1. DOMAIN docs' = DOMAIN docs
  BY DEF SetApplicationId
<1>2. \A e \in DOMAIN docs :
         docs'[e].type = docs[e].type /\ docs'[e].version = docs[e].version
  BY DEF SetApplicationId, Doc
<1>3. OfType(t)' = OfType(t)
  BY <1>1, <1>2 DEF OfType
<1>4. OfType(t) \subseteq DOMAIN docs
  BY DEF OfType
<1> QED BY <1>2, <1>3, <1>4 DEF Versions

\* Versions are natural numbers.
LEMMA VersionsAreNaturals ==
  ASSUME docs \in Seq(Doc), NEW t
  PROVE  Versions(t) \subseteq Nat
<1>1. \A d \in DOMAIN docs : docs[d] \in Doc
  OBVIOUS
<1>2. \A d \in DOMAIN docs : docs[d].version \in Nat
  BY <1>1 DEF Doc
<1> QED BY <1>2 DEF Versions, OfType

\* Generations stay typed when their control point is replaced.
LEMMA SetPc ==
  ASSUME NEW g \in Generation,
         NEW pc \in {"idle", "list", "insert", "saved", "failed"}
  PROVE  [g EXCEPT !.pc = pc] \in Generation
  BY DEF Generation

\* Generations stay typed when their document type is replaced.
LEMMA SetType ==
  ASSUME NEW g \in Generation, NEW t \in DocTypes
  PROVE  [g EXCEPT !.type = t] \in Generation
  BY DEF Generation

\* Generations stay typed when their failed attempts are replaced.
LEMMA SetTries ==
  ASSUME NEW g \in Generation, NEW n \in 0..MaxAttempts
  PROVE  [g EXCEPT !.tries = n] \in Generation
  BY DEF Generation

\* Generations stay typed when their version is replaced.
LEMMA SetVersion ==
  ASSUME NEW g \in Generation, NEW v \in Nat
  PROVE  [g EXCEPT !.version = v] \in Generation
  BY DEF Generation

\* Generations stay typed when their document is replaced.
LEMMA SetDoc ==
  ASSUME NEW g \in Generation, NEW d \in 0..MaxDocs
  PROVE  [g EXCEPT !.doc = d] \in Generation
  BY DEF Generation

-----------------------------------------------------------------------------
\* Base case: no rows, no generations.
LEMMA InitIInv == Init => IInv
<1> SUFFICES ASSUME Init PROVE IInv
  OBVIOUS
<1>1. NoGeneration \in Generation
  BY DEF NoGeneration, Generation, NoDoc
<1>2. TypeOK
  BY <1>1 DEF Init, TypeOK
<1>3. VersionsHaveNoGaps
  BY DEF Init, VersionsHaveNoGaps, Versions, OfType
<1>4. PendingVersions /\ RunningTypes /\ SavedRows
  BY DEF Init, PendingVersions, RunningTypes, SavedRows, NoGeneration
<1> QED BY <1>2, <1>3, <1>4 DEF IInv

\* A step of one generation that leaves the rows alone: it only has to account
\* for the version it is going to insert.
LEMMA ReadOnlyStep ==
  ASSUME IInv, UNCHANGED docs, NEW w \in Requests, NEW g \in Generation,
         gen' = [gen EXCEPT ![w] = g],
         g.pc = "insert" => 1..(g.version - 1) \subseteq Versions(g.type),
         g.pc # "idle" => g.type \in DocTypes,
         g.pc = "saved" => g.doc \in DOMAIN docs
  PROVE  IInv'
<1>1. TypeOK'
  BY DEF IInv, TypeOK
<1>2. \A t : Versions(t)' = Versions(t)
  BY DEF Versions, OfType
<1>3. VersionsHaveNoGaps'
  BY <1>2 DEF IInv, VersionsHaveNoGaps
<1>4. \A x \in Requests : gen'[x] = IF x = w THEN g ELSE gen[x]
  BY DEF IInv, TypeOK
<1>5. PendingVersions'
  BY <1>2, <1>4 DEF IInv, PendingVersions
<1>6. RunningTypes'
  BY <1>4 DEF IInv, RunningTypes
<1>7. SavedRows'
  BY <1>4 DEF IInv, SavedRows
<1> QED BY <1>1, <1>3, <1>5, <1>6, <1>7 DEF IInv

\* A request asks for a document.
LEMMA GenerateIInv ==
  ASSUME IInv, NEW w \in Requests, NEW t \in DocTypes, Generate(w, t)
  PROVE  IInv'
<1> DEFINE g0 == [NoGeneration EXCEPT !.pc = "list"]
           g == [g0 EXCEPT !.type = t]
<1>1. NoGeneration \in Generation
  BY DEF NoGeneration, Generation, NoDoc
<1>4. g0 \in Generation /\ g0.pc = "list"
  BY <1>1, SetPc DEF Generation
<1> HIDE DEF g0
<1>5. g \in Generation
  BY <1>4, SetType
<1>3. g.pc = "list" /\ g.type = t
  BY <1>4 DEF Generation
<1>2. gen' = [gen EXCEPT ![w] = g] /\ UNCHANGED docs
  BY DEF Generate, g0
<1> HIDE DEF g
<1> QED BY <1>2, <1>3, <1>5, ReadOnlyStep

\* The version computed has all versions below it.
LEMMA ListIInv ==
  ASSUME IInv, NEW w \in Requests, ListVersions(w)
  PROVE  IInv'
<1>1. gen[w] \in Generation /\ docs \in Seq(Doc)
  BY DEF IInv, TypeOK
<1>2. PICK v \in 1..(Len(docs) + 1) :
         /\ IsNextVersion(gen[w].type, v)
         /\ gen' = [gen EXCEPT ![w].pc = "insert", ![w].version = v]
  BY DEF ListVersions
<1>3. v \in Nat
  BY <1>1, <1>2
<1> DEFINE g == [[gen[w] EXCEPT !.pc = "insert"] EXCEPT !.version = v]
<1>4. g \in Generation
  BY <1>1, <1>3, SetPc, SetVersion
<1>5. gen' = [gen EXCEPT ![w] = g]
  BY <1>2
<1>6. g.pc = "insert" /\ g.version = v /\ g.type = gen[w].type
  BY <1>1 DEF Generation
<1>9. gen[w].type \in DocTypes
  BY DEF ListVersions, IInv, RunningTypes
<1>7. 1..(v - 1) \subseteq Versions(gen[w].type)
  <2>1. CASE v - 1 = 0
    BY <2>1, <1>3
  <2>2. CASE v - 1 \in Versions(gen[w].type)
    BY <2>2, <1>9 DEF IInv, VersionsHaveNoGaps
  <2> QED BY <1>2, <2>1, <2>2 DEF IsNextVersion
<1>8. UNCHANGED docs
  BY DEF ListVersions
<1> HIDE DEF g
<1> QED BY <1>4, <1>5, <1>6, <1>7, <1>8, <1>9, ReadOnlyStep

\* A generation that fails or is left has no version to account for.
LEMMA EndIInv ==
  ASSUME IInv, NEW w \in Requests, FailGeneration(w) \/ Leave(w)
  PROVE  IInv'
<1>1. gen[w] \in Generation
  BY DEF IInv, TypeOK
<1>2. CASE FailGeneration(w)
  <2> DEFINE g == [gen[w] EXCEPT !.pc = "failed"]
  <2>1. g \in Generation
    BY <1>1, SetPc
  <2>2. g.pc = "failed" /\ g.type \in DocTypes
    BY <1>1, <1>2 DEF Generation, FailGeneration, IInv, RunningTypes
  <2>3. gen' = [gen EXCEPT ![w] = g] /\ UNCHANGED docs
    BY <1>2 DEF FailGeneration
  <2> HIDE DEF g
  <2> QED BY <2>1, <2>2, <2>3, ReadOnlyStep
<1>3. CASE Leave(w)
  <2>1. NoGeneration \in Generation /\ NoGeneration.pc = "idle"
    BY DEF NoGeneration, Generation, NoDoc
  <2>2. gen' = [gen EXCEPT ![w] = NoGeneration] /\ UNCHANGED docs
    BY <1>3 DEF Leave
  <2> QED BY <2>1, <2>2, ReadOnlyStep
<1> QED BY <1>2, <1>3

\* The generation after an attempt of its insert: it still wants to insert the
\* version it wanted, or it is done.
LEMMA InsertedGeneration ==
  ASSUME IInv, NEW w \in Requests, NEW outcome \in Outcomes,
         gen[w].pc = "insert", Committed(outcome) => Len(docs) < MaxDocs,
         gen' = AfterInsert(w, outcome)
  PROVE  \E g \in Generation :
            /\ gen' = [gen EXCEPT ![w] = g]
            /\ g.type = gen[w].type
            /\ g.pc = "insert" => g.version = gen[w].version
            /\ g.pc = "saved" => g.doc = Len(docs) + 1 /\ Committed(outcome)
<1>1. gen[w] \in Generation /\ docs \in Seq(Doc)
  BY DEF IInv, TypeOK
<1>2. CASE outcome = "ok"
  <2> DEFINE g == [[[gen[w] EXCEPT !.pc = "saved"]
                                   EXCEPT !.doc = Len(docs) + 1]
                                   EXCEPT !.tries = 0]
  <2>1. Len(docs) + 1 \in 0..MaxDocs
    BY <1>1, <1>2 DEF Committed
  <2>2. g \in Generation
    <3>1. [gen[w] EXCEPT !.pc = "saved"] \in Generation
      BY <1>1, SetPc
    <3>2. [[gen[w] EXCEPT !.pc = "saved"] EXCEPT !.doc = Len(docs) + 1]
             \in Generation
      BY <2>1, <3>1, SetDoc
    <3>3. 0 \in 0..MaxAttempts
      OBVIOUS
    <3> QED BY <3>2, <3>3, SetTries
  <2>3. gen' = [gen EXCEPT ![w] = g]
    BY <1>2 DEF AfterInsert
  <2>4. g.pc = "saved" /\ g.type = gen[w].type /\ g.doc = Len(docs) + 1
    BY <1>1 DEF Generation
  <2>5. Committed(outcome)
    BY <1>2 DEF Committed
  <2> HIDE DEF g
  <2> QED BY <2>2, <2>3, <2>4, <2>5
<1>3. CASE outcome # "ok" /\ Retries(gen[w].tries, outcome)
  <2> DEFINE g == [gen[w] EXCEPT !.tries = gen[w].tries + 1]
  <2>1. gen[w].tries + 1 \in 0..MaxAttempts
    BY <1>1, <1>3 DEF Generation, Retries
  <2>2. g \in Generation
    BY <1>1, <2>1, SetTries
  <2>3. gen' = [gen EXCEPT ![w] = g]
    BY <1>3 DEF AfterInsert
  <2>4. g.pc = "insert" /\ g.version = gen[w].version /\ g.type = gen[w].type
    BY <1>1 DEF Generation
  <2> HIDE DEF g
  <2> QED BY <2>2, <2>3, <2>4
<1>4. CASE outcome # "ok" /\ ~Retries(gen[w].tries, outcome)
  <2> DEFINE g == [[gen[w] EXCEPT !.pc = "failed"] EXCEPT !.tries = 0]
  <2>1. g \in Generation
    <3>1. [gen[w] EXCEPT !.pc = "failed"] \in Generation
      BY <1>1, SetPc
    <3>2. 0 \in 0..MaxAttempts
      OBVIOUS
    <3> QED BY <3>1, <3>2, SetTries
  <2>2. gen' = [gen EXCEPT ![w] = g]
    BY <1>4 DEF AfterInsert
  <2>3. g.pc = "failed" /\ g.type = gen[w].type
    BY <1>1 DEF Generation
  <2> HIDE DEF g
  <2> QED BY <2>1, <2>2, <2>3
<1> QED BY <1>2, <1>3, <1>4

\* An insert adds a version all of whose predecessors exist, so that neither
\* the history nor what other requests are about to insert gets a gap.
LEMMA InsertIInv ==
  ASSUME IInv, NEW w \in Requests, InsertDocument(w)
  PROVE  IInv'
<1>1. gen[w] \in Generation /\ docs \in Seq(Doc) /\ Len(docs) <= MaxDocs
  BY DEF IInv, TypeOK
<1> DEFINE d == [type |-> gen[w].type, version |-> gen[w].version, app |-> NoApp]
<1>2. PICK outcome \in Outcomes :
         /\ IF Committed(outcome)
            THEN Len(docs) < MaxDocs /\ docs' = Append(docs, d)
            ELSE UNCHANGED docs
         /\ gen' = AfterInsert(w, outcome)
  BY DEF InsertDocument
<1>3. gen[w].pc = "insert"
  BY DEF InsertDocument
<1>4. PICK g \in Generation :
         /\ gen' = [gen EXCEPT ![w] = g]
         /\ g.type = gen[w].type
         /\ g.pc = "insert" => g.version = gen[w].version
         /\ g.pc = "saved" => g.doc = Len(docs) + 1 /\ Committed(outcome)
  BY <1>2, <1>3, InsertedGeneration
<1>5. 1..(gen[w].version - 1) \subseteq Versions(gen[w].type)
  BY <1>3 DEF IInv, PendingVersions
<1>8. gen[w].type \in DocTypes
  BY <1>3 DEF IInv, RunningTypes
<1>6. CASE ~Committed(outcome)
  BY <1>2, <1>4, <1>5, <1>6, <1>8, ReadOnlyStep
<1>7. CASE Committed(outcome)
  <2>2. d \in Doc
    BY <1>1, <1>8 DEF Doc, Generation, NoApp
  <2>3. docs' = Append(docs, d) /\ Len(docs) < MaxDocs
    BY <1>2, <1>7
  <2>4. TypeOK'
    BY <1>1, <1>4, <2>2, <2>3 DEF IInv, TypeOK
  <2>5. \A t : Versions(t)' = IF d.type = t THEN Versions(t) \cup {d.version}
                                            ELSE Versions(t)
    BY <1>1, <2>2, <2>3, AppendVersions
  <2>6. d.type = gen[w].type /\ d.version = gen[w].version
    OBVIOUS
  <2> HIDE DEF d
  <2>7. VersionsHaveNoGaps'
    <3> SUFFICES ASSUME NEW t \in DocTypes, NEW u \in Versions(t)'
                 PROVE  1..u \subseteq Versions(t)'
      BY DEF VersionsHaveNoGaps
    <3>1. CASE u \in Versions(t)
      BY <3>1, <2>5 DEF IInv, VersionsHaveNoGaps
    <3>2. CASE u \notin Versions(t)
      <4>1. gen[w].type = t /\ u = gen[w].version
        BY <3>2, <2>5, <2>6
      <4>2. u \in Nat
        BY <4>1, <1>1 DEF Generation
      <4>3. 1..u \subseteq (1..(u - 1)) \cup {u}
        BY <4>2
      <4> QED BY <4>1, <4>3, <1>5, <2>5, <2>6
    <3> QED BY <3>1, <3>2
  <2>8. \A x \in Requests : gen'[x] = IF x = w THEN g ELSE gen[x]
    BY <1>4 DEF IInv, TypeOK
  <2>9. PendingVersions'
    BY <1>4, <1>5, <2>5, <2>8 DEF IInv, PendingVersions
  <2>10. RunningTypes'
    BY <1>4, <1>8, <2>8 DEF IInv, RunningTypes
  <2>11. DOMAIN docs' = 1..(Len(docs) + 1) /\ DOMAIN docs = 1..Len(docs)
    BY <1>1, <2>3
  <2>12. SavedRows'
    BY <1>1, <1>4, <2>8, <2>11 DEF IInv, SavedRows
  <2> QED BY <2>4, <2>7, <2>9, <2>10, <2>12 DEF IInv
<1> QED BY <1>6, <1>7

\* Linking changes neither types nor versions.
LEMMA LinkIInv ==
  ASSUME IInv, NEW d \in DOMAIN docs, NEW a \in AppId, SetApplicationId(d, a)
  PROVE  IInv'
<1>1. docs \in Seq(Doc) /\ Len(docs) <= MaxDocs
  BY DEF IInv, TypeOK
<1>2. d \in 1..Len(docs) /\ docs[d] \in Doc
  BY <1>1
<1>8. [docs[d] EXCEPT !.app = a] \in Doc
  BY <1>2 DEF Doc
<1>3. docs' = [docs EXCEPT ![d] = [docs[d] EXCEPT !.app = a]] /\ UNCHANGED gen
  BY DEF SetApplicationId
<1>4. docs' \in Seq(Doc) /\ Len(docs') = Len(docs)
  BY <1>1, <1>2, <1>3, <1>8
<1>5. TypeOK'
  BY <1>1, <1>3, <1>4 DEF IInv, TypeOK
<1>6. \A t : Versions(t)' = Versions(t)
  BY <1>1, LinkVersions
<1>7. VersionsHaveNoGaps' /\ PendingVersions' /\ RunningTypes' /\ SavedRows'
  BY <1>3, <1>6 DEF IInv, VersionsHaveNoGaps, PendingVersions, RunningTypes,
                    SavedRows
<1> QED BY <1>5, <1>7 DEF IInv

\* The inductive step.
LEMMA NextIInv == IInv /\ [Next]_vars => IInv'
<1> SUFFICES ASSUME IInv, [Next]_vars PROVE IInv'
  OBVIOUS
<1>1. ASSUME NEW w \in Requests, NEW t \in DocTypes, Generate(w, t)
      PROVE  IInv'
  BY <1>1, GenerateIInv
<1>2. ASSUME NEW w \in Requests, GenerationStep(w)
      PROVE  IInv'
  BY <1>2, ListIInv, EndIInv, InsertIInv DEF GenerationStep
<1>3. ASSUME NEW w \in Requests, Leave(w)
      PROVE  IInv'
  BY <1>3, EndIInv
<1>4. ASSUME NEW d \in DOMAIN docs, NEW a \in AppId, SetApplicationId(d, a)
      PROVE  IInv'
  BY <1>4, LinkIInv
<1>5. CASE UNCHANGED vars
  BY <1>5 DEF vars, IInv, TypeOK, VersionsHaveNoGaps, PendingVersions,
              RunningTypes, SavedRows, Versions, OfType
<1> QED BY <1>1, <1>2, <1>3, <1>4, <1>5 DEF Next

-----------------------------------------------------------------------------
\* The inductive invariant holds in every reachable state.
THEOREM Inductive == Spec => []IInv
  BY InitIInv, NextIInv, PTL DEF Spec

\* Rows and generations are well typed: no generation retries its insert more
\* than MaxAttempts times.
THEOREM TypeCorrect == Spec => []TypeOK
<1>1. IInv => TypeOK
  BY DEF IInv
<1> QED BY <1>1, Inductive, PTL

\* The versions of each type are 1, 2, ... without a gap, for any number of
\* concurrent generations, retries and kills.
THEOREM HistoryHasNoGaps == Spec => []VersionsHaveNoGaps
<1>1. IInv => VersionsHaveNoGaps
  BY DEF IInv
<1> QED BY <1>1, Inductive, PTL
=============================================================================

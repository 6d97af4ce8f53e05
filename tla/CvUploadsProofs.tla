-------------------------- MODULE CvUploadsProofs --------------------------
(***************************************************************************)
(* Proofs about CV uploads, for any number of invocations, uploads,        *)
(* entries, parsed CVs, retries and faults.                                *)
(*                                                                         *)
(* Most steps only move one invocation: OnlyTask covers them.  The steps   *)
(* that write a row (CreateUpload, Insert, MarkCompleted, MarkFailed and   *)
(* DeleteSample) are taken one conjunct of IInv at a time.                 *)
(***************************************************************************)
EXTENDS CvUploads, SequenceTheorems, TLAPS

USE UploadsAssumption, AttemptsAssumption

-----------------------------------------------------------------------------
(* Typing.                                                                 *)

\* A parsed CV is a sequence of entries, none of them a style sample.
LEMMA CvEntries ==
  ASSUME NEW cv \in CVs \cup {<<>>}
  PROVE  /\ cv \in Seq(Entries)
         /\ \A i \in DOMAIN cv : cv[i] \in Entries /\ Kind[cv[i]] # "sample"
<1>1. cv \in Seq({e \in Entries : Kind[e] # "sample"})
  <2>1. <<>> \in Seq({e \in Entries : Kind[e] # "sample"})
    OBVIOUS
  <2> QED BY <2>1
<1>2. \A i \in DOMAIN cv : cv[i] \in Entries /\ Kind[cv[i]] # "sample"
  BY <1>1
<1>3. cv \in Seq(Entries)
  <2>1. Len(cv) \in Nat /\ DOMAIN cv = 1..Len(cv) /\ cv \in [1..Len(cv) -> Entries]
    BY <1>1, <1>2, LenProperties
  <2> QED BY <2>1, SeqDef
<1> QED BY <1>2, <1>3

\* A slot without an invocation is typed.
LEMMA IdleType == Idle \in Task
<1>1. <<>> \in Seq(Entries)
  OBVIOUS
<1>2. "idle" \in Steps
  BY DEF Steps
<1> QED BY <1>1, <1>2 DEF Idle, Task

\* An invocation stays typed when its control point is replaced, alone,
LEMMA SetPc ==
  ASSUME NEW x \in Task, NEW pc \in Steps
  PROVE  [x EXCEPT !.pc = pc] \in Task
  BY DEF Task

\* ... with its row,
LEMMA SetUpload ==
  ASSUME NEW x \in Task, NEW pc \in Steps, NEW u \in UploadId
  PROVE  [x EXCEPT !.pc = pc, !.upload = u] \in Task
  BY DEF Task

\* ... with the entries to save,
LEMMA SetTodo ==
  ASSUME NEW x \in Task, NEW pc \in Steps, NEW todo \in Seq(Entries)
  PROVE  [x EXCEPT !.pc = pc, !.todo = todo] \in Task
  BY DEF Task

\* ... with what was parsed,
LEMMA SetParsed ==
  ASSUME NEW x \in Task, NEW pc \in Steps, NEW cv \in CVs
  PROVE  [x EXCEPT !.pc = pc, !.cv = cv, !.todo = cv, !.limited = 0] \in Task
<1>1. cv \in Seq(Entries) /\ 0 \in 0..LLMRetries
  BY CvEntries
<1> QED BY <1>1 DEF Task

\* ... with what a lookup found,
LEMMA SetFound ==
  ASSUME NEW x \in Task, NEW pc \in Steps, NEW b \in BOOLEAN
  PROVE  [x EXCEPT !.pc = pc, !.found = b] \in Task
  BY DEF Task

\* ... with the counter of its attempts,
LEMMA SetTries ==
  ASSUME NEW x \in Task, NEW pc \in Steps, NEW n \in 0..MaxAttempts
  PROVE  [x EXCEPT !.pc = pc, !.tries = n] \in Task /\ [x EXCEPT !.tries = n] \in Task
  BY DEF Task

\* ... with the number of rate limits it has waited for,
LEMMA SetLimited ==
  ASSUME NEW x \in Task, NEW n \in 0..LLMRetries
  PROVE  [x EXCEPT !.limited = n] \in Task
  BY DEF Task

\* ... and when it goes on to the next entry.
LEMMA SetNext ==
  ASSUME NEW x \in Task, NEW pc \in Steps, NEW todo \in Seq(Entries)
  PROVE  [x EXCEPT !.pc = pc, !.todo = todo, !.tries = 0, !.found = FALSE] \in Task
<1>1. 0 \in 0..MaxAttempts
  OBVIOUS
<1> QED BY <1>1 DEF Task

\* One more attempt is still within the bound.
LEMMA OneMoreTry ==
  ASSUME NEW x \in Task, NEW outcome, Retries(x.tries, outcome)
  PROVE  x.tries + 1 \in 0..MaxAttempts
  BY DEF Task, Retries

-----------------------------------------------------------------------------
(* Where the helpers leave an invocation.                                  *)

\* What an invocation at rest needs: nothing.
LEMMA IdleFits == OwnsItsRow(Idle) /\ KeepsTrack(Idle, stored)
  BY DEF OwnsItsRow, KeepsTrack, Saving, Idle

\* An exception leads to the except block of an upload, and nowhere else.
LEMMA Raised ==
  ASSUME IInv, NEW t \in Slots, task[t].pc # "idle"
  PROVE  LET y == Raise(task[t])
         IN  /\ y \in Task /\ OwnsItsRow(y) /\ KeepsTrack(y, stored)
             /\ y.pc \in {"idle", "fail"} /\ y.upload \in {0, task[t].upload}
             /\ y.found => y.pc = "fail"
<1> DEFINE x == task[t]
<1>1. x \in Task /\ OwnsItsRow(x)
  BY DEF IInv, TypeOK
<1>2. CASE x.upload = 0
  BY <1>2, IdleType, IdleFits DEF Raise, Idle
<1>3. CASE x.upload # 0
  <2> DEFINE y == [x EXCEPT !.pc = "fail", !.tries = 0]
  <2>1. Raise(x) = y
    BY <1>3 DEF Raise
  <2>2. "fail" \in Steps /\ 0 \in 0..MaxAttempts
    BY DEF Steps
  <2>3. y \in Task
    BY <1>1, <2>2, SetTries
  <2>4. y.pc = "fail" /\ y.upload = x.upload
    BY <1>1 DEF Task
  <2>5. OwnsItsRow(y) /\ KeepsTrack(y, stored)
    BY <1>1, <1>3, <2>4 DEF OwnsItsRow, KeepsTrack, Saving
  <2> HIDE DEF y
  <2> QED BY <2>1, <2>3, <2>4, <2>5
<1> QED BY <1>2, <1>3

\* When the entry is stored, the invocation goes on to the next one or to the
\* end, and still keeps track: of the entries in its CV, the first one to do is
\* stored and the others are in the rest.
LEMMA SavedFits ==
  ASSUME NEW x \in Task, x.pc = "write", OwnsItsRow(x),
         NEW st, KeepsTrack(x, st), st[Head(x.todo)] > 0
  PROVE  LET y == Saved(x)
         IN  /\ y \in Task /\ OwnsItsRow(y) /\ y.pc \in {"idle", "find", "complete"}
             /\ y.upload \in {0, x.upload} /\ ~y.found /\ KeepsTrack(y, st)
<1>0. /\ x.todo \in Seq(Entries) /\ Len(x.todo) \in Nat /\ Len(x.todo) # 0
      /\ \A i \in DOMAIN x.cv :
            st[x.cv[i]] > 0 \/ \E j \in DOMAIN x.todo : x.todo[j] = x.cv[i]
  BY EmptySeq, LenProperties DEF Task, KeepsTrack, Saving
<1>1. CASE Len(x.todo) > 1
  <2> DEFINE y == [x EXCEPT !.pc = "find", !.todo = Tail(x.todo), !.tries = 0,
                            !.found = FALSE]
  <2>1. Saved(x) = y
    BY <1>1 DEF Saved
  <2>2. /\ Tail(x.todo) \in Seq(Entries) /\ Len(Tail(x.todo)) = Len(x.todo) - 1
        /\ \A j \in 1..Len(Tail(x.todo)) : Tail(x.todo)[j] = x.todo[j + 1]
    BY <1>0, HeadTailProperties
  <2>3. "find" \in Steps
    BY DEF Steps
  <2>4. y \in Task
    BY <2>2, <2>3, SetNext
  <2>5. /\ y.pc = "find" /\ y.upload = x.upload /\ ~y.found /\ y.cv = x.cv
        /\ y.todo = Tail(x.todo)
    BY DEF Task
  <2> HIDE DEF y
  <2>6. OwnsItsRow(y) /\ Saving(y)
    BY <2>5 DEF OwnsItsRow, Saving
  <2>7. Len(y.todo) # 0 /\ y.todo # <<>>
    <3>1. Len(y.todo) = Len(x.todo) - 1
      BY <2>2, <2>5
    <3>2. Len(x.todo) \in Nat
      BY <1>0
    <3>3. \A n \in Nat : n > 1 => n - 1 # 0
      OBVIOUS
    <3>4. Len(y.todo) # 0
      BY <1>1, <3>1, <3>2, <3>3
    <3> QED BY <3>4, EmptySeq
  <2>8. ASSUME NEW i \in DOMAIN x.cv, ~(st[x.cv[i]] > 0)
        PROVE  \E j \in DOMAIN y.todo : y.todo[j] = x.cv[i]
    <3>1. PICK k \in DOMAIN x.todo : x.todo[k] = x.cv[i]
      BY <1>0, <2>8
    <3>2. k # 1 /\ k \in 1..Len(x.todo) /\ DOMAIN y.todo = 1..(Len(x.todo) - 1)
      BY <1>0, <2>2, <2>5, <2>8, <3>1
    <3>3. k - 1 \in DOMAIN y.todo /\ y.todo[k - 1] = x.todo[k]
      BY <1>0, <2>2, <2>5, <3>2
    <3> QED BY <3>1, <3>3
  <2> QED BY <2>1, <2>4, <2>5, <2>6, <2>7, <2>8 DEF KeepsTrack
<1>2. CASE ~(Len(x.todo) > 1) /\ x.upload = 0
  <2>1. Saved(x) = Idle
    BY <1>2 DEF Saved
  <2> QED BY <2>1, IdleType, IdleFits DEF Idle, Saving, KeepsTrack
<1>3. CASE ~(Len(x.todo) > 1) /\ x.upload # 0
  <2> DEFINE y == [x EXCEPT !.pc = "complete", !.todo = <<>>, !.tries = 0,
                            !.found = FALSE]
  <2>1. Saved(x) = y
    BY <1>3 DEF Saved
  <2>2. <<>> \in Seq(Entries)
    OBVIOUS
  <2>3. "complete" \in Steps
    BY DEF Steps
  <2>4. y \in Task
    BY <2>2, <2>3, SetNext
  <2>5. y.pc = "complete" /\ y.upload = x.upload /\ ~y.found /\ y.cv = x.cv
    BY DEF Task
  <2> HIDE DEF y
  <2>6. OwnsItsRow(y) /\ ~Saving(y)
    BY <1>3, <2>5 DEF OwnsItsRow, Saving
  <2>7. \A j \in DOMAIN x.todo : x.todo[j] = Head(x.todo)
    BY <1>0, <1>3
  <2> QED BY <1>0, <2>1, <2>4, <2>5, <2>6, <2>7 DEF KeepsTrack
<1> QED BY <1>1, <1>2, <1>3

-----------------------------------------------------------------------------
(* Steps that only move an invocation.                                     *)

\* What is left of the invariant after a step of one invocation, if the
\* invocation fits the rows it leaves.
LEMMA OnlyTask ==
  ASSUME IInv, NEW t \in Slots, NEW x \in Task, Become(t, x),
         x.found => x.pc \in {"write", "fail"},
         x.upload \in {0, task[t].upload},
         OwnsItsRow(x), KeepsTrack(x, stored),
         UNCHANGED <<uploads, next, stored>>, faults' \in 0..MaxFaults,
         lost' \subseteq UploadId,
         disturbed' \in BOOLEAN,
         ~disturbed' =>
            /\ ~disturbed
            /\ task[t].pc = "idle" => \A s \in Slots : task[s].pc = "idle"
            /\ x.pc = "write" /\ ~x.found /\ Kind[Head(x.todo)] = "keyed"
                  => stored[Head(x.todo)] = 0
  PROVE  IInv'
<1>1. /\ task' \in [Slots -> Task] /\ task'[t] = x
      /\ \A s \in Slots : s # t => task'[s] = task[s]
  BY DEF Become, IInv, TypeOK
<1>2. TypeOK'
  BY <1>1 DEF IInv, TypeOK
<1>3. \A s \in Slots : OwnsItsRow(task[s])' /\ KeepsTrack(task[s], stored)'
  <2> SUFFICES ASSUME NEW s \in Slots
               PROVE  OwnsItsRow(task'[s]) /\ KeepsTrack(task'[s], stored)
    BY DEF OwnsItsRow, KeepsTrack, Saving
  <2> QED BY <1>1 DEF IInv
<1>4. RowsAreNew' /\ CompletedIsSaved'
  BY DEF IInv, RowsAreNew, CompletedIsSaved
<1>5. OneOwner'
  BY <1>1 DEF IInv, OneOwner
<1>6. LookupIsFresh' /\ StoredOnce'
  BY <1>1 DEF IInv, LookupIsFresh, StoredOnce
<1> QED BY <1>2, <1>3, <1>4, <1>5, <1>6 DEF IInv

\* The tasks of a typed state.
LEMMA TaskFacts ==
  ASSUME IInv, NEW t \in Slots
  PROVE  /\ task[t] \in Task /\ OwnsItsRow(task[t]) /\ KeepsTrack(task[t], stored)
         /\ faults \in 0..MaxFaults /\ disturbed \in BOOLEAN
         /\ lost \subseteq UploadId
         /\ task[t].found => task[t].pc \in {"write", "fail"}
  BY DEF IInv, TypeOK

\* A fault stays within the bound.
LEMMA FaultType ==
  ASSUME IInv, Fault \/ UNCHANGED faults
  PROVE  faults' \in 0..MaxFaults
  BY DEF IInv, TypeOK, Fault

\* An invocation that ends.
LEMMA EndIInv ==
  ASSUME IInv, NEW t \in Slots, task[t].pc # "idle", Become(t, Idle),
         UNCHANGED <<uploads, next, stored, disturbed>>, faults' \in 0..MaxFaults,
         lost' \subseteq UploadId
  PROVE  IInv'
<1>1. ~Idle.found /\ Idle.upload = 0 /\ Idle.pc = "idle"
  BY DEF Idle
<1> HIDE DEF Idle
<1> QED BY <1>1, IdleType, IdleFits, TaskFacts, OnlyTask

\* An exception, with or without a fault.
LEMMA RaiseIInv ==
  ASSUME IInv, NEW t \in Slots, task[t].pc # "idle", Become(t, Raise(task[t])),
         UNCHANGED <<uploads, next, stored, disturbed, lost>>,
         Fault \/ UNCHANGED faults
  PROVE  IInv'
<1> DEFINE y == Raise(task[t])
<1>1. /\ y \in Task /\ OwnsItsRow(y) /\ KeepsTrack(y, stored) /\ y.pc \in {"idle", "fail"}
      /\ y.upload \in {0, task[t].upload} /\ (y.found => y.pc = "fail")
  BY Raised
<1> HIDE DEF y
<1>2. Become(t, y)
  BY DEF y
<1> QED BY <1>1, <1>2, TaskFacts, FaultType, OnlyTask

\* A killed invocation leaves its row as it is.
LEMMA KillIInv ==
  ASSUME IInv, NEW t \in Slots, Kill(t)
  PROVE  IInv'
<1>1. lost' = lost \cup ({task[t].upload} \ {0}) /\ task[t] \in Task
  BY TaskFacts DEF Kill
<1>2. lost' \subseteq UploadId
  BY <1>1, TaskFacts DEF Task
<1> QED BY <1>2, EndIInv, FaultType DEF Kill

\* The text of the file is extracted, or that fails.
LEMMA ExtractIInv ==
  ASSUME IInv, NEW t \in Slots, Extract(t)
  PROVE  IInv'
<1>1. CASE Become(t, Raise(task[t]))
  BY <1>1, RaiseIInv DEF Extract
<1>2. CASE Become(t, [task[t] EXCEPT !.pc = "llm"])
  <2> DEFINE y == [task[t] EXCEPT !.pc = "llm"]
  <2>1. task[t] \in Task /\ "llm" \in Steps
    BY TaskFacts DEF Steps
  <2>2. y \in Task /\ y.pc = "llm" /\ y.upload = task[t].upload /\ y.found = task[t].found
    BY <2>1, SetPc DEF Task
  <2> HIDE DEF y
  <2>3. OwnsItsRow(y) /\ KeepsTrack(y, stored) /\ ~y.found
    BY <2>2, TaskFacts DEF Extract, OwnsItsRow, KeepsTrack, Saving
  <2>4. Become(t, y)
    BY <1>2 DEF y
  <2> QED BY <2>2, <2>3, <2>4, TaskFacts, OnlyTask DEF Extract
<1> QED BY <1>1, <1>2 DEF Extract

\* The waits for the LLM count modulo their limit.
LEMMA OneMoreWait ==
  \A waits, most \in Nat : (waits + 1) % (most + 1) \in 0..most
<1>1. \A a \in Nat, b \in Nat \ {0} : a % b \in 0..(b - 1)
  OBVIOUS
<1>2. \A waits, most \in Nat :
        /\ waits + 1 \in Nat /\ most + 1 \in Nat \ {0}
        /\ (most + 1) - 1 = most
  OBVIOUS
<1> QED BY <1>1, <1>2

\* The LLM's answer becomes what there is to save.
LEMMA ParseIInv ==
  ASSUME IInv, NEW t \in Slots, Parse(t)
  PROVE  IInv'
<1> DEFINE x == task[t]
<1>0. x \in Task /\ OwnsItsRow(x) /\ x.pc = "llm" /\ ~x.found
  BY TaskFacts DEF Parse
<1>1. CASE Become(t, Raise(x))
  BY <1>1, RaiseIInv DEF Parse
<1>2. CASE Waits(x) /\ Become(t, [x EXCEPT !.limited = (@ + 1) % (LLMRetries + 1)])
  <2> DEFINE y == [x EXCEPT !.limited = (@ + 1) % (LLMRetries + 1)]
  <2>1. (x.limited + 1) % (LLMRetries + 1) \in 0..LLMRetries
    <3>1. x.limited \in Nat /\ LLMRetries \in Nat
      BY <1>0 DEF Task
    <3> QED BY <3>1, OneMoreWait
  <2>2. y \in Task
    BY <1>0, <2>1, SetLimited
  <2>3. y.pc = "llm" /\ y.upload = x.upload /\ ~y.found
    BY <1>0 DEF Task
  <2> HIDE DEF y
  <2>4. OwnsItsRow(y) /\ KeepsTrack(y, stored)
    BY <1>0, <2>3 DEF OwnsItsRow, KeepsTrack, Saving
  <2>5. Become(t, y)
    BY <1>2 DEF y
  <2> QED BY <1>0, <2>2, <2>3, <2>4, <2>5, TaskFacts, OnlyTask DEF Parse
<1>3. ASSUME NEW cv \in CVs,
             Become(t, [x EXCEPT !.pc = "find", !.cv = cv, !.todo = cv, !.limited = 0])
      PROVE  IInv'
  <2> DEFINE y == [x EXCEPT !.pc = "find", !.cv = cv, !.todo = cv, !.limited = 0]
  <2>1. "find" \in Steps
    BY DEF Steps
  <2>2. y \in Task
    BY <1>0, <2>1, SetParsed
  <2>3. /\ y.pc = "find" /\ y.upload = x.upload /\ ~y.found /\ y.cv = cv
        /\ y.todo = cv
    BY <1>0 DEF Task
  <2> HIDE DEF y
  <2>4. OwnsItsRow(y) /\ KeepsTrack(y, stored)
    BY <1>0, <2>3 DEF OwnsItsRow, KeepsTrack, Saving
  <2>5. Become(t, y)
    BY <1>3 DEF y
  <2> QED BY <1>0, <2>2, <2>3, <2>4, <2>5, TaskFacts, OnlyTask DEF Parse
<1> QED BY <1>1, <1>2, <1>3 DEF Parse

\* A lookup that found nothing is fresh.
LEMMA FindIInv ==
  ASSUME IInv, NEW t \in Slots, Find(t)
  PROVE  IInv'
<1> DEFINE x == task[t]
           y == [x EXCEPT !.pc = "write", !.found = Finds(Head(x.todo))]
<1>0. x \in Task /\ OwnsItsRow(x) /\ KeepsTrack(x, stored) /\ x.pc = "find"
  BY TaskFacts DEF Find
<1>1. CASE Become(t, SaveFailed(x)) /\ Fault
  BY <1>1, RaiseIInv DEF Find, SaveFailed
<1>2. CASE Become(t, y) /\ UNCHANGED faults
  <2>1. "write" \in Steps /\ Finds(Head(x.todo)) \in BOOLEAN
    BY DEF Steps, Finds
  <2>2. y \in Task
    BY <1>0, <2>1, SetFound
  <2>3. /\ y.pc = "write" /\ y.upload = x.upload /\ y.found = Finds(Head(x.todo))
        /\ y.todo = x.todo /\ y.cv = x.cv
    BY <1>0 DEF Task
  <2>4. Become(t, y)
    BY <1>2
  <2> HIDE DEF y
  <2>5. OwnsItsRow(y) /\ KeepsTrack(y, stored)
    BY <1>0, <2>3 DEF OwnsItsRow, KeepsTrack, Saving
  <2>6. Head(x.todo) \in Entries
    BY <1>0, EmptySeq, HeadTailProperties DEF Task, KeepsTrack, Saving
  <2>7. ~y.found /\ Kind[Head(y.todo)] = "keyed" => stored[Head(y.todo)] = 0
    <3>1. stored[Head(x.todo)] \in Nat
      BY <2>6 DEF IInv, TypeOK
    <3>2. ~y.found => ~Finds(Head(x.todo))
      BY <2>3
    <3>3. Kind[Head(x.todo)] = "keyed" /\ ~Finds(Head(x.todo)) => ~(stored[Head(x.todo)] > 0)
      BY DEF Finds, LookedUp
    <3>4. Kind[Head(x.todo)] = "keyed" /\ ~Finds(Head(x.todo)) => stored[Head(x.todo)] = 0
      BY <3>1, <3>3
    <3> QED BY <2>3, <3>2, <3>4
  <2> QED BY <1>0, <1>2, <2>2, <2>3, <2>4, <2>5, <2>7, TaskFacts, OnlyTask DEF Find
<1> QED BY <1>1, <1>2 DEF Find

\* The row that was found is written, or is gone.
LEMMA UpdateIInv ==
  ASSUME IInv, NEW t \in Slots, Update(t)
  PROVE  IInv'
<1> DEFINE x == task[t]
           y == Saved(x)
<1>0. x \in Task /\ OwnsItsRow(x) /\ KeepsTrack(x, stored) /\ x.pc = "write"
  BY TaskFacts DEF Update
<1>1. CASE Become(t, SaveFailed(x)) /\ (Fault \/ UNCHANGED faults)
  BY <1>1, RaiseIInv DEF Update, SaveFailed
<1>2. CASE Become(t, y) /\ stored[Head(x.todo)] # 0 /\ UNCHANGED faults
  <2>1. x.todo # <<>> /\ Head(x.todo) \in Entries
    BY <1>0, EmptySeq, HeadTailProperties DEF Task, KeepsTrack, Saving
  <2>2. stored[Head(x.todo)] > 0
    BY <1>2, <2>1 DEF IInv, TypeOK
  <2>3. /\ y \in Task /\ OwnsItsRow(y) /\ y.pc \in {"idle", "find", "complete"}
        /\ y.upload \in {0, x.upload} /\ ~y.found /\ KeepsTrack(y, stored)
    BY <1>0, <2>2, SavedFits
  <2>4. Become(t, y)
    BY <1>2
  <2> HIDE DEF y
  <2> QED BY <1>0, <1>2, <2>3, <2>4, TaskFacts, OnlyTask DEF Update
<1> QED BY <1>1, <1>2 DEF Update

-----------------------------------------------------------------------------
(* Steps that write a row.                                                 *)

\* A request only starts when its slot is free; that others are busy is noted.
LEMMA RequestIInv ==
  ASSUME IInv, NEW t \in Slots, Request(t)
  PROVE  IInv'
<1>1. ASSUME NEW x \in Task, Become(t, x), x.pc \in {"create", "find"}, ~x.found,
             x.upload = 0, KeepsTrack(x, stored)
      PROVE  IInv'
  <2>1. OwnsItsRow(x)
    BY <1>1 DEF OwnsItsRow
  <2>2. disturbed' \in BOOLEAN
    BY DEF Request, IInv, TypeOK
  <2>3. ~disturbed' => ~disturbed /\ \A s \in Slots : task[s].pc = "idle"
    BY DEF Request
  <2> QED BY <1>1, <2>1, <2>2, <2>3, TaskFacts, OnlyTask DEF Request
<1>2. CASE Become(t, [Idle EXCEPT !.pc = "create"])
  <2> DEFINE x == [Idle EXCEPT !.pc = "create"]
  <2>1. "create" \in Steps
    BY DEF Steps
  <2>2. x \in Task
    BY <2>1, IdleType, SetPc
  <2>3. x.pc = "create" /\ ~x.found /\ x.upload = 0
    BY DEF Idle
  <2>4. Become(t, x)
    BY <1>2
  <2> HIDE DEF x
  <2> QED BY <1>1, <2>2, <2>3, <2>4 DEF KeepsTrack, Saving
<1>3. ASSUME NEW e \in Entries, Become(t, [Idle EXCEPT !.pc = "find", !.todo = <<e>>])
      PROVE  IInv'
  <2> DEFINE x == [Idle EXCEPT !.pc = "find", !.todo = <<e>>]
  <2>1. "find" \in Steps
    BY DEF Steps
  <2>2. <<e>> \in Seq(Entries) /\ <<e>> # <<>>
    OBVIOUS
  <2>3. x \in Task
    BY <2>1, <2>2, IdleType, SetTodo
  <2>4. x.pc = "find" /\ ~x.found /\ x.upload = 0 /\ x.cv = <<>> /\ x.todo = <<e>>
    BY DEF Idle
  <2>5. Become(t, x)
    BY <1>3
  <2> HIDE DEF x
  <2>6. KeepsTrack(x, stored)
    BY <2>2, <2>4 DEF KeepsTrack
  <2> QED BY <1>1, <2>3, <2>4, <2>5, <2>6
<1> QED BY <1>2, <1>3 DEF Request

\* A stored entry other than a style sample stays stored, and what is stored
\* once more is refused by its index: what invocations and completed rows say
\* of the tables survives.
LEMMA WordsSurvive ==
  ASSUME IInv, NEW st \in [Entries -> Nat],
         \A e \in Entries : Kind[e] # "sample" /\ stored[e] > 0 => st[e] > 0
  PROVE  /\ \A x \in Task : KeepsTrack(x, stored) => KeepsTrack(x, st)
         /\ \A u \in UploadId : uploads[u].status = "completed" =>
               \A i \in DOMAIN uploads[u].cv : st[uploads[u].cv[i]] > 0
<1>1. ASSUME NEW cv \in CVs \cup {<<>>}, NEW i \in DOMAIN cv, stored[cv[i]] > 0
      PROVE  st[cv[i]] > 0
  BY <1>1, CvEntries
<1>2. \A x \in Task : x.cv \in CVs \cup {<<>>}
  BY DEF Task
<1>3. \A u \in UploadId : uploads[u].cv \in CVs \cup {<<>>}
  BY DEF IInv, TypeOK, Upload
<1>4. \A u \in UploadId : uploads[u].status = "completed" =>
               \A i \in DOMAIN uploads[u].cv : st[uploads[u].cv[i]] > 0
  BY <1>1, <1>3 DEF IInv, CompletedIsSaved
<1> QED BY <1>1, <1>2, <1>4 DEF KeepsTrack

\* A style sample is deleted; it is in no CV and not keyed.
LEMMA DeleteSampleIInv ==
  ASSUME IInv, DeleteSample
  PROVE  IInv'
<1>1. PICK e \in Entries :
        Kind[e] = "sample" /\ stored' = [stored EXCEPT ![e] = 0]
  BY DEF DeleteSample
<1>2. /\ stored \in [Entries -> Nat] /\ stored' \in [Entries -> Nat]
      /\ stored'[e] = 0 /\ \A f \in Entries : f # e => stored'[f] = stored[f]
  BY <1>1 DEF IInv, TypeOK
<1>3. UNCHANGED <<uploads, next, task, disturbed, lost, faults>>
  BY DEF DeleteSample
<1>4. TypeOK' /\ RowsAreNew' /\ OneOwner'
  BY <1>2, <1>3 DEF IInv, TypeOK, RowsAreNew, OneOwner
<1>5. (\A t \in Slots : KeepsTrack(task[t], stored')) /\ CompletedIsSaved'
  <2>1. \A f \in Entries : Kind[f] # "sample" /\ stored[f] > 0 => stored'[f] > 0
    BY <1>1, <1>2
  <2>2. \A t \in Slots : task[t] \in Task /\ KeepsTrack(task[t], stored)
    BY DEF IInv, TypeOK
  <2>3. \A u \in UploadId : uploads[u].status = "completed" =>
           \A i \in DOMAIN uploads[u].cv : stored'[uploads[u].cv[i]] > 0
    BY <1>2, <2>1, WordsSurvive
  <2>4. CompletedIsSaved'
    BY <1>3, <2>3 DEF CompletedIsSaved
  <2> QED BY <1>2, <2>1, <2>2, <2>4, WordsSurvive
<1>6. \A t \in Slots : OwnsItsRow(task[t])' /\ KeepsTrack(task[t], stored)'
  BY <1>3, <1>5 DEF IInv, OwnsItsRow, KeepsTrack, Saving
<1>7. LookupIsFresh'
  <2>1. ASSUME NEW t \in Slots, Saving(task[t]) PROVE Head(task[t].todo) \in Entries
    BY <2>1, EmptySeq, HeadTailProperties DEF IInv, TypeOK, Task, KeepsTrack
  <2> QED BY <1>1, <1>2, <1>3, <2>1 DEF IInv, LookupIsFresh, Saving
<1>8. StoredOnce'
  BY <1>2, <1>3 DEF IInv, StoredOnce
<1> QED BY <1>4, <1>5, <1>6, <1>7, <1>8 DEF IInv

\* An insert stores an entry that its index, if it has one, does not refuse,
\* and a keyed one without a lost reply only if it was not there.
LEMMA InsertIInv ==
  ASSUME IInv, NEW t \in Slots, Insert(t)
  PROVE  IInv'
<1> DEFINE x == task[t]
           e == Head(x.todo)
<1>0. /\ x \in Task /\ OwnsItsRow(x) /\ KeepsTrack(x, stored) /\ x.pc = "write" /\ ~x.found
      /\ x.todo # <<>> /\ UNCHANGED <<uploads, next, lost>>
  BY TaskFacts DEF Insert, KeepsTrack, Saving
<1>1. e \in Entries
  BY <1>0, EmptySeq, HeadTailProperties DEF Task
<1>2. PICK outcome \in Outcomes :
        /\ outcome = "ok" => Accepts(e)
        /\ stored' = IF Committed(outcome) /\ Accepts(e)
                     THEN [stored EXCEPT ![e] = @ + 1] ELSE stored
        /\ disturbed' = (disturbed \/ outcome = "reply_lost")
        /\ Fault \/ UNCHANGED faults
        /\ Become(t, IF outcome = "ok" THEN Saved(x)
                     ELSE IF Retries(x.tries, outcome) THEN [x EXCEPT !.tries = @ + 1]
                     ELSE SaveFailed(x))
  BY DEF Insert
<1> HIDE DEF e
<1>3. CASE stored' = stored /\ outcome # "ok"
  <2>1. CASE Become(t, SaveFailed(x))
    <3>1. Become(t, Raise(x))
      BY <2>1 DEF SaveFailed
    <3>2. LET y == Raise(x)
          IN  /\ y \in Task /\ OwnsItsRow(y) /\ KeepsTrack(y, stored) /\ y.pc \in {"idle", "fail"}
              /\ y.upload \in {0, x.upload} /\ (y.found => y.pc = "fail")
      BY <1>0, Raised
    <3> DEFINE y == Raise(x)
    <3>3. Become(t, y)
      BY <3>1
    <3>4. /\ disturbed' \in BOOLEAN /\ (~disturbed' => ~disturbed)
          /\ lost' \subseteq UploadId
      BY <1>0, <1>2 DEF IInv, TypeOK
    <3> HIDE DEF y
    <3> QED BY <1>0, <1>2, <1>3, <3>2, <3>3, <3>4, FaultType, OnlyTask DEF y
  <2>2. CASE Retries(x.tries, outcome) /\ Become(t, [x EXCEPT !.tries = @ + 1])
    <3> DEFINE y == [x EXCEPT !.tries = @ + 1]
    <3>1. x.tries + 1 \in 0..MaxAttempts
      BY <1>0, <2>2, OneMoreTry
    <3>2. y \in Task
      BY <1>0, <3>1, SetTries DEF Task
    <3>3. /\ y.pc = x.pc /\ y.upload = x.upload /\ y.found = x.found /\ y.cv = x.cv
          /\ y.todo = x.todo
      BY <1>0 DEF Task
    <3>4. Become(t, y)
      BY <2>2
    <3> HIDE DEF y
    <3>5. OwnsItsRow(y) /\ KeepsTrack(y, stored)
      BY <1>0, <3>3 DEF OwnsItsRow, KeepsTrack, Saving
    <3>6. /\ disturbed' \in BOOLEAN /\ (~disturbed' => ~disturbed)
          /\ lost' \subseteq UploadId
      BY <1>0, <1>2 DEF IInv, TypeOK
    <3>7. ~disturbed' /\ Kind[Head(y.todo)] = "keyed" => stored[Head(y.todo)] = 0
      BY <1>0, <3>3, <3>6 DEF IInv, LookupIsFresh
    <3> QED BY <1>0, <1>2, <1>3, <3>2, <3>3, <3>4, <3>5, <3>6, <3>7, FaultType, OnlyTask
  <2> QED BY <1>2, <1>3, <2>1, <2>2
<1>4. CASE stored' = [stored EXCEPT ![e] = @ + 1] /\ Accepts(e) /\ Committed(outcome)
  <2> DEFINE y == task'[t]
  <2>1. /\ stored \in [Entries -> Nat] /\ stored' \in [Entries -> Nat]
        /\ stored'[e] = stored[e] + 1 /\ stored'[e] > 0
        /\ \A f \in Entries : f # e => stored'[f] = stored[f]
        /\ \A f \in Entries : stored[f] > 0 => stored'[f] > 0
    BY <1>1, <1>4 DEF IInv, TypeOK
  <2>2. KeepsTrack(x, stored')
    BY <1>0, <2>1, WordsSurvive
  <2>3. task' = [task EXCEPT ![t] = y] /\ task \in [Slots -> Task]
    BY <1>2 DEF Become, IInv, TypeOK
  <2>4. /\ y \in Task /\ OwnsItsRow(y) /\ KeepsTrack(y, stored')
        /\ y.upload \in {0, x.upload} /\ (y.found => y.pc = "fail")
        /\ y.pc = "write" => y.todo = x.todo /\ outcome # "ok"
    <3>1. CASE outcome = "ok"
      <4>1. y = Saved(x)
        BY <1>2, <2>3, <3>1 DEF Become
      <4>2. stored'[Head(x.todo)] > 0
        BY <2>1 DEF e
      <4> QED BY <1>0, <2>2, <4>1, <4>2, SavedFits
    <3>2. CASE y = Raise(x)
      <4>1. /\ y \in Task /\ OwnsItsRow(y) /\ y.pc \in {"idle", "fail"}
            /\ y.upload \in {0, x.upload} /\ (y.found => y.pc = "fail")
        BY <1>0, <3>2, Raised
      <4> QED BY <4>1 DEF KeepsTrack, Saving
    <3>3. CASE Retries(x.tries, outcome) /\ y = [x EXCEPT !.tries = @ + 1]
                /\ outcome # "ok"
      <4>1. x.tries + 1 \in 0..MaxAttempts
        BY <1>0, <3>3, OneMoreTry
      <4>2. y \in Task
        <5>1. x.pc \in Steps
          BY <1>0 DEF Task
        <5>2. [x EXCEPT !.tries = x.tries + 1] \in Task
          BY <1>0, <4>1, <5>1, SetTries
        <5> QED BY <3>3, <5>2
      <4>3. /\ y.pc = x.pc /\ y.upload = x.upload /\ y.found = x.found
            /\ y.cv = x.cv /\ y.todo = x.todo
        BY <1>0, <3>3 DEF Task
      <4> HIDE DEF y
      <4> QED BY <1>0, <2>2, <3>3, <4>2, <4>3 DEF OwnsItsRow, KeepsTrack, Saving
    <3> QED BY <1>2, <2>3, <3>1, <3>2, <3>3 DEF Become, SaveFailed
  <2> HIDE DEF y
  <2>5. /\ task' \in [Slots -> Task] /\ task'[t] = y
        /\ \A s \in Slots : s # t => task'[s] = task[s]
    BY <2>3, <2>4
  <2>6. TypeOK'
    BY <1>0, <1>2, <2>1, <2>4, <2>5, FaultType DEF IInv, TypeOK
  <2>7. \A s \in Slots : OwnsItsRow(task[s])' /\ KeepsTrack(task[s], stored)'
    <3>1. \A s \in Slots : KeepsTrack(task[s], stored')
      BY <2>1, WordsSurvive DEF IInv, TypeOK
    <3>2. \A s \in Slots : OwnsItsRow(task'[s]) /\ KeepsTrack(task'[s], stored')
      BY <2>4, <2>5, <3>1 DEF IInv
    <3> QED BY <1>0, <3>2 DEF OwnsItsRow, KeepsTrack, Saving
  <2>8. RowsAreNew' /\ OneOwner'
    BY <1>0, <2>4, <2>5 DEF IInv, RowsAreNew, OneOwner
  <2>9. CompletedIsSaved'
    <3>1. \A u \in UploadId : uploads[u].status = "completed" =>
             \A i \in DOMAIN uploads[u].cv : stored'[uploads[u].cv[i]] > 0
      BY <2>1, WordsSurvive
    <3> QED BY <1>0, <3>1 DEF CompletedIsSaved
  <2>10. ~disturbed' => outcome = "ok" /\ ~disturbed
    BY <1>2, <1>4 DEF Committed
  <2>11. LookupIsFresh'
    BY <1>0, <2>4, <2>5, <2>10 DEF IInv, LookupIsFresh
  <2>12. StoredOnce'
    <3>1. Kind[e] \in Indexed \/ (Kind[e] = "keyed" /\ ~disturbed') => stored'[e] <= 1
      <4>1. Kind[e] \in Indexed => stored[e] = 0
        BY <1>4 DEF Accepts
      <4>2. Kind[e] = "keyed" /\ ~disturbed' => stored[e] = 0
        BY <1>0, <2>10 DEF IInv, LookupIsFresh, e
      <4> QED BY <2>1, <4>1, <4>2
    <3>2. ~disturbed' => ~disturbed
      BY <2>10
    <3> QED BY <2>1, <3>1, <3>2 DEF IInv, StoredOnce
  <2> QED BY <2>6, <2>7, <2>8, <2>9, <2>11, <2>12 DEF IInv
<1> QED BY <1>2, <1>3, <1>4 DEF Committed

\* The row of a new upload is new, and its invocation the only one to own it.
LEMMA CreateUploadIInv ==
  ASSUME IInv, NEW t \in Slots, CreateUpload(t)
  PROVE  IInv'
<1> DEFINE x == task[t]
           y == task'[t]
<1>0. /\ x \in Task /\ OwnsItsRow(x) /\ x.pc = "create" /\ ~x.found /\ x.upload = 0
      /\ next \in Nat /\ next >= 1 /\ UNCHANGED <<stored, disturbed>>
  BY TaskFacts DEF CreateUpload, OwnsItsRow, IInv, TypeOK
<1>1. PICK outcome \in Outcomes :
        /\ Committed(outcome) => next <= MaxUploads
        /\ IF Committed(outcome)
           THEN SetStatus(next, "processing", <<>>) /\ next' = next + 1
           ELSE UNCHANGED <<uploads, next>>
        /\ lost' = IF outcome = "reply_lost" THEN lost \cup {next} ELSE lost
        /\ Fault \/ UNCHANGED faults
        /\ Become(t, IF outcome = "ok"
                     THEN [Idle EXCEPT !.pc = "extract", !.upload = next]
                     ELSE IF Retries(x.tries, outcome) THEN [x EXCEPT !.tries = @ + 1]
                     ELSE Idle)
  BY DEF CreateUpload
<1>2. task' = [task EXCEPT ![t] = y] /\ task \in [Slots -> Task]
  BY <1>1 DEF Become, IInv, TypeOK
<1>3. /\ y \in Task /\ ~y.found /\ ~Saving(y) /\ y.pc # "complete"
      /\ \/ y.upload = 0 /\ y.pc \in {"idle", "create"}
         \/ y.upload = next /\ y.pc = "extract" /\ outcome = "ok"
  <2>1. CASE outcome = "ok"
    <3>1. y = [Idle EXCEPT !.pc = "extract", !.upload = next]
      BY <1>1, <1>2, <2>1 DEF Become
    <3>2. next \in UploadId
      BY <1>0, <1>1, <2>1 DEF Committed, UploadId
    <3>3. "extract" \in Steps
      BY DEF Steps
    <3>4. y \in Task
      <4>1. [Idle EXCEPT !.pc = "extract", !.upload = next] \in Task
        BY <3>2, <3>3, IdleType, SetUpload
      <4> QED BY <3>1, <4>1
    <3>5. y.pc = "extract" /\ y.upload = next /\ ~y.found
      BY <3>1 DEF Idle
    <3> HIDE DEF y
    <3> QED BY <2>1, <3>4, <3>5 DEF Saving
  <2>2. CASE y = Idle
    BY <2>2, IdleType DEF Idle, Saving
  <2>3. CASE Retries(x.tries, outcome) /\ y = [x EXCEPT !.tries = @ + 1]
    <3>1. x.tries + 1 \in 0..MaxAttempts
      BY <1>0, <2>3, OneMoreTry
    <3>2. x.pc \in Steps
      BY <1>0 DEF Task
    <3>3. [x EXCEPT !.tries = x.tries + 1] \in Task
      BY <1>0, <3>1, <3>2, SetTries
    <3>4. y \in Task /\ y.pc = x.pc /\ y.upload = x.upload /\ y.found = x.found
      BY <1>0, <2>3, <3>3 DEF Task
    <3> QED BY <1>0, <3>4 DEF Saving
  <2> QED BY <1>1, <1>2, <2>1, <2>2, <2>3 DEF Become
<1> HIDE DEF y
<1>4. /\ task' \in [Slots -> Task] /\ task'[t] = y
      /\ \A s \in Slots : s # t => task'[s] = task[s]
  BY <1>2, <1>3
<1>5. /\ next' \in 1..(MaxUploads + 1) /\ next' >= next
      /\ uploads' \in [UploadId -> Upload]
      /\ \A u \in UploadId : u # next => uploads'[u] = uploads[u]
      /\ outcome = "ok" => next' = next + 1 /\ next \in UploadId
                           /\ uploads'[next].status = "processing"
      /\ \A u \in UploadId : uploads'[u].status = "completed" => uploads'[u] = uploads[u]
      /\ \A u \in UploadId : u >= next' => u # next \/ uploads'[u] = uploads[u]
  <2>1. CASE Committed(outcome)
    <3>1. /\ uploads' = [uploads EXCEPT ![next] = [status |-> "processing", cv |-> <<>>]]
          /\ next' = next + 1 /\ next \in UploadId
      BY <1>0, <1>1, <2>1 DEF SetStatus, UploadId
    <3>2. [status |-> "processing", cv |-> <<>>] \in Upload
      BY DEF Upload
    <3>3. uploads \in [UploadId -> Upload]
      BY DEF IInv, TypeOK
    <3>4. next' \in 1..(MaxUploads + 1) /\ next' >= next
          /\ \A u \in UploadId : u >= next' => u # next
      BY <1>0, <3>1 DEF UploadId
    <3> QED BY <3>1, <3>2, <3>3, <3>4
  <2>2. CASE ~Committed(outcome)
    BY <1>0, <1>1, <2>2 DEF IInv, TypeOK, Committed
  <2> QED BY <2>1, <2>2
<1>12. lost' \subseteq UploadId
  BY <1>0, <1>1, TaskFacts DEF Committed, UploadId
<1>6. TypeOK'
  BY <1>0, <1>1, <1>3, <1>4, <1>5, <1>12, FaultType DEF IInv, TypeOK
<1>7. ASSUME NEW s \in Slots
      PROVE  OwnsItsRow(task[s])' /\ KeepsTrack(task[s], stored)'
  <2>1. CASE s = t
    <3>1. KeepsTrack(y, stored)
      BY <1>3 DEF KeepsTrack
    <3>2. OwnsItsRow(task[t])'
      BY <1>0, <1>3, <1>4, <1>5 DEF OwnsItsRow
    <3>3. KeepsTrack(task[t], stored)'
      BY <1>0, <1>4, <3>1 DEF KeepsTrack, Saving
    <3> QED BY <2>1, <3>2, <3>3
  <2>2. CASE s # t
    <3>1. /\ task'[s] = task[s] /\ OwnsItsRow(task[s]) /\ KeepsTrack(task[s], stored)
          /\ task[s].upload \in {0} \cup UploadId
      BY <1>4, <2>2 DEF IInv, TypeOK, Task
    <3>2. task[s].upload # 0 =>
            task[s].upload < next' /\ uploads'[task[s].upload] = uploads[task[s].upload]
      BY <1>0, <1>5, <3>1 DEF OwnsItsRow, UploadId
    <3>3. OwnsItsRow(task[s])'
      BY <3>1, <3>2 DEF OwnsItsRow
    <3> QED BY <1>0, <3>1, <3>3 DEF KeepsTrack, Saving
  <2> QED BY <2>1, <2>2
<1>8. RowsAreNew'
  BY <1>0, <1>5 DEF IInv, RowsAreNew, UploadId
<1>9. OneOwner'
  <2>1. \A s \in Slots : s # t => task'[s].upload = 0 \/ task'[s].upload < next
    BY <1>4 DEF IInv, OwnsItsRow
  <2>2. y.upload = 0 \/ y.upload = next
    BY <1>3
  <2>3. \A s \in Slots : s # t /\ task'[s].upload = y.upload => y.upload = 0
    BY <1>0, <2>1, <2>2
  <2> QED BY <1>4, <2>3 DEF IInv, OneOwner
<1>10. LookupIsFresh' /\ StoredOnce'
  BY <1>0, <1>3, <1>4 DEF IInv, LookupIsFresh, StoredOnce
<1>11. CompletedIsSaved'
  BY <1>0, <1>5 DEF IInv, CompletedIsSaved
<1> QED BY <1>6, <1>7, <1>8, <1>9, <1>10, <1>11 DEF IInv

\* A row gets its outcome from the only invocation that owns it, which has
\* saved everything if it says so, and is at rest or in the except block then.
LEMMA OutcomeIInv ==
  ASSUME IInv, NEW t \in Slots, NEW y \in Task, Become(t, y),
         task[t].upload # 0, NEW status \in {"completed", "failed"},
         NEW cv \in CVs \cup {<<>>},
         SetStatus(task[t].upload, status, cv),
         status = "completed" => \A i \in DOMAIN cv : stored[cv[i]] > 0,
         y = Idle \/ (y.pc = "fail" /\ y.upload = task[t].upload
                      /\ status = "completed"),
         task[t].pc # "idle",
         UNCHANGED <<next, stored, disturbed, lost>>, faults' \in 0..MaxFaults
  PROVE  IInv'
<1> DEFINE r == task[t].upload
<1>0. r \in UploadId /\ r < next /\ r \in Nat /\ next \in Nat
  <2>1. r \in UploadId /\ r < next
    BY TaskFacts DEF Task, OwnsItsRow
  <2>2. next \in Nat
    BY DEF IInv, TypeOK
  <2> QED BY <2>1, <2>2 DEF UploadId
<1>1. /\ uploads \in [UploadId -> Upload] /\ uploads' \in [UploadId -> Upload]
      /\ uploads'[r].status = status /\ uploads'[r].cv = cv
      /\ \A u \in UploadId : u # r => uploads'[u] = uploads[u]
  <2>1. [status |-> status, cv |-> cv] \in Upload
    BY DEF Upload
  <2> QED BY <1>0, <2>1 DEF SetStatus, IInv, TypeOK
<1>2. /\ task' \in [Slots -> Task] /\ task'[t] = y
      /\ \A s \in Slots : s # t => task'[s] = task[s] /\ (task[s].upload # r \/ r = 0)
  BY DEF Become, IInv, TypeOK, OneOwner
<1>3. /\ y.pc \in {"idle", "fail"} /\ (y.pc = "idle" => ~y.found)
      /\ y.upload = 0 \/ y.upload = r
  BY DEF Idle
<1>4. TypeOK'
  BY <1>1, <1>2, <1>3 DEF IInv, TypeOK
<1>5. ASSUME NEW s \in Slots
      PROVE  OwnsItsRow(task[s])' /\ KeepsTrack(task[s], stored)'
  <2>1. CASE s = t
    <3>1. OwnsItsRow(y)'
      BY <1>0, <1>1, <1>3 DEF OwnsItsRow, Idle
    <3> QED BY <1>2, <1>3, <2>1, <3>1 DEF OwnsItsRow, KeepsTrack, Saving
  <2>2. CASE s # t
    <3>1. /\ task'[s] = task[s] /\ OwnsItsRow(task[s]) /\ KeepsTrack(task[s], stored)
          /\ task[s].upload \in {0} \cup UploadId /\ task[s].upload # r
      BY <1>2, <2>2 DEF IInv, TypeOK, Task
    <3>2. OwnsItsRow(task[s])'
      BY <1>1, <3>1 DEF OwnsItsRow
    <3> QED BY <3>1, <3>2 DEF KeepsTrack, Saving
  <2> QED BY <2>1, <2>2
<1>6. RowsAreNew'
  BY <1>0, <1>1 DEF IInv, RowsAreNew, UploadId
<1>7. OneOwner'
  BY <1>2, <1>3 DEF IInv, OneOwner
<1>8. LookupIsFresh' /\ StoredOnce'
  BY <1>2, <1>3 DEF IInv, LookupIsFresh, StoredOnce
<1>9. CompletedIsSaved'
  BY <1>1 DEF IInv, CompletedIsSaved
<1> QED BY <1>4, <1>5, <1>6, <1>7, <1>8, <1>9 DEF IInv

\* The upload is marked as completed; the call may raise although it is applied.
LEMMA MarkCompletedIInv ==
  ASSUME IInv, NEW t \in Slots, MarkCompleted(t)
  PROVE  IInv'
<1> DEFINE x == task[t]
<1>0. /\ x \in Task /\ OwnsItsRow(x) /\ KeepsTrack(x, stored) /\ x.pc = "complete"
      /\ x.upload # 0 /\ x.cv \in CVs \cup {<<>>}
      /\ \A i \in DOMAIN x.cv : stored[x.cv[i]] > 0
      /\ UNCHANGED <<next, stored, disturbed, lost>>
  BY TaskFacts DEF MarkCompleted, OwnsItsRow, KeepsTrack, Saving, Task
<1>1. CASE SetStatus(x.upload, "completed", x.cv) /\ Become(t, Idle) /\ UNCHANGED faults
  BY <1>0, <1>1, IdleType, FaultType, OutcomeIInv
<1>2. CASE SetStatus(x.upload, "completed", x.cv) /\ Become(t, Raise(x)) /\ Fault
  <2> DEFINE y == Raise(x)
  <2>1. y \in Task /\ y.pc = "fail" /\ y.upload = x.upload
    BY <1>0, Raised DEF Raise, Task
  <2>2. Become(t, y)
    BY <1>2
  <2> HIDE DEF y
  <2> QED BY <1>0, <1>2, <2>1, <2>2, FaultType, OutcomeIInv
<1>3. CASE UNCHANGED uploads /\ Become(t, Raise(x)) /\ Fault
  BY <1>0, <1>3, RaiseIInv
<1> QED BY <1>1, <1>2, <1>3 DEF MarkCompleted

\* The upload is marked as failed.
LEMMA MarkFailedIInv ==
  ASSUME IInv, NEW t \in Slots, MarkFailed(t)
  PROVE  IInv'
<1> DEFINE x == task[t]
<1>0. /\ x.pc = "fail" /\ x.upload # 0 /\ Become(t, Idle)
      /\ UNCHANGED <<next, stored, disturbed>>
  BY TaskFacts DEF MarkFailed, OwnsItsRow
<1>1. CASE SetStatus(x.upload, "failed", <<>>) /\ UNCHANGED <<lost, faults>>
  BY <1>0, <1>1, IdleType, FaultType, OutcomeIInv
<1>2. CASE UNCHANGED uploads /\ lost' = lost \cup {x.upload} /\ Fault
  <2>1. lost' \subseteq UploadId
    BY <1>0, <1>2, TaskFacts DEF Task
  <2> QED BY <1>0, <1>2, <2>1, FaultType, EndIInv
<1> QED BY <1>1, <1>2 DEF MarkFailed, FailedStatus

-----------------------------------------------------------------------------
(* The invariant, and what follows from it.                                *)

\* The invariant holds at first.
LEMMA InitIInv == Init => IInv
<1> SUFFICES ASSUME Init PROVE IInv
  OBVIOUS
<1>1. [status |-> "absent", cv |-> <<>>] \in Upload
  BY DEF Upload
<1>2. next \in 1..(MaxUploads + 1) /\ faults \in 0..MaxFaults
  BY DEF Init
<1>3. \A t \in Slots : task[t] = Idle
  BY DEF Init
<1>4. TypeOK
  BY <1>1, <1>2, IdleType DEF Init, TypeOK, Idle
<1>5. RowsAreNew /\ StoredOnce /\ CompletedIsSaved
  BY DEF Init, RowsAreNew, StoredOnce, CompletedIsSaved
<1>6. OneOwner /\ LookupIsFresh
  BY <1>3 DEF Init, OneOwner, LookupIsFresh, Idle
<1> QED BY <1>3, <1>4, <1>5, <1>6, IdleFits DEF IInv, KeepsTrack, Saving, Idle

\* Every step keeps it.
LEMMA NextIInv == IInv /\ [Next]_vars => IInv'
<1> SUFFICES ASSUME IInv, [Next]_vars PROVE IInv'
  OBVIOUS
<1>1. ASSUME NEW t \in Slots, Advance(t)
      PROVE  IInv'
  BY <1>1, CreateUploadIInv, ExtractIInv, ParseIInv, FindIInv, UpdateIInv,
     InsertIInv, MarkCompletedIInv, MarkFailedIInv DEF Advance
<1>2. CASE UNCHANGED vars
  <2>1. TypeOK' /\ RowsAreNew' /\ OneOwner' /\ LookupIsFresh'
    BY <1>2 DEF vars, IInv, TypeOK, RowsAreNew, OneOwner, LookupIsFresh
  <2>2. StoredOnce' /\ CompletedIsSaved'
    BY <1>2 DEF vars, IInv, StoredOnce, CompletedIsSaved
  <2>3. \A t \in Slots : OwnsItsRow(task[t])' /\ KeepsTrack(task[t], stored)'
    BY <1>2 DEF vars, IInv, OwnsItsRow, KeepsTrack, Saving
  <2> QED BY <2>1, <2>2, <2>3 DEF IInv
<1> QED BY <1>1, <1>2, RequestIInv, KillIInv, DeleteSampleIInv DEF Next

\* The invariant holds throughout.
LEMMA Inductive == Spec => []IInv
  BY InitIInv, NextIInv, PTL DEF Spec

\* The tables and the invocations keep their types, and a lookup's result is
\* used for the entry it was made for.
THEOREM TypeCorrect == Spec => []TypeOK
  BY Inductive, PTL DEF IInv

\* Entries with an index are stored once whatever overlaps and is retried, and
\* keyed ones as long as nothing overlaps and no reply is lost.
THEOREM EntriesAreStoredOnce == Spec => []StoredOnce
  BY Inductive, PTL DEF IInv

\* A completed upload has saved everything its CV said.
THEOREM CompletedUploadsAreSaved == Spec => []CompletedIsSaved
  BY Inductive, PTL DEF IInv

\* Writing the status of a row moves it in the client's view.
LEMMA StatusMoves ==
  ASSUME IInv, NEW u \in UploadId, NEW status \in {"processing", "completed", "failed"},
         NEW cv, SetStatus(u, status, cv), NEW from, Status(u) \in from
  PROVE  Tracked!Move(u, from, IF status = "processing" THEN "open" ELSE status)
<1>1. /\ uploads \in [UploadId -> Upload]
      /\ uploads' = [uploads EXCEPT ![u] = [status |-> status, cv |-> cv]]
  BY DEF IInv, TypeOK, SetStatus
<1>2. \A v \in UploadId : uploads'[v].status =
         IF v = u THEN status ELSE uploads[v].status
  BY <1>1
<1>3. \A v \in UploadId : (IF uploads'[v].status = "processing" THEN "open"
                           ELSE uploads'[v].status)
         = IF v = u THEN (IF status = "processing" THEN "open" ELSE status)
           ELSE Status(v)
  BY <1>2 DEF Status
<1> QED BY <1>3 DEF Tracked!Move, Status

\* Every step moves at most one row, as TrackedTask allows.
LEMMA StepIsTracked ==
  ASSUME IInv, Next
  PROVE  Tracked!Next \/ UNCHANGED [u \in UploadId |-> Status(u)]
<1>1. CASE UNCHANGED uploads
  BY <1>1 DEF Status
<1>2. ASSUME NEW t \in Slots, CreateUpload(t), ~UNCHANGED uploads
      PROVE  Tracked!Next
  <2>1. next \in UploadId /\ SetStatus(next, "processing", <<>>)
    BY <1>2 DEF CreateUpload, IInv, TypeOK, UploadId
  <2>2. Status(next) \in {"absent"}
    BY <2>1 DEF IInv, TypeOK, RowsAreNew, Status, UploadId
  <2>3. Tracked!Open(next)
    BY <2>1, <2>2, StatusMoves DEF Tracked!Open
  <2> QED BY <2>1, <2>3 DEF Tracked!Next
<1>3. ASSUME NEW t \in Slots, MarkCompleted(t), ~UNCHANGED uploads
      PROVE  Tracked!Next
  <2> DEFINE u == task[t].upload
  <2>1. /\ u \in UploadId /\ uploads[u].status = "processing"
        /\ SetStatus(u, "completed", task[t].cv)
    BY <1>3, TaskFacts DEF MarkCompleted, OwnsItsRow, Task
  <2>2. Status(u) \in {"open"}
    BY <2>1 DEF Status
  <2>3. Tracked!Complete(u)
    BY <2>1, <2>2, StatusMoves DEF Tracked!Complete
  <2> QED BY <2>1, <2>3 DEF Tracked!Next
<1>4. ASSUME NEW t \in Slots, MarkFailed(t), ~UNCHANGED uploads
      PROVE  Tracked!Next
  <2> DEFINE u == task[t].upload
  <2>1. /\ u \in UploadId /\ uploads[u].status \in {"processing", "completed"}
        /\ SetStatus(u, "failed", <<>>)
    BY <1>4, TaskFacts DEF MarkFailed, OwnsItsRow, Task, FailedStatus
  <2>2. Status(u) \in {"open", "completed"}
    BY <2>1 DEF Status
  <2>3. Tracked!Fail(u)
    BY <2>1, <2>2, StatusMoves DEF Tracked!Fail
  <2> QED BY <2>1, <2>3 DEF Tracked!Next
<1>5. CASE ~UNCHANGED uploads
  BY <1>2, <1>3, <1>4, <1>5 DEF Next, Advance, Request, Extract, Parse, Find, Update,
     Insert, Kill, DeleteSample
<1> QED BY <1>1, <1>5

\* Uploads implement TrackedTask: a client that polls a row never sees an
\* outcome withdrawn, but for a success whose marking raised.
THEOREM UploadsImplementTrackedTask == Spec => UploadsAreTrackedTasks
<1>1. Init => Tracked!Init
  BY DEF Init, Tracked!Init, Status
<1>2. IInv /\ [Next]_vars => [Tracked!Next]_([u \in UploadId |-> Status(u)])
  BY StepIsTracked DEF vars, Status
<1> QED BY <1>1, <1>2, Inductive, PTL DEF Spec, UploadsAreTrackedTasks, Tracked!Spec
=============================================================================

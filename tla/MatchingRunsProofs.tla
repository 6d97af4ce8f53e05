------------------------ MODULE MatchingRunsProofs ------------------------
(***************************************************************************)
(* Proofs about the matching runs of a track, for any number of            *)
(* invocations, rows, jobs and attempts and any MaxDuration <= StaleAfter. *)
(*                                                                         *)
(* The lemmas first type the records of an invocation and of a row field   *)
(* by field, then say what a step of one invocation may change (its own    *)
(* record, one row); each conjunct of IInv is then shown to be preserved   *)
(* by every action, and the theorems follow from Inductive.                *)
(***************************************************************************)
EXTENDS MatchingRuns, TLAPS

USE BoundsAssumption, DurationAssumption, AttemptsAssumption

\* Typing of an invocation's record, one field at a time: the provers do not
\* type an EXCEPT of several fields in one step.
LEMMA IdleType == Idle \in Invocation
  BY DEF Idle, Invocation, Steps, NoRun, Errors

\* Invocations stay typed when their control point is replaced.
LEMMA SetPc ==
  ASSUME NEW x \in Invocation, NEW pc \in Steps
  PROVE  [x EXCEPT !.pc = pc] \in Invocation
  BY DEF Invocation

\* Invocations stay typed when their failed attempts are replaced.
LEMMA SetTries ==
  ASSUME NEW x \in Invocation, NEW n \in 0..MaxAttempts
  PROVE  [x EXCEPT !.tries = n] \in Invocation
  BY DEF Invocation

\* Invocations stay typed when their exception is replaced.
LEMMA SetError ==
  ASSUME NEW x \in Invocation, NEW e \in Errors
  PROVE  [x EXCEPT !.error = e] \in Invocation
  BY DEF Invocation

\* Invocations stay typed when their row is replaced.
LEMMA SetRun ==
  ASSUME NEW x \in Invocation, NEW r \in RunId \cup {NoRun}
  PROVE  [x EXCEPT !.run = r] \in Invocation
  BY DEF Invocation

\* Invocations stay typed when their snapshot size is replaced.
LEMMA SetTotal ==
  ASSUME NEW x \in Invocation, NEW n \in 0..MaxJobs
  PROVE  [x EXCEPT !.total = n] \in Invocation
  BY DEF Invocation

\* Invocations stay typed when their progress is replaced.
LEMMA SetDone ==
  ASSUME NEW x \in Invocation, NEW n \in 0..MaxJobs
  PROVE  [x EXCEPT !.done = n] \in Invocation
  BY DEF Invocation

LEMMA AtType ==
  ASSUME TypeOK, NEW v \in Invocations, NEW pc \in Steps
  PROVE  At(v, pc) \in Invocation
<1>1. inv[v] \in Invocation /\ 0 \in 0..MaxAttempts
  BY DEF TypeOK
<1>2. [inv[v] EXCEPT !.pc = pc] \in Invocation
  BY <1>1, SetPc
<1>3. [[inv[v] EXCEPT !.pc = pc] EXCEPT !.tries = 0] \in Invocation
  BY <1>1, <1>2, SetTries
<1> QED BY <1>3 DEF At

\* At(v, pc) moves the program counter and forgets the failed attempts.
LEMMA AtFields ==
  ASSUME TypeOK, NEW v \in Invocations, NEW pc \in Steps
  PROVE  /\ At(v, pc).pc = pc
         /\ At(v, pc).run = inv[v].run
         /\ At(v, pc).error = inv[v].error
         /\ At(v, pc).done = inv[v].done
         /\ At(v, pc).total = inv[v].total
         /\ At(v, pc).age = inv[v].age
<1>1. inv[v] \in Invocation
  BY DEF TypeOK
<1> QED BY <1>1 DEF At, Invocation

\* The same for an invocation that enters the except block.
LEMMA FailingFields ==
  ASSUME TypeOK, NEW v \in Invocations, NEW e \in Errors
  PROVE  /\ Failing(v, e).pc = "fail"
         /\ Failing(v, e).run = inv[v].run
         /\ Failing(v, e).error = e
         /\ Failing(v, e).age = inv[v].age
<1>1. inv[v] \in Invocation
  BY DEF TypeOK
<1> QED BY <1>1 DEF Failing, Invocation

LEMMA FailingType ==
  ASSUME TypeOK, NEW v \in Invocations, NEW e \in Errors
  PROVE  Failing(v, e) \in Invocation
<1>1. "fail" \in Steps
  BY DEF Steps
<1>2. [At(v, "fail") EXCEPT !.error = e] \in Invocation
  BY <1>1, AtType, SetError
<1> QED BY <1>2 DEF Failing, At

\* Replacing one invocation by a typed record keeps the slots typed.
LEMMA Moved ==
  ASSUME TypeOK, NEW v \in Invocations, NEW x \in Invocation,
         inv' = [inv EXCEPT ![v] = x]
  PROVE  /\ inv' \in [Invocations -> Invocation]
         /\ inv'[v] = x
         /\ \A w \in Invocations : w # v => inv'[w] = inv[w]
  BY DEF TypeOK

\* The invocation stands where it stood: the same call is about to be retried.
Again(v) ==
    /\ inv'[v].pc = inv[v].pc /\ inv'[v].run = inv[v].run
    /\ inv'[v].error = inv[v].error /\ inv'[v].done = inv[v].done
    /\ inv'[v].total = inv[v].total /\ inv'[v].age = inv[v].age

\* Where a database call leaves its caller.
LEMMA Called ==
  ASSUME TypeOK, NEW v \in Invocations, NEW outcome \in Outcomes,
         NEW a \in Invocation, NEW b \in Invocation,
         inv' = AfterCall(v, outcome, a, b)
  PROVE  /\ inv' \in [Invocations -> Invocation]
         /\ \A w \in Invocations : w # v => inv'[w] = inv[w]
         /\ \/ outcome = "ok" /\ inv'[v] = a
            \/ outcome # "ok" /\ Again(v)
            \/ outcome # "ok" /\ inv'[v] = b
<1>1. CASE outcome = "ok"
  BY <1>1, Moved DEF AfterCall
<1>2. CASE outcome # "ok" /\ Retries(inv[v].tries, outcome)
  <2>1. inv' = [inv EXCEPT ![v] = [inv[v] EXCEPT !.tries = @ + 1]]
    BY <1>2 DEF AfterCall, Tried
  <2>2. inv[v] \in Invocation
    BY DEF TypeOK
  <2>3. inv[v].tries + 1 \in 0..MaxAttempts
    BY <1>2, <2>2 DEF Retries, Invocation
  <2>4. [inv[v] EXCEPT !.tries = @ + 1] \in Invocation
    BY <2>2, <2>3 DEF Invocation
  <2>5. inv'[v] = [inv[v] EXCEPT !.tries = @ + 1]
    BY <2>1, <2>4, Moved
  <2>6. Again(v)
    BY <2>2, <2>5 DEF Again, Invocation
  <2> QED BY <1>2, <2>1, <2>4, <2>6, Moved
<1>3. CASE outcome # "ok" /\ ~Retries(inv[v].tries, outcome)
  BY <1>3, Moved DEF AfterCall
<1> QED BY <1>1, <1>2, <1>3

\* Base case: every slot idle, no row inserted.
LEMMA InitIInv == Init => IInv
  BY DEF Init, IInv, TypeOK, Ownership, Unused, Ages, Sorted, Reaping, OwnRows, OwnRow, Loop, LoopAt,
     CompletedRunsAreWhole, Working, Idle, AbsentRow, Row, Invocation, RunId,
     NoRun, NoTotal, Capped, Errors, Steps

\* A new request touches no row and works on none.
LEMMA TriggerIInv ==
  ASSUME IInv, NEW v \in Invocations, Trigger(v)
  PROVE  IInv'
<1> DEFINE x == [Idle EXCEPT !.pc = "select"]
<1>0. x \in Invocation /\ x.pc = "select"
  BY DEF Idle, Invocation, Steps, NoRun, Errors
<1>1. TypeOK'
  BY <1>0, Moved DEF TypeOK, Trigger, IInv
<1>2. /\ UNCHANGED <<rows, nextRow>> /\ inv'[v].pc = "select"
      /\ \A w \in Invocations : w # v => inv'[w] = inv[w]
  BY <1>0, Moved DEF Trigger, IInv
<1> QED
  BY <1>1, <1>2 DEF IInv, TypeOK, Ownership, Unused, Ages, Sorted, Reaping, OwnRows, OwnRow, Loop, LoopAt,
     CompletedRunsAreWhole, Working, Whole

\* A step that leaves rows alone and moves one invocation out of work, or from
\* one read-only point to another.
LEMMA OffDuty ==
  ASSUME IInv, NEW v \in Invocations, UNCHANGED <<rows, nextRow>>,
         inv' \in [Invocations -> Invocation],
         inv'[v].pc \in {"idle", "select", "insert"},
         \A w \in Invocations : w # v => inv'[w] = inv[w]
  PROVE  IInv'
<1>1. TypeOK'
  BY DEF TypeOK, IInv
<1> QED
  BY <1>1 DEF IInv, TypeOK, Ownership, Unused, Ages, Sorted, Reaping, OwnRows, OwnRow, Loop, LoopAt,
     CompletedRunsAreWhole, Working, Whole

\* The check reads; what it reads as stale is really past the threshold.
LEMMA SelectIInv ==
  ASSUME IInv, NEW v \in Invocations, SelectRunning(v)
  PROVE  IInv'
<1> USE DEF IInv
<1>0. UNCHANGED <<rows, nextRow>> /\ inv[v] \in Invocation
      /\ inv[v].pc = "select"
  BY DEF SelectRunning, TypeOK
<1>1. CASE NoneRunning /\ inv' = [inv EXCEPT ![v] = At(v, "insert")]
  <2>1. "insert" \in Steps
    BY DEF Steps
  <2>2. At(v, "insert") \in Invocation /\ At(v, "insert").pc = "insert"
    BY <2>1, AtType, AtFields
  <2>3. /\ inv' \in [Invocations -> Invocation] /\ inv'[v].pc = "insert"
        /\ \A w \in Invocations : w # v => inv'[w] = inv[w]
    BY <1>1, <2>2, Moved
  <2> QED BY <1>0, <2>3, OffDuty
<1>2. ASSUME NEW r \in RunId, NewestRunning(r), ~IsStale(r),
             inv' = [inv EXCEPT ![v] = Idle]
      PROVE  IInv'
  BY <1>0, <1>2, IdleType, Moved, OffDuty DEF Idle
<1>3. ASSUME NEW r \in RunId, NewestRunning(r), IsStale(r),
             inv' = [inv EXCEPT ![v] = [At(v, "reap") EXCEPT !.run = r]]
      PROVE  IInv'
  <2> DEFINE x == [At(v, "reap") EXCEPT !.run = r]
  <2>1. "reap" \in Steps
    BY DEF Steps
  <2>2. x \in Invocation
    BY <2>1, AtType, SetRun
  <2>3. x.pc = "reap" /\ x.run = r
    BY <2>1, AtType, AtFields DEF Invocation
  <2>4. /\ inv' \in [Invocations -> Invocation]
        /\ inv'[v] = x
        /\ \A w \in Invocations : w # v => inv'[w] = inv[w]
    BY <1>3, <2>2, Moved
  <2> HIDE DEF x
  <2>5. rows[r].age = Capped /\ rows[r].status = "running"
    BY <1>3 DEF IsStale, NewestRunning, Capped, TypeOK, Row
  <2>6. TypeOK'
    BY <1>0, <2>4 DEF TypeOK
  <2>7. Reaping'
    BY <1>0, <2>3, <2>4, <2>5 DEF Reaping, Capped
  <2>8. Ownership' /\ Unused' /\ Ages'
    BY <1>0, <2>3, <2>4 DEF Ownership, Unused, Ages, Working
  <2>9. OwnRows'
    BY <1>0, <2>3, <2>4 DEF OwnRows, OwnRow
  <2>11. Sorted'
    BY <1>0 DEF Sorted
  <2>10. Loop' /\ CompletedRunsAreWhole'
    BY <1>0, <2>3, <2>4 DEF Loop, LoopAt, CompletedRunsAreWhole, Whole
  <2> QED BY <2>6, <2>7, <2>8, <2>9, <2>10, <2>11
<1>4. ASSUME NEW outcome \in {"request_lost", "refused"},
             inv' = AfterCall(v, outcome, Idle, Idle)
      PROVE  IInv'
  <2>1. outcome \in Outcomes
    BY <1>4 DEF Outcomes
  <2>2. /\ inv' \in [Invocations -> Invocation]
        /\ \A w \in Invocations : w # v => inv'[w] = inv[w]
        /\ inv'[v] = Idle \/ Again(v)
    BY <1>4, <2>1, IdleType, Called
  <2>3. inv'[v].pc \in {"idle", "select"}
    BY <1>0, <2>2 DEF Idle, Again
  <2> QED BY <1>0, <2>2, <2>3, OffDuty
<1> QED BY <1>1, <1>2, <1>3, <1>4 DEF SelectRunning, Admitted

\* A kill drops the worker, so it only drops obligations.
LEMMA KillIInv ==
  ASSUME IInv, NEW v \in Invocations, Kill(v)
  PROVE  IInv'
<1>1. TypeOK /\ inv' = [inv EXCEPT ![v] = Idle] /\ UNCHANGED <<rows, nextRow>>
  BY DEF Kill, IInv
<1> QED BY <1>1, IdleType, Moved, OffDuty DEF Idle

\* Time ages a row and its worker together.
LEMMA TickIInv ==
  ASSUME IInv, Tick
  PROVE  IInv'
<1> USE DEF IInv
<1>1. ASSUME NEW v \in Invocations
      PROVE  /\ inv'[v] \in Invocation
             /\ inv'[v].pc = inv[v].pc /\ inv'[v].run = inv[v].run
             /\ inv'[v].error = inv[v].error /\ inv'[v].done = inv[v].done
             /\ inv'[v].total = inv[v].total
             /\ inv[v].pc # "idle" => inv'[v].age = inv[v].age + 1
  <2>1. inv[v] \in Invocation
    BY DEF TypeOK
  <2>2. inv'[v] = IF inv[v].pc = "idle" THEN inv[v]
                  ELSE [inv[v] EXCEPT !.age = @ + 1]
    BY DEF Tick
  <2>3. CASE inv[v].pc = "idle"
    BY <2>1, <2>2, <2>3 DEF Invocation
  <2>4. CASE inv[v].pc # "idle"
    <3>1. inv[v].age + 1 \in 0..MaxDuration
      BY <2>1, <2>4 DEF Tick, Expired, Invocation
    <3> QED BY <2>1, <2>2, <2>4, <3>1 DEF Invocation
  <2> QED BY <2>3, <2>4
<1>2. ASSUME NEW r \in RunId
      PROVE  /\ rows'[r] \in Row
             /\ rows'[r].status = rows[r].status
             /\ rows'[r].error = rows[r].error
             /\ rows'[r].processed = rows[r].processed
             /\ rows'[r].total = rows[r].total
             /\ rows'[r].age \in {rows[r].age, rows[r].age + 1}
             /\ rows[r].age = Capped => rows'[r].age = Capped
  <2>1. rows[r] \in Row
    BY DEF TypeOK
  <2>2. rows'[r] = IF rows[r].status = "running" /\ rows[r].age < Capped
                   THEN [rows[r] EXCEPT !.age = @ + 1]
                   ELSE rows[r]
    BY DEF Tick
  <2>3. CASE rows[r].status = "running" /\ rows[r].age < Capped
    <3>1. rows[r].age + 1 \in 0..Capped
      BY <2>1, <2>3 DEF Row, Capped
    <3> QED BY <2>1, <2>2, <2>3, <3>1 DEF Row, Capped
  <2>4. CASE ~(rows[r].status = "running" /\ rows[r].age < Capped)
    BY <2>1, <2>2, <2>4 DEF Row
  <2> QED BY <2>3, <2>4
<1>3. TypeOK'
  BY <1>1, <1>2 DEF Tick, TypeOK
<1>4. Ownership' /\ Unused'
  BY <1>1, <1>2 DEF Ownership, Unused, Working, Tick
<1>5. ASSUME NEW v \in Invocations, Working(v)
      PROVE  /\ inv[v].pc # "idle"
             /\ inv[v].run \in RunId
             /\ inv'[v].run = inv[v].run
             /\ rows[inv[v].run].age <= inv[v].age
             /\ rows[inv[v].run].age \in Nat /\ inv[v].age \in Nat
  <2>1. inv[v].pc # "idle" /\ inv[v].run \in RunId /\ inv'[v].run = inv[v].run
    BY <1>1, <1>5 DEF Working, Ownership
  <2>2. rows[inv[v].run] \in Row /\ inv[v] \in Invocation
    BY <2>1 DEF TypeOK
  <2>3. rows[inv[v].run].age \in Nat /\ inv[v].age \in Nat
    BY <2>2 DEF Row, Invocation, Capped
  <2> QED BY <1>5, <2>1, <2>3 DEF Ages
<1>6. Ages'
  <2> SUFFICES ASSUME NEW v \in Invocations, Working(v)'
               PROVE  rows'[inv'[v].run].age <= inv'[v].age
    BY DEF Ages
  <2>1. Working(v)
    BY <1>1 DEF Working
  <2>2. rows'[inv[v].run].age \in {rows[inv[v].run].age, rows[inv[v].run].age + 1}
    BY <1>2, <1>5, <2>1
  <2>3. inv'[v].age = inv[v].age + 1
    BY <1>1, <1>5, <2>1
  <2> QED BY <1>5, <2>1, <2>2, <2>3
<1>7. Reaping'
  <2> SUFFICES ASSUME NEW v \in Invocations, inv'[v].pc = "reap"
               PROVE  /\ inv'[v].run \in RunId
                      /\ rows'[inv'[v].run].age = Capped
                      /\ \/ rows'[inv'[v].run].status = "running"
                         \/ /\ rows'[inv'[v].run].status = "failed"
                            /\ rows'[inv'[v].run].error = "reaped"
    BY DEF Reaping, RunId, Capped
  <2>1. inv[v].pc = "reap" /\ inv'[v].run = inv[v].run
    BY <1>1
  <2>2. inv[v].run \in RunId
    BY <2>1 DEF Reaping
  <2> QED BY <1>2, <2>1, <2>2 DEF Reaping
<1>8. ASSUME NEW v \in Invocations, Working(v)
      PROVE  /\ inv'[v].pc = inv[v].pc /\ inv'[v].run = inv[v].run
             /\ inv'[v].error = inv[v].error /\ inv'[v].done = inv[v].done
             /\ inv'[v].total = inv[v].total
             /\ rows'[inv[v].run].status = rows[inv[v].run].status
             /\ rows'[inv[v].run].error = rows[inv[v].run].error
             /\ rows'[inv[v].run].processed = rows[inv[v].run].processed
             /\ rows'[inv[v].run].total = rows[inv[v].run].total
  BY <1>1, <1>2, <1>5, <1>8
<1>10. OwnRows'
  <2>1. \A v \in Invocations : Working(v)' <=> Working(v)
    BY <1>1 DEF Working
  <2> QED BY <1>1, <1>8, <2>1 DEF OwnRows, OwnRow, Working
<1>11. Loop'
  <2>1. \A v \in Invocations : Working(v)' <=> Working(v)
    BY <1>1 DEF Working
  <2> QED BY <1>1, <1>8, <2>1 DEF Loop, LoopAt, Working, Whole, NoTotal
<1>9. CompletedRunsAreWhole'
  BY <1>2 DEF CompletedRunsAreWhole, Whole
<1>12. Sorted'
  <2> SUFFICES ASSUME NEW r \in RunId, NEW s \in RunId, r <= s,
                      rows'[r].status = "running", rows'[s].status = "running"
               PROVE  rows'[s].age <= rows'[r].age
    BY DEF Sorted, RunId
  <2>1. /\ rows[s].age <= rows[r].age
        /\ rows[r].status = "running" /\ rows[s].status = "running"
    BY <1>2 DEF Sorted
  <2>2. rows[r] \in Row /\ rows[s] \in Row
    BY DEF TypeOK
  <2>3. rows[r].age \in 0..Capped /\ rows[s].age \in 0..Capped
    BY <2>2 DEF Row
  <2>4. ASSUME NEW q \in RunId, rows[q].status = "running"
        PROVE  rows'[q].age = IF rows[q].age < Capped THEN rows[q].age + 1
                              ELSE rows[q].age
    <3>1. rows[q] \in Row
      BY DEF TypeOK
    <3> QED BY <2>4, <3>1 DEF Tick, Row
  <2> QED BY <2>1, <2>3, <2>4 DEF Capped
<1> QED BY <1>3, <1>4, <1>6, <1>7, <1>9, <1>10, <1>11, <1>12

\* mark_failed of one row leaves the shape of the others alone.
LEMMA FailedRow ==
  ASSUME TypeOK, NEW r \in RunId, NEW e \in Errors, MarkFailed(r, e)
  PROVE  /\ rows' \in [RunId -> Row]
         /\ \A s \in RunId : s # r => rows'[s] = rows[s]
         /\ rows'[r].status = "failed" /\ rows'[r].error = e
         /\ rows'[r].processed = rows[r].processed
         /\ rows'[r].total = rows[r].total
         /\ rows'[r].age = rows[r].age
<1>1. rows[r] \in Row
  BY DEF TypeOK
<1>2. rows' = [rows EXCEPT ![r] =
                 [rows[r] EXCEPT !.status = "failed", !.error = e]]
  BY DEF MarkFailed
<1>3. [rows[r] EXCEPT !.status = "failed", !.error = e] \in Row
  BY <1>1 DEF Row
<1> QED BY <1>1, <1>2, <1>3 DEF TypeOK, Row

\* The reaper only writes to a row without a worker.
LEMMA ReapIInv ==
  ASSUME IInv, NEW v \in Invocations, ReapStale(v)
  PROVE  IInv'
<1> USE DEF IInv
<1> DEFINE t == inv[v].run
           x == [At(v, "insert") EXCEPT !.run = NoRun]
<1>1. PICK outcome \in Outcomes :
         /\ IF Committed(outcome) THEN MarkFailed(t, "reaped") ELSE UNCHANGED rows
         /\ inv' = AfterCall(v, outcome, x, Idle)
  BY DEF ReapStale
<1>2. /\ inv[v].pc = "reap" /\ t \in RunId /\ nextRow' = nextRow
      /\ rows[t].age = Capped
      /\ rows[t].status \in {"running", "failed"}
  BY DEF ReapStale, Reaping
<1>3. x \in Invocation /\ x.pc = "insert"
  <2>1. "insert" \in Steps
    BY DEF Steps
  <2>2. At(v, "insert") \in Invocation /\ At(v, "insert").pc = "insert"
    BY <2>1, AtType, AtFields
  <2> QED BY <2>2, SetRun DEF Invocation
<1>4. /\ inv' \in [Invocations -> Invocation]
      /\ \A w \in Invocations : w # v => inv'[w] = inv[w]
      /\ \/ inv'[v].pc \in {"insert", "idle"}
         \/ inv'[v].pc = "reap" /\ inv'[v].run = t
  <2> HIDE DEF x
  <2>1. /\ inv' \in [Invocations -> Invocation]
        /\ \A w \in Invocations : w # v => inv'[w] = inv[w]
        /\ inv'[v] = x \/ Again(v) \/ inv'[v] = Idle
    BY <1>1, <1>3, IdleType, Called
  <2> QED BY <1>2, <1>3, <2>1 DEF Idle, Again
<1>5. /\ rows' \in [RunId -> Row]
      /\ \A s \in RunId : s # t => rows'[s] = rows[s]
      /\ rows'[t].age = Capped
      /\ \/ rows'[t] = rows[t]
         \/ rows'[t].status = "failed" /\ rows'[t].error = "reaped"
  <2>1. CASE Committed(outcome)
    BY <1>1, <1>2, <2>1, FailedRow DEF Errors
  <2>2. CASE ~Committed(outcome)
    BY <1>1, <1>2, <2>2 DEF TypeOK
  <2> QED BY <2>1, <2>2
<1> HIDE DEF t, x
\* The row being reaped has no worker: a worker's row is as young as the worker.
<1>6. \A w \in Invocations : Working(w) => inv[w].run # t
  <2> SUFFICES ASSUME NEW w \in Invocations, Working(w), inv[w].run = t
               PROVE  FALSE
    OBVIOUS
  <2>1. rows[t].age <= inv[w].age
    BY DEF Ages
  <2>2. inv[w].age \in 0..MaxDuration
    BY DEF TypeOK, Invocation
  <2> QED BY <1>2, <2>1, <2>2 DEF Capped
<1>7. \A w \in Invocations :
         Working(w)' => Working(w) /\ inv'[w] = inv[w]
                        /\ rows'[inv[w].run] = rows[inv[w].run]
  BY <1>2, <1>4, <1>5, <1>6 DEF Working, Ownership
<1>8. TypeOK'
  BY <1>2, <1>4, <1>5 DEF TypeOK
<1>9. Ownership' /\ Ages'
  BY <1>2, <1>7 DEF Ownership, Ages
<1>10. Unused'
  BY <1>2, <1>5 DEF Unused
<1>11. Reaping'
  <2> SUFFICES ASSUME NEW w \in Invocations, inv'[w].pc = "reap"
               PROVE  /\ inv'[w].run \in RunId
                      /\ rows'[inv'[w].run].age = Capped
                      /\ \/ rows'[inv'[w].run].status = "running"
                         \/ /\ rows'[inv'[w].run].status = "failed"
                            /\ rows'[inv'[w].run].error = "reaped"
    BY DEF Reaping, RunId, Capped
  <2>1. inv[w].pc = "reap" /\ inv'[w].run = inv[w].run
    BY <1>2, <1>4 DEF t
  <2>2. CASE inv[w].run = t
    BY <1>2, <1>5, <2>1, <2>2 DEF Reaping
  <2>3. CASE inv[w].run # t
    BY <1>5, <2>1, <2>3 DEF Reaping
  <2> QED BY <2>2, <2>3
<1>12. OwnRows'
  BY <1>7 DEF OwnRows, OwnRow, Working
<1>13. Loop'
  BY <1>7 DEF Loop, LoopAt, Working, Whole
<1>14. CompletedRunsAreWhole'
  BY <1>2, <1>5 DEF CompletedRunsAreWhole, Whole
<1>15. Sorted'
  <2>1. \A r \in RunId : rows'[r].age = rows[r].age
                         /\ (rows'[r].status = "running" =>
                               rows[r].status = "running")
    BY <1>2, <1>5
  <2> QED BY <2>1 DEF Sorted
<1> QED BY <1>8, <1>9, <1>10, <1>11, <1>12, <1>13, <1>14, <1>15

\* A row that has a worker is not being reaped.
LEMMA WorkedOnIsNotReaped ==
  ASSUME IInv, NEW v \in Invocations, Working(v),
         NEW w \in Invocations, inv[w].pc = "reap"
  PROVE  inv[w].run # inv[v].run
<1>1. rows[inv[v].run].age <= inv[v].age /\ rows[inv[w].run].age = Capped
  BY DEF IInv, Ages, Reaping
<1>2. inv[v].age \in 0..MaxDuration
  BY DEF IInv, TypeOK, Invocation
<1> QED BY <1>1, <1>2 DEF Capped

\* A step of a worker: it touches nothing but its own row and its own state.
LEMMA WorkerStep ==
  ASSUME IInv, NEW v \in Invocations, Working(v), nextRow' = nextRow,
         inv' \in [Invocations -> Invocation],
         \A w \in Invocations : w # v => inv'[w] = inv[w],
         rows' \in [RunId -> Row],
         \A s \in RunId : s # inv[v].run => rows'[s] = rows[s],
         rows'[inv[v].run].age = rows[inv[v].run].age,
         rows'[inv[v].run].status # "absent",
         rows'[inv[v].run].status = "running" =>
            rows[inv[v].run].status = "running",
         \/ inv'[v] = Idle
         \/ /\ Working(v)'
            /\ inv'[v].run = inv[v].run /\ inv'[v].age = inv[v].age
            /\ OwnRow(v)' /\ LoopAt(v)',
         rows'[inv[v].run].status = "completed" =>
            \/ rows'[inv[v].run].processed = rows'[inv[v].run].total
            \/ /\ rows'[inv[v].run].processed = 0
               /\ rows'[inv[v].run].total = NoTotal
  PROVE  IInv'
<1> USE DEF IInv
<1>1. TypeOK'
  BY DEF TypeOK
<1>2. inv[v].run \in RunId /\ inv[v].run < nextRow
  BY DEF Ownership
<1>3. ASSUME NEW w \in Invocations, w # v
      PROVE  /\ inv'[w] = inv[w]
             /\ Working(w) => rows'[inv[w].run] = rows[inv[w].run]
             /\ inv[w].pc = "reap" => rows'[inv[w].run] = rows[inv[w].run]
  BY <1>2, <1>3, WorkedOnIsNotReaped DEF Ownership, Reaping
<1>4. Working(v)' \/ inv'[v].pc = "idle"
  BY DEF Idle
<1>5. Ownership'
  BY <1>2, <1>3 DEF Ownership, Working, Idle
<1>6. Unused'
  <2>1. rows[inv[v].run].status # "absent"
    BY <1>2 DEF Unused, RunId, TypeOK
  <2> QED BY <1>2, <2>1 DEF Unused
<1>7. Ages'
  BY <1>3 DEF Ages, Working, Idle
<1>8. Reaping'
  <2> SUFFICES ASSUME NEW w \in Invocations, inv'[w].pc = "reap"
               PROVE  /\ inv'[w].run \in RunId
                      /\ rows'[inv'[w].run].age = Capped
                      /\ \/ rows'[inv'[w].run].status = "running"
                         \/ /\ rows'[inv'[w].run].status = "failed"
                            /\ rows'[inv'[w].run].error = "reaped"
    BY DEF Reaping, RunId, Capped
  <2>1. w # v
    BY <1>4 DEF Working
  <2> QED BY <1>3, <2>1 DEF Reaping
<1>9. OwnRows'
  <2>1. ASSUME NEW w \in Invocations, w # v
        PROVE  OwnRow(w)'
    BY <1>3, <2>1 DEF OwnRows, OwnRow, Working
  <2>2. OwnRow(v)'
    BY DEF OwnRow, Idle
  <2> QED BY <2>1, <2>2 DEF OwnRows
<1>10. Loop'
  <2>1. ASSUME NEW w \in Invocations, w # v
        PROVE  LoopAt(w)'
    BY <1>3, <2>1 DEF Loop, LoopAt, Working, Whole, NoTotal
  <2>2. LoopAt(v)'
    BY DEF LoopAt, Idle
  <2> QED BY <2>1, <2>2 DEF Loop
<1>11. CompletedRunsAreWhole'
  <2> SUFFICES ASSUME NEW r \in RunId, rows'[r].status = "completed"
               PROVE  Whole(r)'
    BY DEF CompletedRunsAreWhole, RunId
  <2>1. CASE r = inv[v].run
    BY <2>1 DEF Whole, NoTotal
  <2>2. CASE r # inv[v].run
    BY <2>2 DEF CompletedRunsAreWhole, Whole, NoTotal
  <2> QED BY <2>1, <2>2
<1>12. Sorted'
  <2>1. \A r \in RunId : rows'[r].age = rows[r].age
                         /\ (rows'[r].status = "running" =>
                               rows[r].status = "running")
    BY <1>2
  <2> QED BY <2>1 DEF Sorted
<1> QED BY <1>1, <1>5, <1>6, <1>7, <1>8, <1>9, <1>10, <1>11, <1>12

\* The snapshot of the jobs table starts the loop at its first job.
LEMMA StartIInv ==
  ASSUME IInv, NEW v \in Invocations, StartMatching(v)
  PROVE  IInv'
<1> USE DEF IInv
<1>1. /\ inv[v].pc = "start" /\ Working(v) /\ UNCHANGED <<rows, nextRow>>
      /\ inv[v].run \in RunId /\ inv[v].run < nextRow
      /\ rows[inv[v].run].status = "running" /\ rows[inv[v].run].error = "none"
      /\ rows[inv[v].run].processed = 0 /\ rows[inv[v].run].total = NoTotal
  BY DEF StartMatching, Working, Ownership, OwnRows, OwnRow, Loop, LoopAt
<1>2. ASSUME NEW n \in 0..MaxJobs,
             inv' = [inv EXCEPT ![v] =
                       [At(v, IF n = 0 THEN "complete" ELSE "jobs")
                           EXCEPT !.total = n, !.done = 0]]
      PROVE  IInv'
  <2> DEFINE pc == IF n = 0 THEN "complete" ELSE "jobs"
             x == [At(v, pc) EXCEPT !.total = n, !.done = 0]
  <2>1. pc \in Steps
    BY DEF Steps
  <2> HIDE DEF pc
  <2>2. At(v, pc) \in Invocation
    BY <2>1, AtType
  <2>3. x \in Invocation
    <3>1. [At(v, pc) EXCEPT !.total = n] \in Invocation
      BY <2>2, SetTotal
    <3>2. 0 \in 0..MaxJobs
      OBVIOUS
    <3> DEFINE y == [At(v, pc) EXCEPT !.total = n]
    <3> HIDE DEF y
    <3>3. [y EXCEPT !.done = 0] \in Invocation
      BY <3>1, <3>2, SetDone DEF y
    <3> QED BY <3>3 DEF y
  <2>4. /\ x.pc = pc /\ x.run = inv[v].run /\ x.done = 0 /\ x.total = n
        /\ x.age = inv[v].age
    BY <1>1, <2>1, <2>2, AtFields DEF Invocation
  <2>5. /\ inv' \in [Invocations -> Invocation]
        /\ inv'[v] = x
        /\ \A w \in Invocations : w # v => inv'[w] = inv[w]
    BY <1>2, <2>3, Moved DEF pc
  <2> HIDE DEF x
  <2>6. Working(v)' /\ OwnRow(v)' /\ LoopAt(v)'
    BY <1>1, <2>4, <2>5 DEF pc, Working, OwnRow, LoopAt, Whole
  <2> QED BY <1>1, <2>4, <2>5, <2>6, WorkerStep DEF TypeOK
<1>3. CASE inv' = [inv EXCEPT ![v] = Failing(v, "matching")]
  <2>1. "matching" \in Errors
    BY DEF Errors
  <2>2. /\ inv' \in [Invocations -> Invocation]
        /\ inv'[v] = Failing(v, "matching")
        /\ \A w \in Invocations : w # v => inv'[w] = inv[w]
    BY <1>3, <2>1, FailingType, Moved
  <2>3. /\ inv'[v].pc = "fail" /\ inv'[v].run = inv[v].run
        /\ inv'[v].error = "matching" /\ inv'[v].age = inv[v].age
    BY <2>1, <2>2, FailingFields
  <2>4. Working(v)' /\ OwnRow(v)' /\ LoopAt(v)'
    BY <1>1, <2>3 DEF Working, OwnRow, LoopAt
  <2> QED BY <1>1, <2>2, <2>3, <2>4, WorkerStep DEF TypeOK
<1> QED BY <1>2, <1>3 DEF StartMatching

\* One more job: the last one goes through a progress report.
LEMMA ProcessIInv ==
  ASSUME IInv, NEW v \in Invocations, ProcessJob(v)
  PROVE  IInv'
<1> USE DEF IInv
<1> DEFINE done == inv[v].done + 1
           pc == IF ReportsProgress(done, inv[v].total) THEN "progress"
                 ELSE IF done = inv[v].total THEN "complete" ELSE "jobs"
           x == [At(v, pc) EXCEPT !.done = done]
<1>1. /\ inv[v].pc = "jobs" /\ Working(v) /\ UNCHANGED <<rows, nextRow>>
      /\ inv[v].run \in RunId /\ inv[v].run < nextRow
      /\ rows[inv[v].run].status = "running" /\ rows[inv[v].run].error = "none"
      /\ inv[v].done < inv[v].total
  BY DEF ProcessJob, Working, Ownership, OwnRows, OwnRow, Loop, LoopAt
<1>2. done \in 0..MaxJobs /\ done <= inv[v].total /\ inv[v].total \in Nat
  <2>1. inv[v].done \in 0..MaxJobs /\ inv[v].total \in 0..MaxJobs
    BY DEF TypeOK, Invocation
  <2> QED BY <1>1, <2>1
<1>3. pc \in {"progress", "jobs"} /\ (pc = "jobs" => done < inv[v].total)
  BY <1>2 DEF ReportsProgress
<1>4. CASE inv' = [inv EXCEPT ![v] = x]
  <2> HIDE DEF done, pc
  <2>1. pc \in Steps
    BY <1>3 DEF Steps
  <2>2. At(v, pc) \in Invocation
    BY <2>1, AtType
  <2>3. x \in Invocation
    BY <1>2, <2>2, SetDone
  <2>4. /\ x.pc = pc /\ x.run = inv[v].run /\ x.done = done
        /\ x.total = inv[v].total /\ x.age = inv[v].age
    BY <2>1, <2>2, AtFields DEF Invocation
  <2>5. /\ inv' \in [Invocations -> Invocation]
        /\ inv'[v] = x
        /\ \A w \in Invocations : w # v => inv'[w] = inv[w]
    BY <1>4, <2>3, Moved
  <2> HIDE DEF x
  <2>6. Working(v)' /\ OwnRow(v)' /\ LoopAt(v)'
    BY <1>1, <1>2, <1>3, <2>4, <2>5 DEF Working, OwnRow, LoopAt
  <2> QED BY <1>1, <2>4, <2>5, <2>6, WorkerStep DEF TypeOK
<1>5. CASE inv' = [inv EXCEPT ![v] = Failing(v, "matching")]
  <2>1. "matching" \in Errors
    BY DEF Errors
  <2>2. /\ inv' \in [Invocations -> Invocation]
        /\ inv'[v] = Failing(v, "matching")
        /\ \A w \in Invocations : w # v => inv'[w] = inv[w]
    BY <1>5, <2>1, FailingType, Moved
  <2>3. /\ inv'[v].pc = "fail" /\ inv'[v].run = inv[v].run
        /\ inv'[v].error = "matching" /\ inv'[v].age = inv[v].age
    BY <2>1, <2>2, FailingFields
  <2>4. Working(v)' /\ OwnRow(v)' /\ LoopAt(v)'
    BY <1>1, <2>3 DEF Working, OwnRow, LoopAt
  <2> QED BY <1>1, <2>2, <2>3, <2>4, WorkerStep DEF TypeOK
<1> QED BY <1>4, <1>5 DEF ProcessJob

\* A progress report makes the row say how far its own worker is.
LEMMA ProgressIInv ==
  ASSUME IInv, NEW v \in Invocations, UpdateProgress(v)
  PROVE  IInv'
<1> USE DEF IInv
<1> DEFINE t == inv[v].run
           pc == IF inv[v].done = inv[v].total THEN "complete" ELSE "jobs"
<1>1. /\ inv[v].pc = "progress" /\ Working(v) /\ nextRow' = nextRow
      /\ t \in RunId /\ t < nextRow
      /\ rows[t].status = "running" /\ rows[t].error = "none"
      /\ inv[v].done <= inv[v].total
      /\ inv[v].done \in 0..MaxJobs /\ inv[v].total \in 0..MaxJobs
  BY DEF UpdateProgress, Working, Ownership, OwnRows, OwnRow, Loop, LoopAt,
         TypeOK, Invocation
<1>2. PICK outcome \in Outcomes :
         /\ IF Committed(outcome)
            THEN rows' = [rows EXCEPT ![t].processed = inv[v].done,
                                      ![t].total = inv[v].total]
            ELSE UNCHANGED rows
         /\ inv' = AfterCall(v, outcome, At(v, pc), Failing(v, "matching"))
  BY DEF UpdateProgress
<1>3. /\ rows' \in [RunId -> Row]
      /\ \A s \in RunId : s # t => rows'[s] = rows[s]
      /\ rows'[t].status = "running" /\ rows'[t].error = "none"
      /\ rows'[t].age = rows[t].age
      /\ Committed(outcome) => /\ rows'[t].processed = inv[v].done
                               /\ rows'[t].total = inv[v].total
  <2>1. CASE Committed(outcome)
    <3>1. rows[t] \in Row
      BY <1>1 DEF TypeOK
    <3> DEFINE y == [rows[t] EXCEPT !.processed = inv[v].done,
                                    !.total = inv[v].total]
    <3>2. inv[v].total \in 0..NoTotal
      BY <1>1 DEF NoTotal
    <3>3. [rows[t] EXCEPT !.processed = inv[v].done] \in Row
      BY <1>1, <3>1 DEF Row
    <3>4. [[rows[t] EXCEPT !.processed = inv[v].done]
             EXCEPT !.total = inv[v].total] \in Row
      BY <3>2, <3>3 DEF Row
    <3>5. y \in Row
      BY <3>4
    <3>6. rows' = [rows EXCEPT ![t] = y]
      BY <1>2, <2>1
    <3>7. /\ y.status = rows[t].status /\ y.error = rows[t].error
          /\ y.age = rows[t].age
          /\ y.processed = inv[v].done /\ y.total = inv[v].total
      BY <3>1 DEF Row
    <3> HIDE DEF y
    <3> QED BY <1>1, <3>5, <3>6, <3>7 DEF TypeOK
  <2>2. CASE ~Committed(outcome)
    BY <1>1, <1>2, <2>2 DEF TypeOK
  <2> QED BY <2>1, <2>2
<1>4. pc \in Steps /\ "matching" \in Errors
  BY DEF Steps, Errors
<1>5. /\ inv' \in [Invocations -> Invocation]
      /\ \A w \in Invocations : w # v => inv'[w] = inv[w]
      /\ \/ outcome = "ok" /\ inv'[v] = At(v, pc)
         \/ outcome # "ok" /\ Again(v)
         \/ outcome # "ok" /\ inv'[v] = Failing(v, "matching")
  <2> HIDE DEF pc
  <2> QED BY <1>2, <1>4, AtType, FailingType, Called
<1>6. /\ Working(v)' /\ inv'[v].run = t /\ inv'[v].age = inv[v].age
      /\ OwnRow(v)' /\ LoopAt(v)'
  <2>1. CASE outcome = "ok" /\ inv'[v] = At(v, pc)
    <3>1. /\ inv'[v].pc = pc /\ inv'[v].run = t /\ inv'[v].age = inv[v].age
          /\ inv'[v].done = inv[v].done /\ inv'[v].total = inv[v].total
      <4> HIDE DEF pc
      <4> QED BY <1>4, <2>1, AtFields
    <3>2. rows'[t].processed = inv[v].done /\ rows'[t].total = inv[v].total
      BY <1>3, <2>1 DEF Committed
    <3> QED BY <1>1, <1>3, <3>1, <3>2 DEF Working, OwnRow, LoopAt, Whole
  <2>2. CASE Again(v)
    BY <1>1, <1>3, <2>2 DEF Again, Working, OwnRow, LoopAt
  <2>3. CASE inv'[v] = Failing(v, "matching")
    <3>1. /\ inv'[v].pc = "fail" /\ inv'[v].run = t
          /\ inv'[v].error = "matching" /\ inv'[v].age = inv[v].age
      BY <1>4, <2>3, FailingFields
    <3> QED BY <1>3, <3>1 DEF Working, OwnRow, LoopAt
  <2> QED BY <1>5, <2>1, <2>2, <2>3
<1> QED BY <1>1, <1>3, <1>5, <1>6, WorkerStep

\* mark_completed is only reached with the last report acknowledged.
LEMMA CompleteIInv ==
  ASSUME IInv, NEW v \in Invocations, MarkCompleted(v)
  PROVE  IInv'
<1> USE DEF IInv
<1> DEFINE t == inv[v].run
<1>1. /\ inv[v].pc = "complete" /\ Working(v) /\ nextRow' = nextRow
      /\ t \in RunId /\ t < nextRow
      /\ rows[t].status \in {"running", "completed"} /\ rows[t].error = "none"
      /\ Whole(t)
  BY DEF MarkCompleted, Working, Ownership, OwnRows, OwnRow, Loop, LoopAt
<1>2. PICK outcome \in Outcomes :
         /\ IF Committed(outcome)
            THEN rows' = [rows EXCEPT ![t].status = "completed"]
            ELSE UNCHANGED rows
         /\ inv' = AfterCall(v, outcome, Idle, Failing(v, "completion"))
  BY DEF MarkCompleted
<1>3. /\ rows' \in [RunId -> Row]
      /\ \A s \in RunId : s # t => rows'[s] = rows[s]
      /\ rows'[t].status \in {"completed", rows[t].status}
      /\ rows'[t].error = "none"
      /\ rows'[t].age = rows[t].age
      /\ rows'[t].processed = rows[t].processed
      /\ rows'[t].total = rows[t].total
  <2>1. CASE Committed(outcome)
    <3>1. rows[t] \in Row
      BY <1>1 DEF TypeOK
    <3> DEFINE y == [rows[t] EXCEPT !.status = "completed"]
    <3>2. y \in Row
      BY <3>1 DEF Row
    <3>3. rows' = [rows EXCEPT ![t] = y]
      BY <1>2, <2>1
    <3>4. /\ y.status = "completed" /\ y.error = rows[t].error
          /\ y.age = rows[t].age
          /\ y.processed = rows[t].processed /\ y.total = rows[t].total
      BY <3>1 DEF Row
    <3> HIDE DEF y
    <3> QED BY <1>1, <3>2, <3>3, <3>4 DEF TypeOK
  <2>2. CASE ~Committed(outcome)
    BY <1>1, <1>2, <2>2 DEF TypeOK
  <2> QED BY <2>1, <2>2
<1>4. "completion" \in Errors
  BY DEF Errors
<1>5. /\ inv' \in [Invocations -> Invocation]
      /\ \A w \in Invocations : w # v => inv'[w] = inv[w]
      /\ inv'[v] = Idle \/ Again(v) \/ inv'[v] = Failing(v, "completion")
  BY <1>2, <1>4, IdleType, FailingType, Called
<1>6. \/ inv'[v] = Idle
      \/ /\ Working(v)' /\ inv'[v].run = t /\ inv'[v].age = inv[v].age
         /\ OwnRow(v)' /\ LoopAt(v)'
  <2>0. rows'[t].status \in {"running", "completed"}
    BY <1>1, <1>3
  <2>1. CASE Again(v)
    BY <1>1, <1>3, <2>0, <2>1 DEF Again, Working, OwnRow, LoopAt, Whole, NoTotal
  <2>2. CASE inv'[v] = Failing(v, "completion")
    <3>1. /\ inv'[v].pc = "fail" /\ inv'[v].run = t
          /\ inv'[v].error = "completion" /\ inv'[v].age = inv[v].age
      BY <1>4, <2>2, FailingFields
    <3> QED BY <1>3, <2>0, <3>1 DEF Working, OwnRow, LoopAt
  <2> QED BY <1>5, <2>1, <2>2
<1>7. /\ rows'[t].status # "absent"
      /\ rows'[t].status = "running" => rows[t].status = "running"
      /\ \/ rows'[t].processed = rows'[t].total
         \/ rows'[t].processed = 0 /\ rows'[t].total = NoTotal
  BY <1>1, <1>3 DEF Whole
<1> QED BY <1>1, <1>3, <1>5, <1>6, <1>7, WorkerStep

\* The except block writes to the worker's own row.
LEMMA FailureIInv ==
  ASSUME IInv, NEW v \in Invocations, HandleFailure(v)
  PROVE  IInv'
<1> USE DEF IInv
<1> DEFINE t == inv[v].run
<1>1. /\ inv[v].pc = "fail" /\ Working(v) /\ nextRow' = nextRow
      /\ t \in RunId /\ t < nextRow
      /\ OwnRow(v) /\ inv[v].error \in Errors
      /\ rows[t].status = "completed" => Whole(t)
  BY DEF HandleFailure, Working, Ownership, OwnRows, CompletedRunsAreWhole,
         TypeOK, Invocation
<1>2. PICK outcome \in Outcomes :
         /\ IF Committed(outcome)
            THEN MarkFailed(t, inv[v].error)
            ELSE UNCHANGED rows
         /\ inv' = AfterCall(v, outcome, Idle, Idle)
  BY DEF HandleFailure
<1>3. /\ rows' \in [RunId -> Row]
      /\ \A s \in RunId : s # t => rows'[s] = rows[s]
      /\ rows'[t].age = rows[t].age
      /\ \/ rows'[t] = rows[t]
         \/ rows'[t].status = "failed" /\ rows'[t].error = inv[v].error
  <2>1. CASE Committed(outcome)
    BY <1>1, <1>2, <2>1, FailedRow
  <2>2. CASE ~Committed(outcome)
    BY <1>1, <1>2, <2>2 DEF TypeOK
  <2> QED BY <2>1, <2>2
<1>4. /\ inv' \in [Invocations -> Invocation]
      /\ \A w \in Invocations : w # v => inv'[w] = inv[w]
      /\ inv'[v] = Idle \/ Again(v)
  BY <1>2, IdleType, Called
<1>5. /\ rows'[t].status # "absent"
      /\ rows'[t].status = "running" => rows[t].status = "running"
      /\ rows'[t].status = "completed" =>
            \/ rows'[t].processed = rows'[t].total
            \/ rows'[t].processed = 0 /\ rows'[t].total = NoTotal
  BY <1>1, <1>3 DEF OwnRow, Whole
<1>6. CASE inv'[v] = Idle
  BY <1>1, <1>3, <1>4, <1>5, <1>6, WorkerStep
<1>7. CASE Again(v)
  <2>1. /\ Working(v)' /\ inv'[v].run = t /\ inv'[v].age = inv[v].age
        /\ OwnRow(v)' /\ LoopAt(v)'
    BY <1>1, <1>3, <1>7 DEF Again, Working, OwnRow, LoopAt
  <2> QED BY <1>1, <1>3, <1>4, <1>5, <2>1, WorkerStep
<1> QED BY <1>4, <1>6, <1>7

\* A created row is new to everybody.
LEMMA CreateIInv ==
  ASSUME IInv, NEW v \in Invocations, CreateRun(v)
  PROVE  IInv'
<1> USE DEF IInv
<1> DEFINE new == [AbsentRow EXCEPT !.status = "running"]
           x == [At(v, "start") EXCEPT !.run = nextRow]
<1>1. inv[v].pc = "insert" /\ ~Working(v) /\ nextRow \in 1..(MaxRuns + 1)
  BY DEF CreateRun, Working, TypeOK
<1>2. PICK outcome \in Outcomes :
         /\ IF Committed(outcome)
            THEN /\ nextRow <= MaxRuns
                 /\ rows' = [rows EXCEPT ![nextRow] = new]
                 /\ nextRow' = nextRow + 1
            ELSE UNCHANGED <<rows, nextRow>>
         /\ inv' = AfterCall(v, outcome, x, Idle)
  BY DEF CreateRun
<1>3. /\ new \in Row /\ new.status = "running" /\ new.error = "none"
      /\ new.age = 0 /\ new.processed = 0 /\ new.total = NoTotal
  BY DEF AbsentRow, Row, Errors, NoTotal, Capped
<1>4. CASE ~Committed(outcome)
  <2>1. UNCHANGED <<rows, nextRow>> /\ outcome # "ok"
    BY <1>2, <1>4 DEF Committed
  <2>2. inv' = AfterCall(v, outcome, Idle, Idle)
    BY <1>2, <2>1 DEF AfterCall
  <2>3. /\ inv' \in [Invocations -> Invocation]
        /\ \A w \in Invocations : w # v => inv'[w] = inv[w]
        /\ inv'[v].pc \in {"idle", "insert"}
    BY <1>1, <2>2, IdleType, Called DEF Again, Idle
  <2> QED BY <2>1, <2>3, OffDuty
<1>5. CASE Committed(outcome)
  <2>1. /\ nextRow \in RunId /\ nextRow' = nextRow + 1
        /\ rows' = [rows EXCEPT ![nextRow] = new]
    BY <1>1, <1>2, <1>5 DEF RunId
  <2>2. x \in Invocation /\ x.pc = "start" /\ x.run = nextRow
        /\ x.age = inv[v].age
    <3>1. "start" \in Steps
      BY DEF Steps
    <3>2. At(v, "start") \in Invocation
      BY <3>1, AtType
    <3> QED BY <2>1, <3>1, <3>2, AtFields, SetRun DEF Invocation
  <2>3. /\ inv' \in [Invocations -> Invocation]
        /\ \A w \in Invocations : w # v => inv'[w] = inv[w]
        /\ inv'[v] = x \/ Again(v) \/ inv'[v] = Idle
    <3> HIDE DEF x
    <3> QED BY <1>2, <2>2, IdleType, Called
  <2> HIDE DEF new, x
  <2>4. /\ rows' \in [RunId -> Row]
        /\ rows'[nextRow] = new
        /\ \A r \in RunId : r # nextRow => rows'[r] = rows[r]
    BY <1>3, <2>1 DEF TypeOK
  <2>6. ASSUME NEW w \in Invocations, w # v
        PROVE  /\ inv'[w] = inv[w]
               /\ Working(w) => inv[w].run \in RunId /\ inv[w].run < nextRow
               /\ Working(w) => rows'[inv[w].run] = rows[inv[w].run]
               /\ inv[w].pc = "reap" => rows'[inv[w].run] = rows[inv[w].run]
    <3>1. inv[w].pc = "reap" => inv[w].run < nextRow
      <4> SUFFICES ASSUME inv[w].pc = "reap" PROVE inv[w].run < nextRow
        OBVIOUS
      <4>1. inv[w].run \in RunId /\ rows[inv[w].run].status # "absent"
        BY DEF Reaping
      <4> QED BY <1>1, <4>1 DEF Unused, RunId
    <3> QED BY <1>1, <2>3, <2>4, <2>6, <3>1 DEF Ownership, Reaping, RunId
  <2>7. /\ inv'[v].pc \in {"idle", "insert", "start"}
        /\ inv'[v].pc = "start" => inv'[v] = x
    BY <1>1, <2>2, <2>3 DEF Idle, Again
  <2>8. TypeOK'
    BY <1>1, <1>2, <1>5, <2>1, <2>3, <2>4 DEF TypeOK
  <2>9. Ownership'
    <3>1. Working(v)' => inv'[v].run = nextRow
      BY <2>2, <2>7 DEF Working
    <3>2. ASSUME NEW u \in Invocations, Working(u)', u # v
          PROVE  /\ Working(u) /\ inv'[u].run = inv[u].run
                 /\ inv'[u].run \in RunId /\ inv'[u].run < nextRow
      BY <2>6, <3>2 DEF Working
    <3>3. ASSUME NEW u \in Invocations, Working(u)'
          PROVE  inv'[u].run \in RunId /\ inv'[u].run < nextRow'
      BY <1>1, <2>1, <3>1, <3>2, <3>3 DEF RunId
    <3>4. ASSUME NEW u \in Invocations, NEW w \in Invocations,
                 Working(u)', Working(w)', u # w
          PROVE  inv'[u].run # inv'[w].run
      BY <1>1, <3>1, <3>2, <3>4 DEF Ownership, RunId
    <3> QED BY <3>3, <3>4 DEF Ownership, RunId
  <2>10. Unused'
    BY <1>1, <1>3, <2>1, <2>4 DEF Unused, RunId
  <2>11. Ages'
    <3>1. inv'[v].pc = "start" => rows'[inv'[v].run].age <= inv'[v].age
      <4>1. inv'[v] \in Invocation
        BY <2>3
      <4> QED BY <1>3, <2>2, <2>4, <2>7, <4>1 DEF Invocation
    <3> QED BY <2>6, <2>7, <3>1 DEF Ages, Working
  <2>12. Reaping'
    BY <2>6, <2>7 DEF Reaping, Capped, RunId
  <2>13. OwnRows'
    BY <1>3, <2>2, <2>4, <2>6, <2>7 DEF OwnRows, OwnRow, Working
  <2>14. Loop'
    <3>1. LoopAt(v)'
      BY <1>3, <2>2, <2>4, <2>7 DEF LoopAt, NoTotal
    <3>2. ASSUME NEW w \in Invocations, w # v
          PROVE  LoopAt(w)'
      BY <2>6, <3>2 DEF Loop, LoopAt, Working, Whole, NoTotal
    <3> QED BY <3>1, <3>2 DEF Loop
  <2>15. CompletedRunsAreWhole'
    BY <1>3, <2>4 DEF CompletedRunsAreWhole, Whole, NoTotal
  <2>16. Sorted'
    <3> SUFFICES ASSUME NEW r \in RunId, NEW s \in RunId, r <= s,
                        rows'[r].status = "running", rows'[s].status = "running"
                 PROVE  rows'[s].age <= rows'[r].age
      BY DEF Sorted, RunId
    <3>1. CASE s = nextRow
      <4>1. rows'[r] \in Row
        BY <2>4
      <4>2. rows'[r].age \in Nat
        BY <4>1 DEF Row, Capped
      <4> QED BY <1>3, <2>4, <3>1, <4>2
    <3>2. CASE s # nextRow
      <4>1. s < nextRow
        BY <1>1, <2>4, <3>2 DEF Unused, RunId
      <4>2. r # nextRow
        BY <1>1, <4>1 DEF RunId
      <4> QED BY <2>4, <3>2, <4>2 DEF Sorted
    <3> QED BY <3>1, <3>2
  <2> QED BY <2>8, <2>9, <2>10, <2>11, <2>12, <2>13, <2>14, <2>15, <2>16
<1> QED BY <1>4, <1>5

-----------------------------------------------------------------------------
\* The inductive step, action by action.
LEMMA NextIInv == IInv /\ [Next]_vars => IInv'
<1> SUFFICES ASSUME IInv, [Next]_vars PROVE IInv'
  OBVIOUS
<1>1. ASSUME NEW v \in Invocations, Work(v)
      PROVE  IInv'
  BY <1>1, SelectIInv, ReapIInv, CreateIInv, StartIInv, ProcessIInv,
     ProgressIInv, CompleteIInv, FailureIInv DEF Work
<1>2. ASSUME NEW v \in Invocations, Trigger(v) \/ Kill(v)
      PROVE  IInv'
  BY <1>2, TriggerIInv, KillIInv
<1>3. CASE UNCHANGED vars
  BY <1>3 DEF vars, IInv, TypeOK, Ownership, Unused, Ages, Sorted, Reaping, OwnRows,
     OwnRow, Loop, LoopAt, CompletedRunsAreWhole, Working, Whole
<1> QED BY <1>1, <1>2, <1>3, TickIInv DEF Next

\* The inductive invariant holds in every reachable state.
THEOREM Inductive == Spec => []IInv
  BY InitIInv, NextIInv, PTL DEF Spec

\* The state always has its type: no retry loop of SupabaseClient runs past
\* its MaxAttempts, no invocation past maxDuration.
THEOREM TypeCorrect == Spec => []TypeOK
<1>1. IInv => TypeOK
  BY DEF IInv
<1> QED BY <1>1, Inductive, PTL

\* The reaper never takes a row from a run that is still executing, however
\* the requests, kills and lost messages interleave, as long as maxDuration
\* does not exceed STALE_RUN_SECONDS.
THEOREM NeverReapedAlive == Spec => []LiveRunHoldsTheTrack
<1>1. IInv => LiveRunHoldsTheTrack
  BY DEF IInv, LiveRunHoldsTheTrack, OwnRows, OwnRow, Working
<1> QED BY <1>1, Inductive, PTL

\* A row that says 'completed' accounts for every job of its run's snapshot.
THEOREM CompletedIsWhole == Spec => []CompletedRunsAreWhole
<1>1. IInv => CompletedRunsAreWhole
  BY DEF IInv
<1> QED BY <1>1, Inductive, PTL

\* A step of one invocation leaves the others where they are.
LEMMA OnlyOwn ==
  ASSUME TypeOK, NEW u \in Invocations, Trigger(u) \/ Work(u) \/ Kill(u),
         NEW w \in Invocations, w # u
  PROVE  inv'[w] = inv[w]
<1> DEFINE Changed == \E x : inv' = [inv EXCEPT ![u] = x]
<1>1. ASSUME NEW o, NEW a, NEW b, inv' = AfterCall(u, o, a, b)
      PROVE  Changed
  <2>1. [inv EXCEPT ![u].tries = @ + 1]
        = [inv EXCEPT ![u] = [inv[u] EXCEPT !.tries = @ + 1]]
    OBVIOUS
  <2>2. PICK x \in {a, b, [inv[u] EXCEPT !.tries = @ + 1]} :
          inv' = [inv EXCEPT ![u] = x]
    BY <1>1, <2>1 DEF AfterCall, Tried
  <2> QED BY <2>2
<1>2. Trigger(u) \/ Kill(u) \/ StartMatching(u) \/ ProcessJob(u) => Changed
  BY DEF Trigger, Kill, StartMatching, ProcessJob
<1>3. SelectRunning(u) => Changed
  <2>1. Admitted(u) => Changed
    BY DEF Admitted
  <2> QED BY <1>1, <2>1 DEF SelectRunning
<1>4. ReapStale(u) => Changed
  BY <1>1 DEF ReapStale
<1>5. CreateRun(u) => Changed
  BY <1>1 DEF CreateRun
<1>6. UpdateProgress(u) => Changed
  BY <1>1 DEF UpdateProgress
<1>7. MarkCompleted(u) \/ HandleFailure(u) => Changed
  BY <1>1 DEF MarkCompleted, HandleFailure
<1>8. Changed
  BY <1>2, <1>3, <1>4, <1>5, <1>6, <1>7 DEF Work
<1> QED BY <1>8 DEF TypeOK

\* A request passes the check only while no run of the track executes.
THEOREM NoAdmissionDuringARun == Spec => AdmissionSeesNoLiveRun
<1>1. ASSUME IInv, [Next]_vars, NEW v \in Invocations,
             inv[v].pc = "select", inv'[v].pc \in {"insert", "reap"},
             NEW w \in Invocations
      PROVE  inv[w].pc \notin {"start", "jobs", "progress"}
  <2> USE <1>1 DEF IInv
  <2> SUFFICES ASSUME inv[w].pc \in {"start", "jobs", "progress"}
               PROVE  FALSE
    OBVIOUS
  <2>1. /\ inv[w].run \in RunId /\ rows[inv[w].run].status = "running"
        /\ rows[inv[w].run].age <= inv[w].age
    BY DEF Ownership, Ages, OwnRows, OwnRow, Working
  <2>2. SelectRunning(v)
    <3>1. inv' # inv
      BY <1>1
    <3>2. PICK u \in Invocations : Trigger(u) \/ Work(u) \/ Kill(u) \/ Tick
      BY <1>1, <3>1 DEF Next, vars
    <3>3. ~Tick
      BY <1>1 DEF Tick, TypeOK, Invocation
    <3>4. u = v
      BY <3>2, <3>3, OnlyOwn
    <3>5. ~Kill(v)
      BY DEF Kill, Idle, TypeOK
    <3> QED BY <3>2, <3>3, <3>4, <3>5 DEF Trigger, Work, ReapStale,
         CreateRun, StartMatching, ProcessJob, UpdateProgress, MarkCompleted,
         HandleFailure
  <2>3. Admitted(v)
    <3>1. ASSUME NEW outcome \in {"request_lost", "refused"},
                 inv' = AfterCall(v, outcome, Idle, Idle)
          PROVE  FALSE
      <4>1. outcome \in Outcomes
        BY <3>1 DEF Outcomes
      <4>2. inv'[v] = Idle \/ Again(v)
        BY <3>1, <4>1, IdleType, Called
      <4> QED BY <1>1, <4>2 DEF Idle, Again
    <3> QED BY <2>2, <3>1 DEF SelectRunning
  <2>4. PICK r \in RunId : NewestRunning(r) /\ IsStale(r)
    <3>1. ~NoneRunning
      BY <2>1 DEF NoneRunning
    <3>2. PICK r \in RunId :
             /\ NewestRunning(r)
             /\ inv' = [inv EXCEPT ![v] =
                          IF IsStale(r)
                          THEN [At(v, "reap") EXCEPT !.run = r] ELSE Idle]
      BY <2>3, <3>1 DEF Admitted
    <3>3. CASE ~IsStale(r)
      <4>1. inv'[v] = Idle
        BY <3>2, <3>3 DEF TypeOK
      <4> QED BY <1>1, <4>1 DEF Idle
    <3> QED BY <3>2, <3>3
  \* No row is younger than the newest one.
  <2>5. rows[inv[w].run].age > StaleAfter
    <3>1. rows[r].status = "running" /\ inv[w].run <= r
      BY <2>1, <2>4 DEF NewestRunning
    <3>2. rows[r].age <= rows[inv[w].run].age
      BY <2>1, <3>1 DEF Sorted
    <3>3. rows[r] \in Row /\ rows[inv[w].run] \in Row
      BY <2>1 DEF TypeOK
    <3>4. rows[r].age \in Nat /\ rows[inv[w].run].age \in Nat
      BY <3>3 DEF Row, Capped
    <3> QED BY <2>4, <3>2, <3>4 DEF IsStale
  <2>6. inv[w].age \in 0..MaxDuration
    BY DEF TypeOK, Invocation
  <2>7. rows[inv[w].run].age \in Nat
    BY <2>1 DEF TypeOK, Row, Capped
  <2> QED BY <2>1, <2>5, <2>6, <2>7
<1>2. IInv /\ [Next]_vars =>
         [\A v \in Invocations :
             inv[v].pc = "select" /\ inv'[v].pc \in {"insert", "reap"} =>
                \A w \in Invocations :
                   inv[w].pc \notin {"start", "jobs", "progress"}]_vars
  BY <1>1
<1> QED BY <1>2, Inductive, PTL DEF Spec, AdmissionSeesNoLiveRun

\* A row that is marked as failed once more, with the same error, is the same.
LEMMA SameFailure ==
  ASSUME NEW row \in Row, NEW e, row.status = "failed", row.error = e
  PROVE  [row EXCEPT !.status = "failed", !.error = e] = row
  BY DEF Row

\* A failed row is never written again with anything new, and a completed one
\* only by its own worker's except block after an unconfirmed mark_completed.
THEOREM OutcomeIsFinal == Spec => ReportedOutcomeIsFinal
<1> DEFINE Final(r) ==
             /\ rows[r].status = "failed" => rows'[r] = rows[r]
             /\ rows[r].status = "completed" =>
                   \/ rows'[r] = rows[r]
                   \/ rows'[r].status = "failed" /\ rows'[r].error = "completion"
<1>1. ASSUME IInv, [Next]_vars, NEW r \in RunId
      PROVE  Final(r)
  <2> USE <1>1 DEF IInv
  <2>0. rows[r] \in Row
    BY DEF TypeOK
  <2>1. CASE rows' = rows
    BY <2>1
  <2>2. ASSUME NEW v \in Invocations, ReapStale(v)
        PROVE  Final(r)
    <3>1. CASE inv[v].run = r /\ MarkFailed(r, "reaped")
      <4>1. rows'[r] = [rows[r] EXCEPT !.status = "failed", !.error = "reaped"]
        BY <3>1 DEF MarkFailed, TypeOK
      <4>2. \/ rows[r].status = "running"
            \/ rows[r].status = "failed" /\ rows[r].error = "reaped"
        BY <2>2, <3>1 DEF ReapStale, Reaping
      <4>3. rows'[r].status = "failed" /\ rows'[r].error = "reaped"
        BY <2>0, <4>1 DEF Row
      <4>4. ASSUME rows[r].status = "failed" PROVE rows'[r] = rows[r]
        <5>1. rows[r].error = "reaped"
          BY <4>2, <4>4
        <5>2. [rows[r] EXCEPT !.status = "failed", !.error = "reaped"] = rows[r]
          BY <2>0, <4>4, <5>1, SameFailure
        <5> QED BY <4>1, <5>2
      <4> QED BY <4>2, <4>3, <4>4
    <3>2. CASE inv[v].run # r \/ rows' = rows
      BY <2>2, <3>2 DEF ReapStale, MarkFailed, TypeOK
    <3> QED BY <2>2, <3>1, <3>2 DEF ReapStale
  <2>3. ASSUME NEW v \in Invocations, CreateRun(v)
        PROVE  Final(r)
    <3>1. rows' = rows \/ \E x : rows' = [rows EXCEPT ![nextRow] = x]
      BY <2>3 DEF CreateRun
    <3>2. CASE r = nextRow
      BY <3>2 DEF Unused, TypeOK, RunId
    <3>3. CASE r # nextRow
      BY <3>1, <3>3 DEF TypeOK
    <3> QED BY <3>2, <3>3
  <2>4. ASSUME NEW v \in Invocations, UpdateProgress(v)
        PROVE  Final(r)
    <3>1. rows[inv[v].run].status = "running"
      BY <2>4 DEF UpdateProgress, OwnRows, OwnRow
    <3>2. r # inv[v].run => rows'[r] = rows[r]
      BY <2>4 DEF UpdateProgress, TypeOK
    <3> QED BY <3>1, <3>2
  <2>5. ASSUME NEW v \in Invocations, MarkCompleted(v)
        PROVE  Final(r)
    <3>1. \/ rows' = rows
          \/ rows' = [rows EXCEPT ![inv[v].run].status = "completed"]
      BY <2>5 DEF MarkCompleted
    <3>2. rows[inv[v].run].status \in {"running", "completed"}
      BY <2>5 DEF MarkCompleted, OwnRows, OwnRow
    <3>3. CASE r = inv[v].run
      BY <2>0, <3>1, <3>2, <3>3 DEF TypeOK, Row
    <3>4. CASE r # inv[v].run
      BY <3>1, <3>4 DEF TypeOK
    <3> QED BY <3>3, <3>4
  <2>6. ASSUME NEW v \in Invocations, HandleFailure(v)
        PROVE  Final(r)
    <3>1. rows' = rows \/ MarkFailed(inv[v].run, inv[v].error)
      BY <2>6 DEF HandleFailure
    <3>2. CASE r = inv[v].run /\ MarkFailed(r, inv[v].error)
      <4>1. rows'[r] = [rows[r] EXCEPT !.status = "failed",
                                       !.error = inv[v].error]
        BY <3>2 DEF MarkFailed, TypeOK
      <4>2. \/ rows[r].status = "running"
            \/ rows[r].status = "failed" /\ rows[r].error = inv[v].error
            \/ rows[r].status = "completed" /\ inv[v].error = "completion"
        BY <2>6, <3>2 DEF HandleFailure, OwnRows, OwnRow
      <4>3. rows'[r].status = "failed" /\ rows'[r].error = inv[v].error
        BY <2>0, <4>1 DEF Row
      <4>4. ASSUME rows[r].status = "failed" PROVE rows'[r] = rows[r]
        <5>1. rows[r].error = inv[v].error
          BY <4>2, <4>4
        <5>2. [rows[r] EXCEPT !.status = "failed", !.error = inv[v].error] = rows[r]
          BY <2>0, <4>4, <5>1, SameFailure
        <5> QED BY <4>1, <5>2
      <4> QED BY <4>2, <4>3, <4>4
    <3>3. CASE r # inv[v].run
      BY <3>1, <3>3 DEF MarkFailed, TypeOK
    <3> QED BY <3>1, <3>2, <3>3
  <2>7. CASE Tick
    BY <2>7 DEF Tick
  <2>8. ASSUME NEW v \in Invocations,
               Trigger(v) \/ Kill(v) \/ SelectRunning(v) \/ StartMatching(v)
                 \/ ProcessJob(v)
        PROVE  rows' = rows
    BY <2>8 DEF Trigger, Kill, SelectRunning, StartMatching, ProcessJob
  <2> QED BY <2>1, <2>2, <2>3, <2>4, <2>5, <2>6, <2>7, <2>8
          DEF Next, Work, vars
<1>2. IInv /\ [Next]_vars => [\A r \in RunId : Final(r)]_vars
  BY <1>1
<1> QED BY <1>2, Inductive, PTL DEF Spec, ReportedOutcomeIsFinal

\* A step that changes the status of one row at most, and in one of the ways
\* a tracked task allows, is a step of TrackedTask or a stutter.
LEMMA OneRowMoves ==
  ASSUME NEW q \in RunId,
         \A s \in RunId : s # q => rows'[s].status = rows[s].status,
         \/ rows'[q].status = rows[q].status
         \/ rows[q].status = "absent" /\ rows'[q].status = "running"
         \/ rows[q].status = "running" /\ rows'[q].status = "completed"
         \/ rows[q].status \in {"running", "completed"} /\ rows'[q].status = "failed"
  PROVE  [Task!Next]_Reported
<1> USE DEF Reported
<1>1. \A s \in RunId : s # q => Reported'[s] = Reported[s]
  BY DEF Status
<1>2. Reported' = [Reported EXCEPT ![q] = Status(q)']
  BY <1>1
<1>3. CASE rows'[q].status = rows[q].status
  <2>1. Reported' = Reported
    BY <1>1, <1>3 DEF Status
  <2> QED BY <2>1
<1>4. CASE rows[q].status = "absent" /\ rows'[q].status = "running"
  <2>1. Task!Open(q)
    BY <1>2, <1>4 DEF Task!Open, Task!Move, Status
  <2> QED BY <2>1 DEF Task!Next
<1>5. CASE rows[q].status = "running" /\ rows'[q].status = "completed"
  <2>1. Task!Complete(q)
    BY <1>2, <1>5 DEF Task!Complete, Task!Move, Status
  <2> QED BY <2>1 DEF Task!Next
<1>6. CASE rows[q].status \in {"running", "completed"} /\ rows'[q].status = "failed"
  <2>1. Task!Fail(q)
    BY <1>2, <1>6 DEF Task!Fail, Task!Move, Status
  <2> QED BY <2>1 DEF Task!Next
<1> QED BY <1>3, <1>4, <1>5, <1>6

\* Every step of the runs moves the status of their rows as TrackedTask allows.
LEMMA StepIsTracked ==
  ASSUME IInv, [Next]_vars
  PROVE  [Task!Next]_Reported
<1> USE DEF IInv
<1>1. ASSUME \A s \in RunId : rows'[s].status = rows[s].status
      PROVE  [Task!Next]_Reported
  <2>1. Reported' = Reported
    BY <1>1 DEF Status, Reported
  <2> QED BY <2>1
<1>2. ASSUME NEW v \in Invocations, ReapStale(v)
      PROVE  [Task!Next]_Reported
  <2>1. CASE MarkFailed(inv[v].run, "reaped")
    <3>1. /\ inv[v].run \in RunId
          /\ rows[inv[v].run].status \in {"running", "failed"}
      BY <1>2 DEF ReapStale, Reaping
    <3>2. /\ rows'[inv[v].run].status = "failed"
          /\ \A s \in RunId : s # inv[v].run => rows'[s] = rows[s]
      BY <2>1, <3>1 DEF MarkFailed, TypeOK, Row
    <3> QED BY <3>1, <3>2, OneRowMoves
  <2>2. CASE rows' = rows
    BY <1>1, <2>2
  <2> QED BY <1>2, <2>1, <2>2 DEF ReapStale
<1>3. ASSUME NEW v \in Invocations, CreateRun(v)
      PROVE  [Task!Next]_Reported
  <2>1. CASE /\ nextRow <= MaxRuns
             /\ rows' = [rows EXCEPT ![nextRow] =
                           [AbsentRow EXCEPT !.status = "running"]]
    <3>1. nextRow \in RunId
      BY <2>1 DEF TypeOK, RunId
    <3>2. rows[nextRow].status = "absent"
      BY <3>1 DEF Unused, TypeOK, RunId
    <3>3. rows'[nextRow].status = "running"
      BY <2>1, <3>1 DEF TypeOK, AbsentRow
    <3>4. \A s \in RunId : s # nextRow => rows'[s] = rows[s]
      BY <2>1 DEF TypeOK
    <3> QED BY <3>1, <3>2, <3>3, <3>4, OneRowMoves
  <2>2. CASE rows' = rows
    BY <1>1, <2>2
  <2> QED BY <1>3, <2>1, <2>2 DEF CreateRun
<1>4. ASSUME NEW v \in Invocations, UpdateProgress(v)
      PROVE  [Task!Next]_Reported
  <2>1. \A s \in RunId : rows'[s].status = rows[s].status
    BY <1>4 DEF UpdateProgress, TypeOK, Row
  <2> QED BY <1>1, <2>1
<1>5. ASSUME NEW v \in Invocations, MarkCompleted(v)
      PROVE  [Task!Next]_Reported
  <2>1. CASE rows' = [rows EXCEPT ![inv[v].run].status = "completed"]
    <3>1. /\ inv[v].run \in RunId
          /\ rows[inv[v].run].status \in {"running", "completed"}
      BY <1>5 DEF MarkCompleted, OwnRows, OwnRow, Ownership, Working
    <3>2. /\ rows'[inv[v].run].status = "completed"
          /\ \A s \in RunId : s # inv[v].run => rows'[s] = rows[s]
      BY <2>1, <3>1 DEF TypeOK, Row
    <3> QED BY <3>1, <3>2, OneRowMoves
  <2>2. CASE rows' = rows
    BY <1>1, <2>2
  <2> QED BY <1>5, <2>1, <2>2 DEF MarkCompleted
<1>6. ASSUME NEW v \in Invocations, HandleFailure(v)
      PROVE  [Task!Next]_Reported
  <2>1. CASE MarkFailed(inv[v].run, inv[v].error)
    <3>1. /\ inv[v].run \in RunId
          /\ rows[inv[v].run].status \in {"running", "completed", "failed"}
      BY <1>6 DEF HandleFailure, OwnRows, OwnRow, Ownership, Working
    <3>2. /\ rows'[inv[v].run].status = "failed"
          /\ \A s \in RunId : s # inv[v].run => rows'[s] = rows[s]
      BY <2>1, <3>1 DEF MarkFailed, TypeOK, Row
    <3> QED BY <3>1, <3>2, OneRowMoves
  <2>2. CASE rows' = rows
    BY <1>1, <2>2
  <2> QED BY <1>6, <2>1, <2>2 DEF HandleFailure
<1>7. CASE Tick
  <2>1. \A s \in RunId : rows'[s].status = rows[s].status
    BY <1>7 DEF Tick, TypeOK, Row
  <2> QED BY <1>1, <2>1
<1>8. ASSUME NEW v \in Invocations,
             Trigger(v) \/ Kill(v) \/ SelectRunning(v) \/ StartMatching(v)
               \/ ProcessJob(v)
      PROVE  rows' = rows
  BY <1>8 DEF Trigger, Kill, SelectRunning, StartMatching, ProcessJob
<1>9. CASE UNCHANGED vars
  BY <1>1, <1>9 DEF vars
<1> QED BY <1>1, <1>2, <1>3, <1>4, <1>5, <1>6, <1>7, <1>8, <1>9 DEF Next, Work

\* To a client that polls match-status the rows of matching_runs are tracked
\* tasks, for any number of overlapping, retried, reaped and killed runs.
THEOREM RunsImplementTrackedTask == Spec => RunsAreTrackedTasks
<1>1. Init => Task!Init
  BY DEF Init, Task!Init, Status, Reported, AbsentRow
<1>2. IInv /\ [Next]_vars => [Task!Next]_Reported
  BY StepIsTracked
<1> QED BY <1>1, <1>2, Inductive, PTL DEF Spec, RunsAreTrackedTasks, Task!Spec
=============================================================================

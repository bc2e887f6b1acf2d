--------------------------- MODULE JobQueueProofs ---------------------------
(***************************************************************************)
(* Proofs about JobQueue, for any set of jobs and workers and any hold,     *)
(* retention and limit.                                                     *)
(***************************************************************************)
EXTENDS JobQueue, TLAPS

-----------------------------------------------------------------------------
(* The rows that the statements write are rows. *)

LEMMA RowWrites ==
  ASSUME NEW r \in Row
  PROVE  /\ NoRow \in Row
         /\ [NoRow EXCEPT !.status = "shadow"] \in Row
         /\ [NoRow EXCEPT !.status = "new"] \in Row
         /\ \A s \in Settled : SettledRow(r, s) \in Row
         /\ \A w \in Workers : LeasedRow(r, w) \in Row
         /\ \A max \in Nat : FailedRow(r, max) \in Row
         /\ BackRow(r, 0) \in Row /\ BackRow(r, Retry) \in Row
         /\ [r EXCEPT !.left = Hold] \in Row
         /\ [r EXCEPT !.told = TRUE] \in Row
<1> DEFINE Names == Workers \cup {NoWorker}
           Lefts == 0..Hold
           Dues  == 0..Retry
           Ages  == 0..AgeCap
<1>1. /\ NoWorker \in Names /\ \A w \in Workers : w \in Names
      /\ 0 \in Lefts /\ Hold \in Lefts /\ 0 \in Dues /\ Retry \in Dues /\ 0 \in Ages
  BY ConstantsOK DEF AgeCap
<1>2. Row = [status : Status, attempts : Nat, by : Names, left : Lefts, dueIn : Dues,
             age : Ages, told : BOOLEAN]
  BY DEF Row
<1>3. {"none", "new", "running"} \subseteq Status /\ Settled \subseteq Status
  BY DEF Status, Live, Settled
<1>4. "shadow" \in Settled /\ "failed" \in Settled
  BY DEF Settled
<1> HIDE DEF Names, Lefts, Dues, Ages
<1>5. NoRow \in Row
  BY <1>1, <1>2, <1>3 DEF NoRow
<1>6. /\ [NoRow EXCEPT !.status = "shadow"] \in Row
      /\ [NoRow EXCEPT !.status = "new"] \in Row
  BY <1>2, <1>3, <1>4, <1>5
<1>7. \A s \in Settled : SettledRow(r, s) \in Row
  BY <1>1, <1>2, <1>3 DEF SettledRow
<1>8. \A w \in Workers : LeasedRow(r, w) \in Row
  <2>1. ASSUME NEW w \in Names, NEW n \in Nat
        PROVE  [r EXCEPT !.status = "running", !.attempts = n, !.by = w, !.left = Hold] \in Row
    BY <1>1, <1>2, <1>3
  <2>2. r.attempts + 1 \in Nat
    BY <1>2
  <2> QED BY <1>1, <2>1, <2>2 DEF LeasedRow
<1>9. ASSUME NEW due \in Dues PROVE BackRow(r, due) \in Row
  <2>1. ASSUME NEW n \in Nat
        PROVE  [r EXCEPT !.status = "new", !.by = NoWorker, !.left = 0, !.dueIn = due,
                         !.attempts = n] \in Row
    BY <1>1, <1>2, <1>3
  <2>2. (IF r.attempts > 0 THEN r.attempts - 1 ELSE 0) \in Nat
    BY <1>2
  <2> QED BY <2>1, <2>2 DEF BackRow
<1>10. \A max \in Nat : FailedRow(r, max) \in Row
  <2>1. [r EXCEPT !.status = "new", !.by = NoWorker, !.left = 0, !.dueIn = Retry] \in Row
    BY <1>1, <1>2, <1>3
  <2> QED BY <1>4, <1>7, <2>1 DEF FailedRow
<1>11. /\ [r EXCEPT !.left = Hold] \in Row
       /\ [r EXCEPT !.told = TRUE] \in Row
  BY <1>1, <1>2
<1> QED BY <1>1, <1>5, <1>6, <1>7, <1>8, <1>9, <1>10, <1>11

LEMMA TickedRow ==
  ASSUME NEW r \in Row
  PROVE  [r EXCEPT !.left = Less(@), !.dueIn = Less(@),
            !.age = IF r.status \in Settled /\ @ < AgeCap THEN @ + 1 ELSE @] \in Row
<1> DEFINE Names == Workers \cup {NoWorker}
           Lefts == 0..Hold
           Dues  == 0..Retry
           Ages  == 0..AgeCap
           age   == IF r.status \in Settled /\ r.age < AgeCap THEN r.age + 1 ELSE r.age
<1>1. Row = [status : Status, attempts : Nat, by : Names, left : Lefts, dueIn : Dues,
             age : Ages, told : BOOLEAN]
  BY DEF Row
<1>2. AgeCap \in Nat
  BY ConstantsOK DEF AgeCap
<1>3. r.left \in Lefts /\ r.dueIn \in Dues /\ r.age \in Ages
  BY <1>1
<1>4. Less(r.left) \in Lefts /\ Less(r.dueIn) \in Dues /\ age \in Ages
  BY <1>2, <1>3, ConstantsOK DEF Less
<1> HIDE DEF Names, Lefts, Dues, Ages, age
<1>5. [r EXCEPT !.left = Less(@), !.dueIn = Less(@), !.age = age] \in Row
  BY <1>1, <1>4
<1> QED BY <1>5 DEF age

(* TypeOK: every variable keeps its type through every action. *)
LEMMA TypeInit == ASSUME Init PROVE TypeOK
<1>2. NoRow \in Row
  BY ConstantsOK DEF NoRow, Row, Status, AgeCap
<1>3. NoRun \in Run
  BY ConstantsOK DEF NoRun, Run
<1> QED BY <1>2, <1>3 DEF Init, TypeOK

LEMMA TypeStep == ASSUME TypeOK, [Next]_vars PROVE TypeOK'
<1> USE DEF TypeOK
<1>0. /\ NoRun \in Run /\ [phase |-> "held", left |-> Hold] \in Run
      /\ \A r \in Run : /\ [r EXCEPT !.phase = "started"] \in Run
                         /\ [r EXCEPT !.left = Hold] \in Run
                         /\ [r EXCEPT !.left = Less(@)] \in Run
  BY ConstantsOK DEF NoRun, Run, Less
<1>1. ASSUME NEW j \in Jobs, Enqueue(j) PROVE TypeOK'
  BY <1>1, RowWrites DEF Enqueue
<1>2. ASSUME NEW w \in Workers, NEW next \in {"lease", "tell"}, MarkInterrupted(w, next)
      PROVE TypeOK'
  <2>1. ASSUME NEW j \in Jobs PROVE SettledRow(row[j], "interrupted") \in Row
    BY RowWrites DEF Settled
  <2> QED BY <1>2, <2>1 DEF MarkInterrupted
<1>3. ASSUME NEW w \in Workers, NEW S \in SUBSET Jobs, Lease(w, S) \/ LeaseLost(w, S)
      PROVE TypeOK'
  <2>1. row' \in [Jobs -> Row]
    <3>1. row' = [j \in Jobs |-> IF j \in S THEN LeasedRow(row[j], w) ELSE row[j]]
      BY <1>3 DEF Lease, LeaseLost, Take
    <3>2. ASSUME NEW j \in Jobs PROVE LeasedRow(row[j], w) \in Row
      BY RowWrites
    <3> QED BY <3>1, <3>2
  <2>2. pc' \in [Workers -> {"idle", "lease", "tell"}] /\ starts' = starts /\ backs' = backs
    BY <1>3 DEF Lease, LeaseLost, Take
  <2>3. run' \in [Workers -> [Jobs -> Run]] /\ faults' \in Nat
    <3>1. \/ run' = run
          \/ run' = [run EXCEPT ![w] = [j \in Jobs |->
                       IF j \in S THEN [phase |-> "held", left |-> Hold] ELSE run[w][j]]]
      BY <1>3 DEF Lease, LeaseLost
    <3>2. [j \in Jobs |-> IF j \in S THEN [phase |-> "held", left |-> Hold] ELSE run[w][j]]
            \in [Jobs -> Run]
      BY <1>0
    <3> QED BY <1>3, <3>1, <3>2 DEF Lease, LeaseLost
  <2> QED BY <2>1, <2>2, <2>3
<1>4. ASSUME NEW w \in Workers, TakeInterrupted(w) PROVE TypeOK'
  <2>1. \A j \in Jobs : [row[j] EXCEPT !.told = TRUE] \in Row
    BY RowWrites
  <2> QED BY <1>4, <2>1 DEF TakeInterrupted
<1>5. ASSUME NEW w \in Workers, Crash(w) PROVE TypeOK'
  BY <1>5, <1>0 DEF Crash
<1>6. ASSUME NEW w \in Workers, NEW j \in Jobs, Start(w, j) PROVE TypeOK'
  <2>1. [run[w][j] EXCEPT !.phase = "started"] \in Run
    BY <1>0
  <2>2. run' \in [Workers -> [Jobs -> Run]]
    BY <1>6, <2>1 DEF Start
  <2> QED BY <1>6, <2>2 DEF Start
<1>7. ASSUME NEW w \in Workers, NEW j \in Jobs, Extend(w, j) PROVE TypeOK'
  <2>1. [row[j] EXCEPT !.left = Hold] \in Row
    BY RowWrites
  <2> QED BY <1>7, <1>0, <2>1 DEF Extend
<1>8. ASSUME NEW w \in Workers, NEW j \in Jobs, NEW r \in Row, Report(w, j, r),
             backs' \in Nat
      PROVE TypeOK'
  BY <1>8, <1>0 DEF Report
<1>9. ASSUME NEW w \in Workers, NEW j \in Jobs,
             NEW s \in {"done", "dropped", "failed"}, Finish(w, j, s)
      PROVE TypeOK'
  <2>1. SettledRow(row[j], s) \in Row
    BY RowWrites DEF Settled
  <2> QED BY <1>8, <1>9, <2>1 DEF Finish
<1>10. ASSUME NEW w \in Workers, NEW j \in Jobs, Fail(w, j) \/ Defer(w, j) \/ Release(w, j)
       PROVE TypeOK'
  <2>1. /\ FailedRow(row[j], MaxAttempts[j]) \in Row
        /\ BackRow(row[j], 0) \in Row /\ BackRow(row[j], Retry) \in Row
    BY RowWrites, ConstantsOK
  <2> QED BY <1>8, <1>10, <2>1 DEF Fail, Defer, Release
<1>11. ASSUME NEW w \in Workers, NEW j \in Jobs, Abandon(w, j) PROVE TypeOK'
  BY <1>11, <1>0 DEF Abandon
<1>12. CASE PurgeJobs
  BY <1>12, RowWrites DEF PurgeJobs
<1>13. CASE DropLiveJobs
  <2>1. ASSUME NEW j \in Jobs PROVE SettledRow(row[j], "dropped") \in Row
    BY RowWrites DEF Settled
  <2> QED BY <1>13, <2>1 DEF DropLiveJobs
<1>14. CASE Tick
  <2>1. row' \in [Jobs -> Row]
    BY <1>14, TickedRow DEF Tick
  <2>2. run' \in [Workers -> [Jobs -> Run]]
    BY <1>14, <1>0 DEF Tick
  <2> QED BY <1>14, <2>1, <2>2 DEF Tick
<1>15. CASE UNCHANGED vars
  BY <1>15 DEF vars
<1> QED
  BY <1>1, <1>2, <1>3, <1>4, <1>5, <1>6, <1>7, <1>9, <1>10, <1>11, <1>12, <1>13,
     <1>14, <1>15 DEF Next

(* Every variable has its type in every reachable state. *)
THEOREM TypeCorrect == Spec => []TypeOK
  BY TypeInit, TypeStep, PTL DEF Spec

-----------------------------------------------------------------------------
(* The inductive invariant.  OneLiveLease does not follow from itself: what  *)
(* the workers believe has to agree with the table.  A lease in force is     *)
(* either the row's own, ending no later than the row says, or the job was   *)
(* dropped under its worker's hands, too recently to have been purged.       *)

Agrees(w, j) ==
  run[w][j].left > 0 =>
    /\ run[w][j].phase # "no"
    /\ \/ Mine(w, j) /\ run[w][j].left <= row[j].left
       \/ row[j].status = "dropped" /\ run[w][j].left + row[j].age <= Hold

LeaseAgrees == \A w \in Workers, j \in Jobs : Agrees(w, j)

(* A job that is held and may still be begun, or handed back, has an attempt *)
(* of its own in the count, beyond the starts so far.                        *)
Counted(w, j) ==
  row[j].status # "none" =>
    /\ starts[j] <= row[j].attempts
    /\ run[w][j].phase = "held" /\ (Mine(w, j) \/ run[w][j].left > 0)
         => starts[j] + 1 <= row[j].attempts

HeldCounted == \A w \in Workers, j \in Jobs : Counted(w, j)

InterruptedCounted ==
  \A j \in Jobs : row[j].status = "interrupted" => row[j].attempts >= MaxAttempts[j]

IInv == TypeOK /\ LeaseAgrees /\ OneLiveLease /\ HeldCounted /\ InterruptedCounted

(* A lease in force stays the row's own: a row is leased anew only when it   *)
(* lapsed, and time takes from both sides alike.                             *)
LEMMA LeaseAgreesStep == ASSUME IInv, [Next]_vars PROVE LeaseAgrees'
<1> SUFFICES ASSUME NEW v \in Workers, NEW i \in Jobs PROVE Agrees(v, i)'
  BY DEF LeaseAgrees
<1> USE ConstantsOK DEF TypeOK, Agrees, Mine, Row, Run
<1>0. TypeOK /\ Agrees(v, i) /\ row[i] \in Row /\ run[v][i] \in Run
  BY DEF IInv, LeaseAgrees
<1> USE <1>0
<1>1. CASE \E j \in Jobs : Enqueue(j)
  BY <1>1 DEF Enqueue, NoRow, Settled
<1>2. CASE \E w \in Workers, next \in {"lease", "tell"} : MarkInterrupted(w, next)
  <2>1. /\ row'[i] = IF Exhausted(i) THEN SettledRow(row[i], "interrupted") ELSE row[i]
        /\ run'[v][i] = run[v][i] /\ starts' = starts
    BY <1>2 DEF MarkInterrupted
  <2> QED BY <2>1 DEF Exhausted, Lapsed, SettledRow, Settled
<1>3. ASSUME NEW w \in Workers, NEW S \in SUBSET Jobs, Lease(w, S) \/ LeaseLost(w, S)
      PROVE Agrees(v, i)'
  <2>1. i \in S => Due(i)
    BY <1>3 DEF Lease, LeaseLost, Take, Batch, Takeable
  <2>2. /\ row'[i] = IF i \in S THEN LeasedRow(row[i], w) ELSE row[i]
        /\ \/ run'[v][i] = run[v][i]
           \/ /\ i \in S /\ v = w
              /\ run'[v][i] = [phase |-> "held", left |-> Hold]
        /\ starts' = starts
    BY <1>3 DEF Lease, LeaseLost, Take
  <2> QED BY <2>1, <2>2 DEF Due, Lapsed, LeasedRow, Settled
<1>4. CASE \E w \in Workers : TakeInterrupted(w)
  BY <1>4 DEF TakeInterrupted, Settled
<1>5. CASE \E w \in Workers : Crash(w)
  BY <1>5 DEF Crash, NoRun, Settled
<1>6. CASE \E w \in Workers, j \in Jobs : Start(w, j)
  BY <1>6 DEF Start, Settled
<1>7. ASSUME NEW w \in Workers, NEW j \in Jobs, Extend(w, j) PROVE Agrees(v, i)'
  BY <1>7 DEF Extend, NoRun, Settled
<1>8. ASSUME NEW w \in Workers, NEW j \in Jobs,
             NEW s \in {"done", "dropped", "failed"}, Finish(w, j, s)
      PROVE Agrees(v, i)'
  BY <1>8 DEF Finish, Report, SettledRow, NoRun, Settled
<1>9. ASSUME NEW w \in Workers, NEW j \in Jobs, Fail(w, j)
      PROVE Agrees(v, i)'
  BY <1>9 DEF Fail, Report, FailedRow, SettledRow, NoRun, Settled
<1>10. ASSUME NEW w \in Workers, NEW j \in Jobs, Defer(w, j) \/ Release(w, j)
       PROVE Agrees(v, i)'
  <2>1. PICK due \in 0..Retry : Report(w, j, BackRow(row[j], due))
    BY <1>10 DEF Defer, Release
  <2>2. run[w][j].phase = "held"
    BY <1>10 DEF Defer, Release
  <2> QED BY <2>1, <2>2 DEF Report, BackRow, NoRun, Settled
<1>11. CASE \E w \in Workers, j \in Jobs : Abandon(w, j)
  BY <1>11 DEF Abandon, NoRun, Settled
<1>12. CASE PurgeJobs
  BY <1>12 DEF PurgeJobs, OldJobs, NoRow, Settled
<1>13. CASE DropLiveJobs
  <2>1. /\ row'[i] = IF row[i].status \in Live THEN SettledRow(row[i], "dropped") ELSE row[i]
        /\ run'[v][i] = run[v][i] /\ starts' = starts
    BY <1>13 DEF DropLiveJobs
  <2> QED BY <2>1 DEF SettledRow, Live, Settled
<1>14. CASE Tick
  <2>1. /\ run'[v][i] = [run[v][i] EXCEPT !.left = Less(@)]
        /\ row'[i] = [row[i] EXCEPT
               !.left = Less(@), !.dueIn = Less(@),
               !.age = IF row[i].status \in Settled /\ @ < AgeCap THEN @ + 1 ELSE @]
        /\ starts' = starts
    BY <1>14 DEF Tick
  <2> QED BY <2>1 DEF Less, AgeCap, Settled
<1>15. CASE UNCHANGED vars
  BY <1>15 DEF vars, Settled
<1> QED
  BY <1>1, <1>2, <1>3, <1>4, <1>5, <1>6, <1>7, <1>8, <1>9, <1>10, <1>11, <1>12, <1>13,
     <1>14, <1>15 DEF Next

(* Nobody's lease is in force on a row that can be leased. *)
LEMMA DueIsFree ==
  ASSUME TypeOK, LeaseAgrees, NEW j \in Jobs, Due(j), NEW w \in Workers
  PROVE  run[w][j].left = 0
  BY ConstantsOK DEF LeaseAgrees, Agrees, Mine, Due, Lapsed, TypeOK, Row, Run

(* No start escapes the count: a job is begun only by a worker that holds    *)
(* it, and is handed back only unbegun.                                      *)
LEMMA HeldCountedStep == ASSUME IInv, [Next]_vars PROVE HeldCounted'
<1> SUFFICES ASSUME NEW v \in Workers, NEW i \in Jobs PROVE Counted(v, i)'
  BY DEF HeldCounted
<1> USE ConstantsOK DEF TypeOK, Counted, Mine, Row, Run
<1>0. /\ TypeOK /\ row[i] \in Row /\ starts[i] \in Nat
      /\ \A w \in Workers : /\ Agrees(w, i) /\ Counted(w, i) /\ run[w][i] \in Run
                            /\ run[v][i].left > 0 /\ run[w][i].left > 0 => v = w
  BY DEF IInv, LeaseAgrees, HeldCounted, OneLiveLease
<1> USE <1>0
<1>1. CASE \E j \in Jobs : Enqueue(j)
  <2>1. PICK j \in Jobs : Enqueue(j)
    BY <1>1
  <2>2. j # i => row'[i] = row[i] /\ starts'[i] = starts[i] /\ run' = run
    BY <2>1 DEF Enqueue
  <2>3. j = i => /\ starts'[i] = 0 /\ run' = run /\ row[i].status = "none"
                 /\ row'[i].status \in {"new", "shadow"} /\ row'[i].attempts = 0
    BY <2>1 DEF Enqueue, NoRow
  <2> QED BY <2>2, <2>3 DEF Agrees
<1>2. CASE \E w \in Workers, next \in {"lease", "tell"} : MarkInterrupted(w, next)
  <2>1. /\ row'[i] = IF Exhausted(i) THEN SettledRow(row[i], "interrupted") ELSE row[i]
        /\ run'[v][i] = run[v][i] /\ starts' = starts
    BY <1>2 DEF MarkInterrupted
  <2> QED BY <2>1 DEF Exhausted, Lapsed, SettledRow, Agrees
<1>3. ASSUME NEW w \in Workers, NEW S \in SUBSET Jobs, Lease(w, S) \/ LeaseLost(w, S)
      PROVE Counted(v, i)'
  <2>1. i \in S => Due(i)
    BY <1>3 DEF Lease, LeaseLost, Take, Batch, Takeable
  <2>2. /\ row'[i] = IF i \in S THEN LeasedRow(row[i], w) ELSE row[i]
        /\ \/ run'[v][i] = run[v][i]
           \/ /\ i \in S /\ v = w
              /\ run'[v][i] = [phase |-> "held", left |-> Hold]
        /\ starts' = starts
    BY <1>3 DEF Lease, LeaseLost, Take
  <2> QED BY <2>1, <2>2 DEF Due, Lapsed, LeasedRow, Agrees
<1>4. CASE \E w \in Workers : TakeInterrupted(w)
  BY <1>4 DEF TakeInterrupted, Agrees
<1>5. CASE \E w \in Workers : Crash(w)
  BY <1>5 DEF Crash, NoRun, Agrees
<1>6. CASE \E w \in Workers, j \in Jobs : Start(w, j)
  BY <1>6 DEF Start, Agrees
<1>7. ASSUME NEW w \in Workers, NEW j \in Jobs, Extend(w, j) PROVE Counted(v, i)'
  BY <1>7 DEF Extend, NoRun, Agrees
<1>8. ASSUME NEW w \in Workers, NEW j \in Jobs,
             NEW s \in {"done", "dropped", "failed"}, Finish(w, j, s)
      PROVE Counted(v, i)'
  BY <1>8 DEF Finish, Report, SettledRow, NoRun, Agrees
<1>9. ASSUME NEW w \in Workers, NEW j \in Jobs, Fail(w, j)
      PROVE Counted(v, i)'
  BY <1>9 DEF Fail, Report, FailedRow, SettledRow, NoRun, Agrees
<1>10. ASSUME NEW w \in Workers, NEW j \in Jobs, Defer(w, j) \/ Release(w, j)
       PROVE Counted(v, i)'
  <2>1. PICK due \in 0..Retry : Report(w, j, BackRow(row[j], due))
    BY <1>10 DEF Defer, Release
  <2>2. run[w][j].phase = "held"
    BY <1>10 DEF Defer, Release
  <2> QED BY <2>1, <2>2 DEF Report, BackRow, NoRun, Agrees
<1>11. CASE \E w \in Workers, j \in Jobs : Abandon(w, j)
  BY <1>11 DEF Abandon, NoRun, Agrees
<1>12. CASE PurgeJobs
  BY <1>12 DEF PurgeJobs, OldJobs, NoRow, Agrees
<1>13. CASE DropLiveJobs
  <2>1. /\ row'[i] = IF row[i].status \in Live THEN SettledRow(row[i], "dropped") ELSE row[i]
        /\ run'[v][i] = run[v][i] /\ starts' = starts
    BY <1>13 DEF DropLiveJobs
  <2> QED BY <2>1 DEF SettledRow, Live, Agrees
<1>14. CASE Tick
  <2>1. /\ run'[v][i] = [run[v][i] EXCEPT !.left = Less(@)]
        /\ row'[i] = [row[i] EXCEPT
               !.left = Less(@), !.dueIn = Less(@),
               !.age = IF row[i].status \in Settled /\ @ < AgeCap THEN @ + 1 ELSE @]
        /\ starts' = starts
    BY <1>14 DEF Tick
  <2> QED BY <2>1 DEF Less, AgeCap, Agrees
<1>15. CASE UNCHANGED vars
  BY <1>15 DEF vars, Agrees
<1> QED
  BY <1>1, <1>2, <1>3, <1>4, <1>5, <1>6, <1>7, <1>8, <1>9, <1>10, <1>11, <1>12, <1>13,
     <1>14, <1>15 DEF Next

(* What a worker does to one job but for extending it: started or put down. *)
OneJob(w, j) ==
  \/ Start(w, j) \/ Fail(w, j) \/ Defer(w, j) \/ Release(w, j) \/ Abandon(w, j)
  \/ \E s \in {"done", "dropped", "failed"} : Finish(w, j, s)

LEMMA OneJobSteps ==
  ASSUME NEW w \in Workers, NEW j \in Jobs, OneJob(w, j)
  PROVE  pc' = pc /\ \/ run' = [run EXCEPT ![w][j] = NoRun]
                     \/ run' = [run EXCEPT ![w][j].phase = "started"]
BY DEF OneJob, Start, Fail, Defer, Release, Abandon, Finish, Report

(* Only Lease and Extend bring a lease into force. *)
LEMMA RunSteps ==
  ASSUME TypeOK, [Next]_vars, NEW w \in Workers, NEW i \in Jobs,
         run[w][i].left = 0, run'[w][i].left > 0
  PROVE  \/ \E u \in Workers, S \in SUBSET Jobs : Lease(u, S)
         \/ \E u \in Workers, j \in Jobs : Extend(u, j)
<1> USE DEF TypeOK, Run
<1>1. ASSUME run' = run PROVE FALSE
  BY <1>1
<1>2. ASSUME NEW u \in Workers, NEW j \in Jobs, run' = [run EXCEPT ![u][j] = NoRun]
      PROVE  FALSE
  BY <1>2 DEF NoRun
<1>3. ASSUME NEW u \in Workers, NEW j \in Jobs,
             run' = [run EXCEPT ![u][j].phase = "started"]
      PROVE  FALSE
  BY <1>3
<1>4. ASSUME NEW u \in Workers, Crash(u) PROVE FALSE
  BY <1>4 DEF Crash, NoRun
<1>5. ASSUME Tick PROVE FALSE
  <2>1. run'[w][i] = [run[w][i] EXCEPT !.left = Less(@)]
    BY <1>5 DEF Tick
  <2> QED BY <2>1 DEF Less
<1>6. \/ run' = run
      \/ \E u \in Workers, j \in Jobs : \/ run' = [run EXCEPT ![u][j] = NoRun]
                                        \/ run' = [run EXCEPT ![u][j].phase = "started"]
                                        \/ Extend(u, j)
      \/ \E u \in Workers, S \in SUBSET Jobs : Lease(u, S)
      \/ (\E u \in Workers : Crash(u)) \/ Tick
  <2>1. ASSUME NEW u \in Workers, NEW j \in Jobs, OneJob(u, j)
        PROVE  run' = [run EXCEPT ![u][j] = NoRun] \/ run' = [run EXCEPT ![u][j].phase = "started"]
    BY <2>1, OneJobSteps
  <2>2. CASE \E u \in Workers, j \in Jobs : OneJob(u, j)
    BY <2>1, <2>2
  <2>3. CASE ~\E u \in Workers, j \in Jobs : OneJob(u, j)
    BY <2>3 DEF Next, vars, Enqueue, MarkInterrupted, LeaseLost, TakeInterrupted, OneJob, PurgeJobs, DropLiveJobs
  <2> QED BY <2>2, <2>3
<1> HIDE DEF TypeOK, Run
<1> QED
  BY <1>1, <1>2, <1>3, <1>4, <1>5, <1>6

(* Two leases are in force together only if they were before: a lease begins *)
(* where there is none, or, with Extend, where the row names its worker.     *)
LEMMA OneLiveLeaseStep == ASSUME IInv, [Next]_vars PROVE OneLiveLease'
<1> SUFFICES ASSUME NEW i \in Jobs, NEW u \in Workers, NEW v \in Workers,
                    run'[u][i].left > 0, run'[v][i].left > 0
             PROVE  u = v
  BY DEF OneLiveLease
<1> USE ConstantsOK
<1>0. /\ TypeOK /\ row[i] \in Row
      /\ run[u][i] \in Run /\ run[v][i] \in Run
      /\ Agrees(u, i) /\ Agrees(v, i)
      /\ run[u][i].left > 0 /\ run[v][i].left > 0 => u = v
  BY DEF IInv, LeaseAgrees, OneLiveLease, TypeOK
<1>1. CASE run[u][i].left > 0 /\ run[v][i].left > 0
  BY <1>0, <1>1
<1>2. ASSUME NEW x \in {u, v}, run[x][i].left = 0
      PROVE  Mine(x, i)' /\ Agrees(u, i)' /\ Agrees(v, i)'
  <2>1. Agrees(u, i)' /\ Agrees(v, i)'
    BY LeaseAgreesStep DEF LeaseAgrees
  <2>2. run'[x][i].left > 0
    OBVIOUS
  <2>3. \/ \E w \in Workers, S \in SUBSET Jobs : Lease(w, S)
        \/ \E w \in Workers, j \in Jobs : Extend(w, j)
    BY <2>2, <1>2, RunSteps, <1>0
  <2>4. ASSUME NEW w \in Workers, NEW S \in SUBSET Jobs, Lease(w, S)
        PROVE  Mine(x, i)'
    <3>1. run'[x][i] = IF x = w /\ i \in S THEN [phase |-> "held", left |-> Hold] ELSE run[x][i]
      BY <2>4, <1>0 DEF Lease, TypeOK
    <3>2. x = w /\ i \in S
      BY <3>1, <2>2, <1>2
    <3>3. row'[i] = LeasedRow(row[i], w)
      BY <2>4, <3>2 DEF Lease, Take
    <3> QED BY <3>2, <3>3, <1>0 DEF LeasedRow, Mine, Row
  <2>5. ASSUME NEW w \in Workers, NEW j \in Jobs, Extend(w, j)
        PROVE  Mine(x, i)'
    BY <2>5, <2>2, <1>2, <1>0 DEF Extend, Mine, NoRun, TypeOK, Run, Row
  <2> QED BY <2>1, <2>3, <2>4, <2>5
<1>3. CASE run[u][i].left = 0 \/ run[v][i].left = 0
  BY <1>2, <1>3 DEF Agrees, Mine
<1> QED BY <1>0, <1>1, <1>3 DEF Run

(* All that can happen to one row in one step. *)
RowStep(i) ==
  \/ row'[i] = row[i]
  \/ row[i].status = "none" /\ row'[i].status \in {"new", "shadow"} /\ row'[i].attempts = 0
  \/ Exhausted(i) /\ row'[i] = SettledRow(row[i], "interrupted")
  \/ Due(i) /\ \E w \in Workers : pc[w] = "lease" /\ row'[i] = LeasedRow(row[i], w)
  \/ row'[i] = [row[i] EXCEPT !.told = TRUE]
  \/ /\ row[i].status = "running"
     /\ \/ row'[i] = [row[i] EXCEPT !.left = Hold]
        \/ \E s \in {"done", "dropped", "failed"} : row'[i] = SettledRow(row[i], s)
        \/ row'[i] = FailedRow(row[i], MaxAttempts[i])
        \/ \E due \in {0, Retry} : row'[i] = BackRow(row[i], due)
  \/ row[i].status \in Settled /\ row'[i] = NoRow
  \/ row[i].status \in Live /\ row'[i] = SettledRow(row[i], "dropped")
  \/ Tick /\ row'[i].status = row[i].status /\ row'[i].attempts = row[i].attempts

LEMMA RowSteps == ASSUME TypeOK, [Next]_vars, NEW i \in Jobs PROVE RowStep(i)
<1> USE DEF TypeOK
<1>1. CASE \E j \in Jobs : Enqueue(j)
  BY <1>1 DEF Enqueue, NoRow, RowStep
<1>2. CASE \E w \in Workers, next \in {"lease", "tell"} : MarkInterrupted(w, next)
  <2>1. row'[i] = IF Exhausted(i) THEN SettledRow(row[i], "interrupted") ELSE row[i]
    BY <1>2 DEF MarkInterrupted
  <2> QED BY <2>1 DEF RowStep
<1>3. ASSUME NEW w \in Workers, NEW S \in SUBSET Jobs, Take(w, S) PROVE RowStep(i)
  <2>1. /\ row'[i] = IF i \in S THEN LeasedRow(row[i], w) ELSE row[i]
        /\ i \in S => Due(i)
        /\ pc[w] = "lease"
    BY <1>3 DEF Take, Batch, Takeable
  <2> QED BY <2>1 DEF RowStep
<1>4. CASE \E w \in Workers : TakeInterrupted(w)
  <2>1. row'[i] = row[i] \/ row'[i] = [row[i] EXCEPT !.told = TRUE]
    BY <1>4 DEF TakeInterrupted
  <2> QED BY <2>1 DEF RowStep
<1>5. ASSUME NEW w \in Workers, NEW j \in Jobs, Extend(w, j) PROVE RowStep(i)
  <2>1. \/ row'[i] = row[i]
        \/ row[i].status = "running" /\ row'[i] = [row[i] EXCEPT !.left = Hold]
    BY <1>5 DEF Extend, Mine
  <2> QED BY <2>1 DEF RowStep
<1>6. ASSUME NEW w \in Workers, NEW j \in Jobs, NEW r, Report(w, j, r)
      PROVE  row'[i] = row[i] \/ (i = j /\ row[i].status = "running" /\ row'[i] = r)
  BY <1>6 DEF Report, Mine
<1>7. ASSUME NEW w \in Workers, NEW j \in Jobs, NEW s \in {"done", "dropped", "failed"},
             Finish(w, j, s)
      PROVE  RowStep(i)
  BY <1>6, <1>7 DEF Finish, RowStep
<1>8. ASSUME NEW w \in Workers, NEW j \in Jobs, Fail(w, j) PROVE RowStep(i)
  BY <1>6, <1>8 DEF Fail, RowStep
<1>9. ASSUME NEW w \in Workers, NEW j \in Jobs, Defer(w, j) \/ Release(w, j) PROVE RowStep(i)
  <2>1. PICK due \in {0, Retry} : Report(w, j, BackRow(row[j], due))
    BY <1>9 DEF Defer, Release
  <2> QED BY <1>6, <2>1 DEF RowStep
<1>10. CASE PurgeJobs
  <2>1. row'[i] = IF i \in OldJobs THEN NoRow ELSE row[i]
    BY <1>10 DEF PurgeJobs
  <2>2. i \in OldJobs => row[i].status \in Settled
    BY DEF OldJobs, Settled
  <2> QED BY <2>1, <2>2 DEF RowStep
<1>11. CASE DropLiveJobs
  <2>1. row'[i] = IF row[i].status \in Live THEN SettledRow(row[i], "dropped") ELSE row[i]
    BY <1>11 DEF DropLiveJobs
  <2> QED BY <2>1 DEF RowStep
<1>12. CASE Tick
  <2>1. row[i] \in Row
    OBVIOUS
  <2>2. row'[i] = [row[i] EXCEPT !.left = Less(@), !.dueIn = Less(@),
               !.age = IF row[i].status \in Settled /\ @ < AgeCap THEN @ + 1 ELSE @]
    BY <1>12 DEF Tick
  <2>3. row'[i].status = row[i].status /\ row'[i].attempts = row[i].attempts
    BY <2>1, <2>2 DEF Row
  <2> QED BY <1>12, <2>3 DEF RowStep
<1>13. CASE \/ UNCHANGED vars
            \/ \E w \in Workers : Crash(w)
            \/ \E w \in Workers, j \in Jobs : Start(w, j) \/ Abandon(w, j)
  <2>1. row' = row
    BY <1>13 DEF vars, Crash, Start, Abandon
  <2> QED BY <2>1 DEF RowStep
<1> QED
  BY <1>1, <1>2, <1>3, <1>4, <1>5, <1>7, <1>8, <1>9, <1>10, <1>11, <1>12, <1>13
     DEF Next, Lease, LeaseLost

(* A job becomes interrupted only in markInterrupted, when it is exhausted.  *)
LEMMA InterruptedCountedStep == ASSUME IInv, [Next]_vars PROVE InterruptedCounted'
<1> SUFFICES ASSUME NEW i \in Jobs, row'[i].status = "interrupted"
             PROVE  row'[i].attempts >= MaxAttempts[i]
  BY DEF InterruptedCounted
<1>1. /\ TypeOK /\ row[i] \in Row
      /\ row[i].status = "interrupted" => row[i].attempts >= MaxAttempts[i]
  BY DEF IInv, InterruptedCounted, TypeOK
<1>2. RowStep(i)
  BY RowSteps, <1>1
<1>3. row'[i] # FailedRow(row[i], MaxAttempts[i])
  BY <1>1 DEF FailedRow, SettledRow, Row
<1>4. \A due \in {0, Retry} : row'[i] # BackRow(row[i], due)
  BY <1>1 DEF BackRow, Row
<1>5. \A w \in Workers : row'[i] # LeasedRow(row[i], w)
  BY <1>1 DEF LeasedRow, Row
<1>6. \A s \in {"done", "dropped", "failed"} : row'[i] # SettledRow(row[i], s)
  BY <1>1 DEF SettledRow, Row
<1>7. row'[i] # [row[i] EXCEPT !.left = Hold] \/ row[i].status # "running"
  BY <1>1 DEF Row
<1>8. row'[i] # NoRow /\ row'[i] # SettledRow(row[i], "dropped")
  <2>1. NoRow.status = "none"
    BY DEF NoRow
  <2>2. SettledRow(row[i], "dropped").status = "dropped"
    BY <1>1 DEF SettledRow, Row
  <2> QED BY <2>1, <2>2
<1>9. CASE Exhausted(i) /\ row'[i] = SettledRow(row[i], "interrupted")
  BY <1>1, <1>9 DEF Exhausted, SettledRow, Row
<1>10. CASE row'[i] = [row[i] EXCEPT !.told = TRUE]
  BY <1>1, <1>10 DEF Row
<1> QED
  BY <1>1, <1>2, <1>3, <1>4, <1>5, <1>6, <1>7, <1>8, <1>9, <1>10 DEF RowStep

LEMMA InvariantHolds == Spec => []IInv
<1>1. Init => IInv
  <2>1. ASSUME Init PROVE LeaseAgrees /\ OneLiveLease /\ HeldCounted /\ InterruptedCounted
    BY <2>1 DEF Init, NoRow, NoRun, LeaseAgrees, Agrees, OneLiveLease, HeldCounted,
                Counted, InterruptedCounted
  <2> QED BY <2>1, TypeInit DEF IInv
<1>2. IInv /\ [Next]_vars => IInv'
  BY TypeStep, LeaseAgreesStep, OneLiveLeaseStep, HeldCountedStep, InterruptedCountedStep
     DEF IInv
<1> QED BY <1>1, <1>2, PTL DEF Spec

(* No two workers ever hold leases in force on one job. *)
THEOREM LeasesExclude == Spec => []OneLiveLease
<1>1. IInv => OneLiveLease
  BY DEF IInv
<1> QED BY <1>1, InvariantHolds, PTL

(* A job was never started more often than its row counts. *)
THEOREM EveryStartCounted == Workers # {} => (Spec => []StartsCounted)
<1> SUFFICES ASSUME Workers # {} PROVE Spec => []StartsCounted
  OBVIOUS
<1>1. IInv => StartsCounted
  BY DEF IInv, HeldCounted, Counted, StartsCounted
<1> QED BY <1>1, InvariantHolds, PTL

(* Giving up never cuts short an attempt the job still had, nor a lease in   *)
(* force.                                                                    *)
THEOREM GivingUpIsLate == Spec => []InterruptedIsOver
<1>1. ASSUME IInv, NEW j \in Jobs, row[j].status = "interrupted", NEW w \in Workers
      PROVE  run[w][j].left = 0
  <2>1. Agrees(w, j) /\ run[w][j].left \in 0..Hold
    BY <1>1 DEF IInv, LeaseAgrees, TypeOK, Run
  <2> QED BY <1>1, <2>1, ConstantsOK DEF Agrees, Mine
<1>2. IInv => InterruptedIsOver
  BY <1>1 DEF IInv, InterruptedCounted, InterruptedIsOver
<1> QED BY <1>2, InvariantHolds, PTL

(* Together: what the table and the workers hold of a job agrees. *)
THEOREM QueueHolds == Workers # {} => (Spec => []QueueInv)
<1> SUFFICES ASSUME Workers # {} PROVE Spec => []QueueInv
  OBVIOUS
<1>1. Spec => []StartsCounted
  BY EveryStartCounted
<1>2. TypeOK /\ OneLiveLease /\ StartsCounted /\ InterruptedIsOver => QueueInv
  BY DEF QueueInv
<1> QED BY <1>1, <1>2, TypeCorrect, LeasesExclude, GivingUpIsLate, PTL


(* What is settled stays settled, whatever reports come late. *)
THEOREM SettlingIsFinal == Spec => SettledStays
<1>1. ASSUME TypeOK, [Next]_vars, NEW j \in Jobs, row[j].status \in Settled
      PROVE  row'[j].status \in {row[j].status, "none"}
  <2>1. RowStep(j) /\ row[j] \in Row
    BY <1>1, RowSteps DEF TypeOK
  <2> QED BY <1>1, <2>1 DEF RowStep, Row, Settled, Live, Exhausted, Due, Lapsed, NoRow
<1>2. TypeOK /\ [Next]_vars =>
        [\A j \in Jobs : row[j].status \in Settled =>
           row'[j].status \in {row[j].status, "none"}]_vars
  BY <1>1
<1> QED BY <1>2, TypeCorrect, PTL DEF Spec, SettledStays

-----------------------------------------------------------------------------
(* "It is never run a second time" (domain/pipeline.go) is kept as long as   *)
(* no time passes between the two statements of a lease: then no lapsed row  *)
(* is left that was started as often as it may, and a row that waits has an  *)
(* attempt to spare.                                                         *)

NoneExhausted == \A w \in Workers : pc[w] = "lease" => \A j \in Jobs : ~Exhausted(j)

ToSpare(j) ==
  /\ row[j].attempts <= MaxAttempts[j]
  /\ row[j].status = "new" => row[j].attempts < MaxAttempts[j]

PromptInv == NoneExhausted /\ (\A j \in Jobs : ToSpare(j)) /\ StartsWithinMax

LEMMA NoneExhaustedStep ==
  ASSUME TypeOK, NoneExhausted, Prompt, [Next]_vars PROVE NoneExhausted'
<1> SUFFICES ASSUME NEW v \in Workers, pc'[v] = "lease", NEW i \in Jobs PROVE ~Exhausted(i)'
  BY DEF NoneExhausted
<1>0. row[i] \in Row /\ Hold > 0 /\ MaxAttempts[i] \in Nat \ {0}
  BY ConstantsOK DEF TypeOK
<1>1. CASE \E w \in Workers, next \in {"lease", "tell"} : MarkInterrupted(w, next)
  <2>1. row'[i] = IF Exhausted(i) THEN SettledRow(row[i], "interrupted") ELSE row[i]
    BY <1>1 DEF MarkInterrupted
  <2> QED BY <1>0, <2>1 DEF Exhausted, Lapsed, SettledRow, Row
<1>2. CASE ~\E w \in Workers, next \in {"lease", "tell"} : MarkInterrupted(w, next)
  <2>0. pc' = pc \/ \E w \in Workers : pc' = [pc EXCEPT ![w] = "idle"]
    <3>1. CASE \E w \in Workers, j \in Jobs : OneJob(w, j)
      BY <3>1, OneJobSteps
    <3>2. CASE ~\E w \in Workers, j \in Jobs : OneJob(w, j)
      BY <1>2, <3>2 DEF Next, vars, Enqueue, Lease, LeaseLost, Take, TakeInterrupted, Crash,
        Extend, OneJob, PurgeJobs, DropLiveJobs, Tick
    <3> QED BY <3>1, <3>2
  <2>1. pc[v] = "lease"
    BY <2>0 DEF TypeOK
  <2>2. ~Exhausted(i) /\ ~Tick
    BY <2>1 DEF NoneExhausted, Tick
  <2>3. RowStep(i)
    BY RowSteps
  <2>4. ASSUME NEW w \in Workers, row'[i] = LeasedRow(row[i], w) PROVE ~Exhausted(i)'
    BY <1>0, <2>4 DEF LeasedRow, Exhausted, Lapsed, Row
  <2>5. CASE \/ row'[i] = FailedRow(row[i], MaxAttempts[i])
             \/ \E due \in {0, Retry} : row'[i] = BackRow(row[i], due)
    BY <1>0, <2>5 DEF FailedRow, BackRow, SettledRow, Exhausted, Lapsed, Row
  <2>6. ASSUME NEW s \in {"interrupted", "done", "dropped", "failed"}, row'[i] = SettledRow(row[i], s)
        PROVE  ~Exhausted(i)'
    BY <1>0, <2>6 DEF SettledRow, Exhausted, Lapsed, Row
  <2>7. CASE \/ row'[i] = [row[i] EXCEPT !.left = Hold] \/ row'[i] = NoRow
             \/ row'[i].status \in {"new", "shadow"}
    BY <1>0, <2>7 DEF NoRow, Exhausted, Lapsed, Row
  <2>8. CASE row'[i] = row[i] \/ row'[i] = [row[i] EXCEPT !.told = TRUE]
    BY <1>0, <2>2, <2>8 DEF Exhausted, Lapsed, Row
  <2> QED BY <2>2, <2>3, <2>4, <2>5, <2>6, <2>7, <2>8 DEF RowStep
<1> QED BY <1>1, <1>2

LEMMA ToSpareStep ==
  ASSUME TypeOK, NoneExhausted, NEW i \in Jobs, ToSpare(i), [Next]_vars PROVE ToSpare(i)'
<1>0. /\ row[i] \in Row /\ row[i].attempts \in Nat /\ MaxAttempts[i] \in Nat \ {0}
  BY ConstantsOK DEF TypeOK, Row
<1>1. RowStep(i)
  BY RowSteps
<1>2. ASSUME NEW w \in Workers, pc[w] = "lease", Due(i), row'[i] = LeasedRow(row[i], w)
      PROVE  ToSpare(i)'
  <2>1. ~Exhausted(i)
    BY <1>2 DEF NoneExhausted
  <2> QED BY <1>0, <1>2, <2>1 DEF ToSpare, Exhausted, Due, Lapsed, LeasedRow, Row
<1>3. CASE row'[i] = FailedRow(row[i], MaxAttempts[i])
  BY <1>0, <1>3 DEF ToSpare, FailedRow, SettledRow, Row
<1>4. CASE \E due \in {0, Retry} : row'[i] = BackRow(row[i], due)
  BY <1>0, <1>4 DEF ToSpare, BackRow, Row
<1>5. ASSUME NEW s \in {"interrupted", "done", "dropped", "failed"}, row'[i] = SettledRow(row[i], s)
      PROVE  ToSpare(i)'
  BY <1>0, <1>5 DEF ToSpare, SettledRow, Row
<1>6. CASE \/ row'[i] = [row[i] EXCEPT !.left = Hold] \/ row'[i] = [row[i] EXCEPT !.told = TRUE]
           \/ row'[i] = NoRow
  BY <1>0, <1>6 DEF ToSpare, NoRow, Row
<1>7. CASE \/ row'[i].status \in {"new", "shadow"} /\ row'[i].attempts = 0
           \/ row'[i].status = row[i].status /\ row'[i].attempts = row[i].attempts
  BY <1>0, <1>7 DEF ToSpare
<1> QED BY <1>1, <1>2, <1>3, <1>4, <1>5, <1>6, <1>7 DEF RowStep

(* No job is ever started more often than its MaxAttempts, if every lease is *)
(* prompt: the one thing the two statements leave open (Lease).              *)
THEOREM PromptLeasesAreEnough == Prompt => (Spec => []StartsWithinMax)
<1> SUFFICES ASSUME Prompt PROVE Spec => []StartsWithinMax
  OBVIOUS
<1>1. Init => PromptInv
  BY ConstantsOK DEF Init, PromptInv, NoneExhausted, ToSpare, StartsWithinMax, NoRow
<1>2. ASSUME IInv, PromptInv, [Next]_vars PROVE PromptInv'
  <2>1. NoneExhausted' /\ \A j \in Jobs : ToSpare(j)'
    BY <1>2, NoneExhaustedStep, ToSpareStep DEF PromptInv, IInv
  <2>2. ASSUME NEW i \in Jobs PROVE starts'[i] <= MaxAttempts[i]
    <3>0. starts[i] <= MaxAttempts[i] /\ MaxAttempts[i] \in Nat \ {0} /\ TypeOK
      BY <1>2, ConstantsOK DEF PromptInv, StartsWithinMax, IInv
    <3>1. CASE \E w \in Workers : Start(w, i)
      <4>1. PICK w \in Workers : Start(w, i)
        BY <3>1
      <4>2. row[i].status # "none" /\ starts'[i] = starts[i] + 1
        BY <1>2, <3>0, <4>1, ConstantsOK
           DEF IInv, LeaseAgrees, Agrees, Mine, Start, TypeOK, Run
      <4>3. starts[i] + 1 <= row[i].attempts
        BY <1>2, <4>1, <4>2 DEF IInv, HeldCounted, Counted, Start
      <4> QED BY <1>2, <3>0, <4>2, <4>3 DEF PromptInv, ToSpare, TypeOK, Row
    <3>2. CASE \E j \in Jobs : Enqueue(j)
      BY <3>0, <3>2 DEF Enqueue, TypeOK
    <3>3. CASE ~(\E w \in Workers : Start(w, i)) /\ ~\E j \in Jobs : Enqueue(j)
      <4>1. starts'[i] = starts[i]
        <5>1. CASE UNCHANGED vars \/ PurgeJobs \/ DropLiveJobs \/ Tick
          BY <5>1 DEF vars, PurgeJobs, DropLiveJobs, Tick
        <5>2. ASSUME NEW w \in Workers, NEW j \in Jobs, Start(w, j) PROVE starts'[i] = starts[i]
          BY <3>0, <3>3, <5>2 DEF Start, TypeOK
        <5>3. ASSUME NEW w \in Workers,
                     \/ \E next \in {"lease", "tell"} : MarkInterrupted(w, next)
                     \/ \E S \in SUBSET Jobs : Lease(w, S) \/ LeaseLost(w, S)
                     \/ TakeInterrupted(w) \/ Crash(w)
              PROVE  starts'[i] = starts[i]
          BY <5>3 DEF MarkInterrupted, Lease, LeaseLost, TakeInterrupted, Crash
        <5>4. ASSUME NEW w \in Workers, NEW j \in Jobs,
                     \/ Extend(w, j) \/ Fail(w, j) \/ Defer(w, j) \/ Release(w, j) \/ Abandon(w, j)
                     \/ \E s \in {"done", "dropped", "failed"} : Finish(w, j, s)
              PROVE  starts'[i] = starts[i]
          BY <5>4 DEF Extend, Fail, Defer, Release, Abandon, Finish, Report
        <5> QED BY <1>2, <3>3, <5>1, <5>2, <5>3, <5>4 DEF Next
      <4> QED BY <3>0, <4>1
    <3> QED BY <3>1, <3>2, <3>3
  <2> QED BY <2>1, <2>2 DEF PromptInv, StartsWithinMax
<1>3. PromptInv => StartsWithinMax
  BY DEF PromptInv
<1> QED BY <1>1, <1>2, <1>3, InvariantHolds, PTL DEF Spec

-----------------------------------------------------------------------------
(* The table and its workers implement JobLife: every statement is a step of *)
(* it, or none.                                                             *)

LEMMA LifeStates ==
  /\ LifeState("none") = "absent" /\ LifeState("new") = "waiting" /\ LifeState("running") = "held"
  /\ \A s \in Settled : LifeState(s) = "settled"
  /\ \A s \in Status : /\ LifeState(s) = "held" => s = "running"
                        /\ LifeState(s) \in {"waiting", "held"} <=> s \in Live
BY DEF LifeState, Settled, Status, Live

(* What happens to rows, as JobLife sees it. *)
LEMMA RowsMove ==
  ASSUME NEW S \in SUBSET Jobs, NEW s, NEW w,
         \A j \in S : LifeState(row'[j].status) = s /\ row'[j].by = w,
         \A j \in Jobs \ S : row'[j].status = row[j].status /\ row'[j].by = row[j].by
  PROVE  Life!Move(S, s, w)
BY DEF Life!Move

SameRows == \A j \in Jobs : row'[j].status = row[j].status /\ row'[j].by = row[j].by

LEMMA RowsStay ==
  ASSUME SameRows
  PROVE  /\ [j \in Jobs |-> LifeState(row[j].status)]' = [j \in Jobs |-> LifeState(row[j].status)]
         /\ [j \in Jobs |-> row[j].by]' = [j \in Jobs |-> row[j].by]
BY DEF SameRows

(* Giving up, purging and dropping.                                          *)
LEMMA GivingUp ==
  ASSUME TypeOK, LeaseAgrees, NEW w \in Workers, NEW next, MarkInterrupted(w, next)
  PROVE  Life!Next
<1>0. PICK S \in SUBSET Jobs : S = {j \in Jobs : Exhausted(j)}
  OBVIOUS
<1>1. \A j \in Jobs : row[j] \in Row
  BY DEF TypeOK
<1>2. run' = run /\ \A j \in Jobs : row'[j] = IF Exhausted(j) THEN SettledRow(row[j], "interrupted")
                                                             ELSE row[j]
  BY DEF MarkInterrupted
<1>3. \A j \in S : row'[j].status = "interrupted" /\ row'[j].by = NoWorker
  BY <1>0, <1>1, <1>2 DEF SettledRow, Row
<1>4. Life!Move(S, "settled", NoWorker)
  <2>1. \A j \in S : LifeState(row'[j].status) = "settled"
    BY <1>3, LifeStates DEF Settled
  <2> QED BY <1>0, <1>2, <1>3, <2>1, RowsMove
<1>5. ASSUME NEW j \in S
      PROVE  LifeState(row[j].status) = "held" /\ \A v \in Workers : run[v][j].left = 0
  <2>1. Due(j) /\ Exhausted(j)
    BY <1>0 DEF Exhausted, Due
  <2> QED BY <2>1, DueIsFree, LifeStates DEF Exhausted, Lapsed
<1>6. Life!GiveUp(S)
  <2>1. \A j \in S : \A v \in Workers : ~(run[v][j].left > 0)
    BY <1>5
  <2> QED BY <1>2, <1>4, <1>5, <2>1 DEF Life!GiveUp, Life!Free
<1> QED BY <1>6 DEF Life!Next

LEMMA Forgetting == ASSUME TypeOK, PurgeJobs PROVE Life!Next
<1>0. PICK S \in SUBSET Jobs : S = OldJobs
  BY DEF OldJobs
<1>1. run' = run /\ \A j \in Jobs : row'[j] = IF j \in S THEN NoRow ELSE row[j]
  BY <1>0 DEF PurgeJobs
<1>2. \A j \in S : row[j].status \in Settled
  BY <1>0 DEF OldJobs, Settled
<1>3. Life!Move(S, "absent", NoWorker)
  <2>1. \A j \in S : LifeState(row'[j].status) = "absent" /\ row'[j].by = NoWorker
    BY <1>1, LifeStates DEF NoRow
  <2> QED BY <1>1, <2>1, RowsMove
<1>4. Life!Forget(S)
  <2>1. \A j \in S : LifeState(row[j].status) = "settled"
    BY <1>2, LifeStates
  <2> QED BY <1>1, <1>3, <2>1 DEF Life!Forget
<1> QED BY <1>4 DEF Life!Next

LEMMA Dropping == ASSUME TypeOK, DropLiveJobs PROVE Life!Next
<1>0. PICK S \in SUBSET Jobs : S = {j \in Jobs : row[j].status \in Live}
  OBVIOUS
<1>1. run' = run /\ \A j \in Jobs : row'[j] = IF j \in S THEN SettledRow(row[j], "dropped") ELSE row[j]
  BY <1>0 DEF DropLiveJobs
<1>2. \A j \in Jobs : row[j] \in Row /\ row[j].status \in Status
  BY DEF TypeOK, Row
<1>3. \A j \in S : row'[j].status = "dropped" /\ row'[j].by = NoWorker
  BY <1>1, <1>2 DEF SettledRow, Row
<1>4. Life!Move(S, "settled", NoWorker)
  <2>1. \A j \in S : LifeState(row'[j].status) = "settled"
    BY <1>3, LifeStates DEF Settled
  <2> QED BY <1>1, <1>3, <2>1, RowsMove
<1>5. {j \in Jobs : [i \in Jobs |-> LifeState(row[i].status)][j] \in {"waiting", "held"}} = S
  <2>1. \A j \in Jobs : LifeState(row[j].status) \in {"waiting", "held"} <=> j \in S
    BY <1>0, <1>2 DEF LifeState, Status, Settled, Live
  <2>2. \A j \in Jobs : [i \in Jobs |-> LifeState(row[i].status)][j] = LifeState(row[j].status)
    OBVIOUS
  <2> QED BY <2>1, <2>2
<1>6. Life!DropAll
  BY <1>1, <1>4, <1>5 DEF Life!DropAll, Life!Move
<1> QED BY <1>6 DEF Life!Next

(* Storing and leasing. *)
LEMMA Adding == ASSUME TypeOK, NEW j \in Jobs, Enqueue(j) PROVE Life!Next
<1>1. run' = run /\ \A i \in Jobs \ {j} : row'[i] = row[i]
  BY DEF Enqueue, TypeOK
<1>2. row'[j].status \in {"new", "shadow"} /\ row'[j].by = NoWorker
  BY DEF Enqueue, TypeOK, NoRow
<1>3. PICK s \in {"waiting", "settled"} : LifeState(row'[j].status) = s
  BY <1>2, LifeStates DEF Settled
<1>4. Life!Move({j}, s, NoWorker)
  BY <1>1, <1>2, <1>3, RowsMove
<1>5. LifeState(row[j].status) = "absent"
  BY LifeStates DEF Enqueue
<1>6. Life!Add(j)
  BY <1>1, <1>4, <1>5 DEF Life!Add
<1> QED BY <1>6 DEF Life!Next

LEMMA Taking ==
  ASSUME TypeOK, LeaseAgrees, NEW w \in Workers, NEW S \in SUBSET Jobs, Lease(w, S) \/ LeaseLost(w, S)
  PROVE  Life!Next
<1>1. /\ \A j \in Jobs : row'[j] = IF j \in S THEN LeasedRow(row[j], w) ELSE row[j]
      /\ \A j \in S : Due(j)
  BY DEF Lease, LeaseLost, Take, Batch, Takeable
<1>2. \A j \in Jobs : row[j] \in Row
  BY DEF TypeOK
<1>3. \A j \in S : row'[j].status = "running" /\ row'[j].by = w
  BY <1>1, <1>2 DEF LeasedRow, Row
<1>4. Life!Move(S, "held", w)
  <2>1. \A j \in S : LifeState(row'[j].status) = "held"
    BY <1>3, LifeStates
  <2> QED BY <1>1, <1>3, <2>1, RowsMove
<1>5. \A j \in S : LifeState(row[j].status) \in {"waiting", "held"}
  BY <1>1, LifeStates DEF Due, Lapsed
<1>6. \A j \in S : \A v \in Workers : ~(run[v][j].left > 0)
  BY <1>1, DueIsFree
<1>7. CASE Lease(w, S)
  <2>1. run \in [Workers -> [Jobs -> Run]] /\ Hold \in Nat \ {0}
    BY ConstantsOK DEF TypeOK
  <2>2. run' = [run EXCEPT ![w] = [j \in Jobs |->
                  IF j \in S THEN [phase |-> "held", left |-> Hold] ELSE run[w][j]]]
    BY <1>7 DEF Lease
  <2>3. \A j \in Jobs : run'[w][j] = IF j \in S THEN [phase |-> "held", left |-> Hold] ELSE run[w][j]
    BY <2>1, <2>2
  <2>4. \A v \in Workers \ {w} : run'[v] = run[v]
    BY <2>1, <2>2
  <2>5. {j \in Jobs : run'[w][j].phase # "no"} = {j \in Jobs : run[w][j].phase # "no"} \cup S
    BY <2>3
  <2>6. {j \in Jobs : run'[w][j].left > 0} = {j \in Jobs : run[w][j].left > 0} \cup S
    BY <2>1, <2>3
  <2>7. LET busy == [v \in Workers |-> {j \in Jobs : run[v][j].phase # "no"}]
            live == [v \in Workers |-> {j \in Jobs : run[v][j].left > 0}]
        IN  /\ busy' = [busy EXCEPT ![w] = @ \cup S]
            /\ live' = [live EXCEPT ![w] = @ \cup S]
    BY <2>4, <2>5, <2>6
  <2>8. Life!Take(w, S)
    BY <1>4, <1>5, <1>6, <2>7 DEF Life!Take, Life!Free
  <2> QED BY <2>8 DEF Life!Next
<1>8. CASE LeaseLost(w, S)
  <2>1. run' = run
    BY <1>8 DEF LeaseLost
  <2>2. Life!Take(w, S)
    BY <1>4, <1>5, <1>6, <2>1 DEF Life!Take, Life!Free
  <2> QED BY <2>2 DEF Life!Next
<1> QED BY <1>7, <1>8

(* A worker's calls about its jobs.                                           *)

LEMMA PuttingAside ==
  ASSUME TypeOK, NEW w \in Workers, NEW j \in Jobs, run[w][j].phase # "no",
         run' = [run EXCEPT ![w][j] = NoRun]
  PROVE  Life!PutAside(w, j)
<1>1. run \in [Workers -> [Jobs -> Run]]
  BY DEF TypeOK
<1>2. /\ run'[w][j] = NoRun /\ \A v \in Workers \ {w} : run'[v] = run[v]
      /\ \A i \in Jobs \ {j} : run'[w][i] = run[w][i]
  BY <1>1
<1>3. {i \in Jobs : run'[w][i].phase # "no"} = {i \in Jobs : run[w][i].phase # "no"} \ {j}
  BY <1>2 DEF NoRun
<1>4. {i \in Jobs : run'[w][i].left > 0} = {i \in Jobs : run[w][i].left > 0} \ {j}
  BY <1>2 DEF NoRun
<1>5. LET busy == [v \in Workers |-> {i \in Jobs : run[v][i].phase # "no"}]
          live == [v \in Workers |-> {i \in Jobs : run[v][i].left > 0}]
      IN  /\ busy' = [busy EXCEPT ![w] = @ \ {j}]
          /\ live' = [live EXCEPT ![w] = @ \ {j}]
  <2> DEFINE J == {j}
  <2>1. /\ {i \in Jobs : run'[w][i].phase # "no"} = {i \in Jobs : run[w][i].phase # "no"} \ J
        /\ {i \in Jobs : run'[w][i].left > 0} = {i \in Jobs : run[w][i].left > 0} \ J
    BY <1>3, <1>4
  <2> HIDE DEF J
  <2>2. LET busy == [v \in Workers |-> {i \in Jobs : run[v][i].phase # "no"}]
            live == [v \in Workers |-> {i \in Jobs : run[v][i].left > 0}]
        IN  /\ busy' = [busy EXCEPT ![w] = @ \ J]
            /\ live' = [live EXCEPT ![w] = @ \ J]
    <3>1. \A v \in Workers \ {w} : run'[v] = run[v]
      BY <1>2
    <3>2. LET busy == [v \in Workers |-> {i \in Jobs : run[v][i].phase # "no"}]
          IN  busy' = [busy EXCEPT ![w] = @ \ J]
      BY <2>1, <3>1
    <3>3. LET live == [v \in Workers |-> {i \in Jobs : run[v][i].left > 0}]
          IN  live' = [live EXCEPT ![w] = @ \ J]
      BY <2>1, <3>1
    <3> QED BY <3>2, <3>3
  <2> QED BY <2>2 DEF J
<1> QED BY <1>5 DEF Life!PutAside

(* Report: it counts for a holder's own row, and not otherwise.              *)
LEMMA Reporting ==
  ASSUME TypeOK, NEW w \in Workers, NEW j \in Jobs, run[w][j].phase # "no", NEW r,
         Report(w, j, r), r.by = NoWorker, LifeState(r.status) \in {"waiting", "settled"}
  PROVE  Life!Next
<1>1. Life!PutAside(w, j)
  BY PuttingAside DEF Report
<1>2. CASE Mine(w, j)
  <2>1. row'[j] = r /\ \A i \in Jobs \ {j} : row'[i] = row[i]
    BY <1>2 DEF Report, TypeOK
  <2>2. PICK s \in {"waiting", "settled"} : LifeState(row'[j].status) = s
    BY <2>1
  <2>3. Life!Move({j}, s, NoWorker)
    BY <2>1, <2>2, RowsMove
  <2>4. LifeState(row[j].status) = "held" /\ row[j].by = w
    BY <1>2, LifeStates DEF Mine
  <2>5. Life!Report(w, j)
    BY <1>1, <2>3, <2>4 DEF Life!Report
  <2> QED BY <2>5 DEF Life!Next
<1>3. CASE ~Mine(w, j)
  <2>1. row' = row
    BY <1>3 DEF Report
  <2>2. Life!Report(w, j)
    BY <1>1, <2>1 DEF Life!Report
  <2> QED BY <2>2 DEF Life!Next
<1> QED BY <1>2, <1>3

LEMMA ReportedRows ==
  ASSUME NEW r \in Row
  PROVE  /\ \A s \in {"done", "dropped", "failed"} : /\ SettledRow(r, s).by = NoWorker
                                                    /\ SettledRow(r, s).status = s
         /\ \A max : /\ FailedRow(r, max).by = NoWorker
                     /\ FailedRow(r, max).status \in {"new", "failed"}
         /\ \A due : BackRow(r, due).by = NoWorker /\ BackRow(r, due).status = "new"
<1>1. \A s : SettledRow(r, s).by = NoWorker /\ SettledRow(r, s).status = s
  BY DEF Row, SettledRow
<1>2. ASSUME NEW max PROVE FailedRow(r, max).by = NoWorker /\ FailedRow(r, max).status \in {"new", "failed"}
  <2>1. CASE r.attempts >= max
    BY <1>1, <2>1 DEF FailedRow
  <2>2. CASE ~(r.attempts >= max)
    BY <2>2 DEF FailedRow, Row
  <2> QED BY <2>1, <2>2
<1>3. ASSUME NEW due PROVE BackRow(r, due).by = NoWorker /\ BackRow(r, due).status = "new"
  BY DEF Row, BackRow
<1> QED BY <1>1, <1>2, <1>3

LEMMA Settling ==
  ASSUME TypeOK, NEW w \in Workers, NEW j \in Jobs,
         \/ \E s \in {"done", "dropped", "failed"} : Finish(w, j, s)
         \/ Fail(w, j) \/ Defer(w, j) \/ Release(w, j)
  PROVE  Life!Next
<1>1. run[w][j].phase # "no"
  BY DEF Finish, Fail, Defer, Release
<1>2. row[j] \in Row
  BY DEF TypeOK
<1>3. PICK r : /\ Report(w, j, r) /\ r.by = NoWorker
               /\ r.status \in {"new", "done", "dropped", "failed"}
  <2>1. CASE \E s \in {"done", "dropped", "failed"} : Finish(w, j, s)
    <3>1. PICK s \in {"done", "dropped", "failed"} : Report(w, j, SettledRow(row[j], s))
      BY <2>1 DEF Finish
    <3> QED BY <1>2, <3>1, ReportedRows
  <2>2. CASE Fail(w, j)
    <3>1. Report(w, j, FailedRow(row[j], MaxAttempts[j]))
      BY <2>2 DEF Fail
    <3> QED BY <1>2, <3>1, ReportedRows
  <2>3. CASE Defer(w, j) \/ Release(w, j)
    <3>1. PICK due \in {0, Retry} : Report(w, j, BackRow(row[j], due))
      BY <2>3 DEF Defer, Release
    <3> QED BY <1>2, <3>1, ReportedRows
  <2> QED BY <2>1, <2>2, <2>3
<1>4. LifeState(r.status) \in {"waiting", "settled"}
  BY <1>3, LifeStates DEF Settled
<1> QED BY <1>1, <1>3, <1>4, Reporting

LEMMA Extending ==
  ASSUME TypeOK, NEW w \in Workers, NEW j \in Jobs, Extend(w, j) PROVE Life!Next
<1>1. run \in [Workers -> [Jobs -> Run]] /\ Hold \in Nat \ {0} /\ row \in [Jobs -> Row]
  BY ConstantsOK DEF TypeOK
<1>2. CASE Mine(w, j)
  <2>1. run' = [run EXCEPT ![w][j] = [run[w][j] EXCEPT !.left = Hold]]
    BY <1>2 DEF Extend
  <2>2. /\ run'[w][j].phase = run[w][j].phase /\ run'[w][j].left = Hold
        /\ \A v \in Workers \ {w} : run'[v] = run[v]
        /\ \A i \in Jobs \ {j} : run'[w][i] = run[w][i]
    BY <1>1, <2>1 DEF Run
  <2>3. SameRows
    BY <1>1, <1>2 DEF Extend, SameRows, Row
  <2>4. {i \in Jobs : run'[w][i].phase # "no"} = {i \in Jobs : run[w][i].phase # "no"}
    BY <2>2
  <2>5. {i \in Jobs : run'[w][i].left > 0} = {i \in Jobs : run[w][i].left > 0} \cup {j}
    BY <1>1, <2>2
  <2>6. LET busy == [v \in Workers |-> {i \in Jobs : run[v][i].phase # "no"}]
            live == [v \in Workers |-> {i \in Jobs : run[v][i].left > 0}]
        IN  busy' = busy /\ live' = [live EXCEPT ![w] = @ \cup {j}]
    <3> DEFINE J == {j}
    <3>1. {i \in Jobs : run'[w][i].left > 0} = {i \in Jobs : run[w][i].left > 0} \cup J
      BY <2>5
    <3> HIDE DEF J
    <3>2. LET busy == [v \in Workers |-> {i \in Jobs : run[v][i].phase # "no"}]
              live == [v \in Workers |-> {i \in Jobs : run[v][i].left > 0}]
          IN  busy' = busy /\ live' = [live EXCEPT ![w] = @ \cup J]
      <4>1. LET busy == [v \in Workers |-> {i \in Jobs : run[v][i].phase # "no"}] IN busy' = busy
        BY <2>2, <2>4
      <4>2. LET live == [v \in Workers |-> {i \in Jobs : run[v][i].left > 0}]
            IN  live' = [live EXCEPT ![w] = @ \cup J]
        BY <2>2, <3>1
      <4> QED BY <4>1, <4>2
    <3> QED BY <3>2 DEF J
  <2>7. LifeState(row[j].status) = "held" /\ row[j].by = w /\ run[w][j].phase # "no"
    BY <1>2, LifeStates DEF Mine, Extend
  <2>8. Life!Renew(w, j)
    BY <2>3, <2>6, <2>7, RowsStay DEF Life!Renew
  <2> QED BY <2>8 DEF Life!Next
<1>3. CASE ~Mine(w, j)
  <2>1. row' = row /\ run' = [run EXCEPT ![w][j] = NoRun] /\ run[w][j].phase # "no"
    BY <1>3 DEF Extend
  <2>2. Life!Report(w, j)
    BY <2>1, PuttingAside DEF Life!Report
  <2> QED BY <2>2 DEF Life!Next
<1> QED BY <1>2, <1>3

LEMMA PuttingBack == ASSUME TypeOK, NEW w \in Workers, NEW j \in Jobs, Abandon(w, j) PROVE Life!Next
<1>1. Life!Report(w, j)
  BY PuttingAside DEF Abandon, Life!Report
<1> QED BY <1>1 DEF Life!Next

LEMMA Stopping == ASSUME TypeOK, NEW w \in Workers, Crash(w) PROVE Life!Next
<1>1. /\ \A v \in Workers \ {w} : run'[v] = run[v] /\ row' = row
      /\ \A j \in Jobs : run'[w][j] = NoRun
  BY DEF Crash, TypeOK
<1>2. row' = row
  BY DEF Crash
<1>3. {j \in Jobs : run'[w][j].phase # "no"} = {} /\ {j \in Jobs : run'[w][j].left > 0} = {}
  BY <1>1 DEF NoRun
<1>4. LET busy == [v \in Workers |-> {i \in Jobs : run[v][i].phase # "no"}]
          live == [v \in Workers |-> {i \in Jobs : run[v][i].left > 0}]
      IN  busy' = [busy EXCEPT ![w] = {}] /\ live' = [live EXCEPT ![w] = {}]
  BY <1>1, <1>3
<1>5. Life!Stop(w)
  BY <1>2, <1>4 DEF Life!Stop
<1> QED BY <1>5 DEF Life!Next

LEMMA Lapsing == ASSUME TypeOK, Tick PROVE Life!Next
<1>1. /\ run \in [Workers -> [Jobs -> Run]] /\ row \in [Jobs -> Row]
      /\ \A w \in Workers, j \in Jobs : run[w][j] \in Run
  BY DEF TypeOK
<1>2. ASSUME NEW w \in Workers, NEW j \in Jobs
      PROVE  run'[w][j].phase = run[w][j].phase /\ (run'[w][j].left > 0 => run[w][j].left > 0)
  <2>1. run'[w][j] = [run[w][j] EXCEPT !.left = Less(run[w][j].left)]
    BY DEF Tick
  <2>2. run'[w][j].phase = run[w][j].phase /\ run'[w][j].left = Less(run[w][j].left)
    BY <1>1, <2>1 DEF Run
  <2>3. run[w][j].left \in Nat
    BY <1>1, ConstantsOK DEF Run
  <2> QED BY <2>2, <2>3 DEF Less
<1>3. SameRows
  <2> SUFFICES ASSUME NEW j \in Jobs PROVE row'[j].status = row[j].status /\ row'[j].by = row[j].by
    BY DEF SameRows
  <2>1. row'[j] = [row[j] EXCEPT
               !.left = Less(@), !.dueIn = Less(@),
               !.age = IF row[j].status \in Settled /\ @ < AgeCap THEN @ + 1 ELSE @]
    BY DEF Tick
  <2> QED BY <1>1, <2>1 DEF Row
<1>4. \A w \in Workers :
        /\ {i \in Jobs : run'[w][i].phase # "no"} = {i \in Jobs : run[w][i].phase # "no"}
        /\ {i \in Jobs : run'[w][i].left > 0} \subseteq {i \in Jobs : run[w][i].left > 0}
  BY <1>2
<1>5. LET busy == [v \in Workers |-> {i \in Jobs : run[v][i].phase # "no"}]
          live == [v \in Workers |-> {i \in Jobs : run[v][i].left > 0}]
      IN  /\ busy' = busy
          /\ live' \in [Workers -> SUBSET Jobs] /\ \A w \in Workers : live'[w] \subseteq live[w]
  BY <1>4
<1>6. Life!Lapse
  BY <1>3, <1>5, RowsStay DEF Life!Lapse
<1> QED BY <1>6 DEF Life!Next

(* Starting a job and telling of one are nothing to JobLife. *)
LEMMA Stuttering ==
  ASSUME TypeOK, \/ UNCHANGED vars \/ \E w \in Workers : TakeInterrupted(w)
                 \/ \E w \in Workers, j \in Jobs : Start(w, j)
  PROVE  UNCHANGED Life!vars
<1>1. /\ run \in [Workers -> [Jobs -> Run]] /\ row \in [Jobs -> Row]
      /\ \A w \in Workers, j \in Jobs : run[w][j] \in Run
  BY DEF TypeOK
<1>2. CASE UNCHANGED vars
  BY <1>2 DEF vars, Life!vars
<1>3. ASSUME NEW w \in Workers, TakeInterrupted(w) PROVE UNCHANGED Life!vars
  <2>1. \A j \in Jobs : row'[j] = row[j] \/ row'[j] = [row[j] EXCEPT !.told = TRUE]
    BY <1>3 DEF TakeInterrupted
  <2>2. SameRows /\ run' = run
    BY <1>1, <1>3, <2>1 DEF TakeInterrupted, SameRows, Row
  <2> QED BY <2>2, RowsStay DEF Life!vars
<1>4. ASSUME NEW w \in Workers, NEW j \in Jobs, Start(w, j) PROVE UNCHANGED Life!vars
  <2>1. row' = row /\ run' = [run EXCEPT ![w][j] = [run[w][j] EXCEPT !.phase = "started"]]
        /\ run[w][j].phase = "held"
    BY <1>4 DEF Start
  <2>2. /\ run'[w][j].phase = "started" /\ run'[w][j].left = run[w][j].left
        /\ \A v \in Workers \ {w} : run'[v] = run[v]
        /\ \A i \in Jobs \ {j} : run'[w][i] = run[w][i]
    BY <1>1, <2>1 DEF Run
  <2>3. \A v \in Workers :
          /\ {i \in Jobs : run'[v][i].phase # "no"} = {i \in Jobs : run[v][i].phase # "no"}
          /\ {i \in Jobs : run'[v][i].left > 0} = {i \in Jobs : run[v][i].left > 0}
    BY <2>1, <2>2
  <2> QED BY <2>1, <2>3 DEF Life!vars
<1> QED BY <1>2, <1>3, <1>4

LEMMA LifeInit == Init => Life!Init
<1> SUFFICES ASSUME Init PROVE Life!Init
  OBVIOUS
<1>1. \A j \in Jobs : row[j] = NoRow /\ \A w \in Workers : run[w][j] = NoRun
  BY DEF Init
<1>2. \A w \in Workers : /\ {j \in Jobs : run[w][j].phase # "no"} = {}
                         /\ {j \in Jobs : run[w][j].left > 0} = {}
  BY <1>1 DEF NoRun
<1> QED BY <1>1, <1>2, LifeStates DEF Life!Init, NoRow

(* The queue implements JobLife: a job is given to a worker, or given up on,  *)
(* only when no lease on it is in force, and a report counts only while the   *)
(* job is the reporter's own (Lease, markInterrupted, Extend, finish, Fail).  *)
THEOREM QueueImplementsJobLife == Spec => ImplementsJobLife
<1>1. TypeOK /\ LeaseAgrees /\ [Next]_vars => [Life!Next]_(Life!vars)
  BY GivingUp, Forgetting, Dropping, Adding, Taking, Settling, Extending, PuttingBack, Stopping,
     Lapsing, Stuttering DEF Next
<1>2. Spec => [](TypeOK /\ LeaseAgrees)
  <2>1. IInv => TypeOK /\ LeaseAgrees
    BY DEF IInv
  <2> QED BY <2>1, InvariantHolds, PTL
<1> QED BY <1>1, <1>2, LifeInit, PTL DEF Spec, ImplementsJobLife, Life!Spec
=============================================================================

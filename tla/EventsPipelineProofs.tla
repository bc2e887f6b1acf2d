------------------------- MODULE EventsPipelineProofs -------------------------
(***************************************************************************)
(* Proofs about EventsPipeline and its InboxQueue, for any deliveries,      *)
(* handlers, workers, occurrences and alerts, and any of the limits: what   *)
(* was acknowledged is kept, what is done was routed, nothing is enqueued   *)
(* twice, what is forged has no effect; and the inbox keeps the lease rules *)
(* of JobLife.                                                              *)
(***************************************************************************)
EXTENDS EventsPipeline, FiniteSetTheorems, TLAPS

-----------------------------------------------------------------------------
(* The inbox: what each statement writes is a row. *)

(* What the pipeline does to the inbox. *)
InboxStep ==
  \/ InboxNext
  \/ UNCHANGED <<row, pc, hold>> /\ faults' \in 0..MaxFaults

LEMMA PipelineStepsInbox == InboxTypeOK /\ [Next]_vars => InboxStep
<1> SUFFICES ASSUME InboxTypeOK, [Next]_vars PROVE InboxStep
  OBVIOUS
<1>0. faults \in 0..MaxFaults /\ MaxFaults \in Nat
  BY InboxConstants DEF InboxTypeOK
<1>1. CASE UNCHANGED inboxVars
  BY <1>0, <1>1 DEF InboxStep, inboxVars
<1>2. ASSUME NEW d \in Deliveries, Insert(d) PROVE InboxStep
  BY <1>2 DEF InboxStep, InboxNext
<1>3. CASE Restart
  BY <1>0, <1>3 DEF InboxStep, Restart
<1>4. ASSUME NEW w \in Workers, Leasing(w) \/ Die(w) PROVE InboxStep
  BY <1>4 DEF InboxStep, InboxNext, Leasing, Die
<1>5. ASSUME NEW w \in Workers, NEW d \in Deliveries,
             RouteDone(w, d) \/ RouteDrop(w, d) \/ RouteFail(w, d)
      PROVE  InboxStep
  BY <1>5 DEF InboxStep, InboxNext, RouteDone, RouteDrop, RouteFail
<1>6. CASE Purge \/ TimePasses
  BY <1>6 DEF InboxStep, InboxNext, Purge, TimePasses
<1>7. ASSUME NEW h \in Handlers, NEW d \in Deliveries,
             Receive(h, d) \/ Check(h, d) \/ Decode(h, d) \/ Store(h, d) \/ Respond(h, d)
      PROVE  InboxStep
  BY <1>1, <1>2, <1>7 DEF Receive, Check, Decode, Store, Respond
<1>8. ASSUME NEW w \in Workers, NEW d \in Deliveries, NEW a \in Alerts, Route(w, d, a)
      PROVE  InboxStep
  BY <1>1, <1>8 DEF Route
<1>9. CASE UNCHANGED vars
  BY <1>1, <1>9 DEF vars
<1> QED BY <1>3, <1>4, <1>5, <1>6, <1>7, <1>8, <1>9 DEF Next

LEMMA InboxRows ==
  ASSUME NEW r \in Row
  PROVE  /\ NoRow \in Row /\ [NoRow EXCEPT !.status = "new"] \in Row
         /\ \A s \in Settled \cup {"new"} : SettledRow(r, s) \in Row
         /\ [SettledRow(r, "new") EXCEPT !.dueIn = Retry] \in Row
         /\ \A w \in Workers : r.attempts < MaxAttempts + Overrun => LeasedRow(r, w) \in Row
         /\ [r EXCEPT !.left = Less(@), !.dueIn = Less(@), !.age = More(@)] \in Row
<1> DEFINE Names == Workers \cup {NoWorker}
           Tries == 0..(MaxAttempts + Overrun)
           Lefts == 0..Hold
           Dues  == 0..Retry
           Ages  == 0..(Keep + 1)
<1>1. /\ NoWorker \in Names /\ \A w \in Workers : w \in Names
      /\ 0 \in Tries /\ 0 \in Lefts /\ Hold \in Lefts /\ 0 \in Dues /\ Retry \in Dues /\ 0 \in Ages
  BY InboxConstants
<1>2. Row = [status : Status, attempts : Tries, by : Names, left : Lefts, dueIn : Dues, age : Ages]
  BY DEF Row
<1>3. {"none", "new", "routing"} \subseteq Status /\ Settled \subseteq Status
  BY DEF Status, Settled
<1>4. /\ r.left \in Lefts /\ r.dueIn \in Dues /\ r.age \in Ages /\ r.attempts \in Tries
  BY <1>2
<1>5. /\ \A n \in Lefts : Less(n) \in Lefts
      /\ \A n \in Dues : Less(n) \in Dues
      /\ \A n \in Ages : More(n) \in Ages
      /\ r.attempts < MaxAttempts + Overrun => r.attempts + 1 \in Tries
  BY <1>4, InboxConstants DEF Less, More
<1> HIDE DEF Names, Tries, Lefts, Dues, Ages
<1>6. NoRow \in Row /\ [NoRow EXCEPT !.status = "new"] \in Row
  BY <1>1, <1>2, <1>3 DEF NoRow
<1>7. ASSUME NEW s \in Settled \cup {"new"} PROVE SettledRow(r, s) \in Row
  <2>1. s \in Status
    BY <1>3
  <2> QED BY <1>1, <1>2, <2>1 DEF SettledRow
<1>8. [SettledRow(r, "new") EXCEPT !.dueIn = Retry] \in Row
  <2>1. \A q \in Row : [q EXCEPT !.dueIn = Retry] \in Row
    BY <1>1, <1>2
  <2> QED BY <1>7, <2>1
<1>9. ASSUME NEW w \in Workers, r.attempts < MaxAttempts + Overrun PROVE LeasedRow(r, w) \in Row
  <2>1. ASSUME NEW n \in Tries
        PROVE  [r EXCEPT !.status = "routing", !.attempts = n, !.by = w, !.left = Hold] \in Row
    BY <1>1, <1>2, <1>3
  <2>2. r.attempts + 1 \in Tries
    BY <1>5, <1>9
  <2> QED BY <2>1, <2>2 DEF LeasedRow
<1>10. [r EXCEPT !.left = Less(@), !.dueIn = Less(@), !.age = More(@)] \in Row
  <2>1. ASSUME NEW l \in Lefts, NEW u \in Dues, NEW a \in Ages
        PROVE  [r EXCEPT !.left = l, !.dueIn = u, !.age = a] \in Row
    BY <1>2
  <2> QED BY <1>4, <1>5, <2>1
<1> QED BY <1>6, <1>7, <1>8, <1>9, <1>10

(* All that can happen to one row in one step. *)
RowStep(d) ==
  \/ row'[d] = row[d]
  \/ row[d].status = "none" /\ row'[d] = [NoRow EXCEPT !.status = "new"]
  \/ Spent(d) /\ row'[d] = SettledRow(row[d], "failed")
  \/ Takeable(d) /\ \E w \in Workers : row'[d] = LeasedRow(row[d], w)
  \/ \E w \in Workers :
       /\ Mine(w, d) /\ hold[w][d] # NotRouting
       /\ \/ row'[d] = SettledRow(row[d], "done")
          \/ row'[d] = SettledRow(row[d], "dropped")
          \/ row[d].attempts >= MaxAttempts /\ row'[d] = SettledRow(row[d], "failed")
          \/ row'[d] = [SettledRow(row[d], "new") EXCEPT !.dueIn = Retry]
  \/ d \in Old /\ row'[d] = NoRow
  \/ row[d].status = "none" /\ row'[d] = NoRow
  \/ /\ row[d].status # "none"
     /\ row'[d] = [row[d] EXCEPT !.left = Less(@), !.dueIn = Less(@), !.age = More(@)]

LEMMA RowSteps == ASSUME InboxTypeOK, InboxStep, NEW d \in Deliveries PROVE RowStep(d)
<1>0. row \in [Deliveries -> Row] /\ row[d] \in Row
  BY DEF InboxTypeOK
<1>1. CASE UNCHANGED row
  BY <1>1 DEF RowStep
<1>2. ASSUME NEW e \in Deliveries, Insert(e) PROVE RowStep(d)
  BY <1>0, <1>2 DEF Insert, RowStep
<1>3. ASSUME NEW w \in Workers, GiveUp(w) PROVE RowStep(d)
  BY <1>3 DEF GiveUp, RowStep
<1>4. ASSUME NEW w \in Workers, NEW e \in Deliveries, Take(w, e) PROVE RowStep(d)
  BY <1>0, <1>4 DEF Take, RowStep
<1>5. ASSUME NEW w \in Workers, NEW e \in Deliveries, NEW r, Report(w, e, r)
      PROVE  \/ row'[d] = row[d]
             \/ d = e /\ Mine(w, d) /\ hold[w][d] # NotRouting /\ row'[d] = r
  BY <1>0, <1>5 DEF Report
<1>6. ASSUME NEW w \in Workers, NEW e \in Deliveries, Done(w, e) \/ Drop(w, e) PROVE RowStep(d)
  BY <1>5, <1>6 DEF Done, Drop, RowStep
<1>7. ASSUME NEW w \in Workers, NEW e \in Deliveries, Fail(w, e) PROVE RowStep(d)
  BY <1>5, <1>7 DEF Fail, RowStep
<1>8. CASE PurgeInbox
  BY <1>8 DEF PurgeInbox, RowStep
<1>9. CASE Tick
  BY <1>9 DEF Tick, RowStep
<1> QED BY <1>1, <1>2, <1>3, <1>4, <1>6, <1>7, <1>8, <1>9
        DEF InboxStep, InboxNext, Lease, LeaseLost, LeaseNothing, Crash

(* All that can happen to what one worker routes. *)
HoldStep(w, d) ==
  \/ hold'[w][d] = hold[w][d]
  \/ Takeable(d) /\ hold'[w][d] = Hold /\ row'[d] = LeasedRow(row[d], w)
  \/ hold'[w][d] = NotRouting
  \/ Tick /\ hold'[w][d] = Less(hold[w][d])

LEMMA HoldSteps ==
  ASSUME InboxTypeOK, InboxStep, NEW w \in Workers, NEW d \in Deliveries PROVE HoldStep(w, d)
<1>0. hold \in [Workers -> [Deliveries -> NotRouting..Hold]] /\ row \in [Deliveries -> Row]
  BY DEF InboxTypeOK
<1>1. CASE UNCHANGED hold
  BY <1>1 DEF HoldStep
<1>2. ASSUME NEW v \in Workers, NEW e \in Deliveries, Lease(v, e) PROVE HoldStep(w, d)
  BY <1>0, <1>2 DEF Lease, Take, HoldStep
<1>3. ASSUME NEW v \in Workers, NEW e \in Deliveries, NEW r, Report(v, e, r) PROVE HoldStep(w, d)
  BY <1>0, <1>3 DEF Report, HoldStep
<1>4. ASSUME NEW v \in Workers, NEW e \in Deliveries, Done(v, e) \/ Drop(v, e) \/ Fail(v, e)
      PROVE  HoldStep(w, d)
  BY <1>3, <1>4 DEF Done, Drop, Fail
<1>5. ASSUME NEW v \in Workers, Crash(v) PROVE HoldStep(w, d)
  BY <1>0, <1>5 DEF Crash, HoldStep
<1>6. CASE Tick
  BY <1>6 DEF Tick, HoldStep
<1> QED BY <1>1, <1>2, <1>4, <1>5, <1>6
        DEF InboxStep, InboxNext, Insert, GiveUp, LeaseLost, LeaseNothing, PurgeInbox

LEMMA InboxTypesInit == InboxInit => InboxTypeOK
<1> SUFFICES ASSUME InboxInit PROVE InboxTypeOK
  OBVIOUS
<1>1. NoRow \in Row /\ NotRouting \in NotRouting..Hold /\ 0 \in 0..MaxFaults
  BY InboxConstants DEF NoRow, Row, Status, NotRouting
<1> QED BY <1>1 DEF InboxInit, InboxTypeOK

LEMMA InboxTypesStep == InboxTypeOK /\ InboxStep => InboxTypeOK'
<1> SUFFICES ASSUME InboxTypeOK, InboxStep PROVE InboxTypeOK'
  OBVIOUS
<1>0. /\ row \in [Deliveries -> Row] /\ pc \in [Workers -> {"idle", "lease"}]
      /\ hold \in [Workers -> [Deliveries -> NotRouting..Hold]] /\ faults \in 0..MaxFaults
  BY DEF InboxTypeOK
<1>1. row' \in [Deliveries -> Row]
  <2>1. ASSUME NEW d \in Deliveries PROVE row'[d] \in Row
    <3>1. row[d] \in Row /\ RowStep(d)
      BY <1>0, RowSteps
    <3>2. Takeable(d) => row[d].attempts < MaxAttempts + Overrun
      BY DEF Takeable
    <3> QED BY <3>1, <3>2, InboxRows DEF RowStep, Settled
  <2>2. row' = [d \in Deliveries |-> row'[d]]
    <3>1. CASE UNCHANGED row
      BY <1>0, <3>1
    <3>2. ASSUME NEW e \in Deliveries, Insert(e) PROVE row' = [d \in Deliveries |-> row'[d]]
      BY <1>0, <3>2 DEF Insert
    <3>3. ASSUME NEW w \in Workers, NEW e \in Deliveries, Take(w, e)
          PROVE  row' = [d \in Deliveries |-> row'[d]]
      BY <1>0, <3>3 DEF Take
    <3>4. ASSUME NEW w \in Workers, NEW e \in Deliveries, NEW r, Report(w, e, r)
          PROVE  row' = [d \in Deliveries |-> row'[d]]
      BY <1>0, <3>4 DEF Report
    <3>5. ASSUME NEW w \in Workers, NEW e \in Deliveries, Done(w, e) \/ Drop(w, e) \/ Fail(w, e)
          PROVE  row' = [d \in Deliveries |-> row'[d]]
      BY <3>4, <3>5 DEF Done, Drop, Fail
    <3>6. ASSUME (\E w \in Workers : GiveUp(w)) \/ PurgeInbox \/ Tick
          PROVE  row' = [d \in Deliveries |-> row'[d]]
      BY <3>6 DEF GiveUp, PurgeInbox, Tick
    <3> QED BY <3>1, <3>2, <3>3, <3>5, <3>6
            DEF InboxStep, InboxNext, Lease, LeaseLost, LeaseNothing, Crash
  <2> QED BY <2>1, <2>2
<1>2. hold' \in [Workers -> [Deliveries -> NotRouting..Hold]]
  <2>0. NotRouting \in NotRouting..Hold /\ Hold \in NotRouting..Hold
    BY InboxConstants DEF NotRouting
  <2>1. CASE UNCHANGED hold
    BY <1>0, <2>1
  <2>2. ASSUME NEW w \in Workers, NEW e \in Deliveries, Lease(w, e)
        PROVE  hold' \in [Workers -> [Deliveries -> NotRouting..Hold]]
    BY <1>0, <2>0, <2>2 DEF Lease
  <2>3. ASSUME NEW w \in Workers, NEW e \in Deliveries, NEW r, Report(w, e, r)
        PROVE  hold' \in [Workers -> [Deliveries -> NotRouting..Hold]]
    BY <1>0, <2>0, <2>3 DEF Report
  <2>4. ASSUME NEW w \in Workers, NEW e \in Deliveries, Done(w, e) \/ Drop(w, e) \/ Fail(w, e)
        PROVE  hold' \in [Workers -> [Deliveries -> NotRouting..Hold]]
    BY <2>3, <2>4 DEF Done, Drop, Fail
  <2>5. ASSUME NEW w \in Workers, Crash(w)
        PROVE  hold' \in [Workers -> [Deliveries -> NotRouting..Hold]]
    BY <1>0, <2>0, <2>5 DEF Crash
  <2>6. CASE Tick
    <3>1. \A n \in NotRouting..Hold : Less(n) \in NotRouting..Hold
      BY InboxConstants DEF Less, NotRouting
    <3> QED BY <1>0, <2>6, <3>1 DEF Tick
  <2> QED BY <2>1, <2>2, <2>4, <2>5, <2>6
          DEF InboxStep, InboxNext, Insert, GiveUp, LeaseLost, LeaseNothing, PurgeInbox
<1>3. pc' \in [Workers -> {"idle", "lease"}] /\ faults' \in 0..MaxFaults
  <2>1. CASE UNCHANGED pc /\ faults' \in 0..MaxFaults
    BY <1>0, <2>1
  <2>2. ASSUME NEW w \in Workers, NEW s \in {"idle", "lease"}, pc' = [pc EXCEPT ![w] = s],
               faults' = faults \/ (faults < MaxFaults /\ faults' = faults + 1)
        PROVE  pc' \in [Workers -> {"idle", "lease"}] /\ faults' \in 0..MaxFaults
    BY <1>0, <2>2, InboxConstants
  <2>3. ASSUME NEW w \in Workers, NEW e \in Deliveries, Done(w, e) \/ Drop(w, e) \/ Fail(w, e)
        PROVE  UNCHANGED pc /\ faults' \in 0..MaxFaults
    BY <1>0, <2>3 DEF Done, Drop, Fail, Report
  <2>4. ASSUME NEW w \in Workers, NEW e \in Deliveries, Lease(w, e) \/ LeaseLost(w, e)
        PROVE  pc' \in [Workers -> {"idle", "lease"}] /\ faults' \in 0..MaxFaults
    BY <2>2, <2>4 DEF Lease, LeaseLost, Take
  <2>5. ASSUME NEW w \in Workers, GiveUp(w) \/ LeaseNothing(w) \/ Crash(w)
        PROVE  pc' \in [Workers -> {"idle", "lease"}] /\ faults' \in 0..MaxFaults
    BY <2>2, <2>5 DEF GiveUp, LeaseNothing, Crash
  <2>6. ASSUME (\E d \in Deliveries : Insert(d)) \/ PurgeInbox \/ Tick
        PROVE  UNCHANGED pc /\ faults' \in 0..MaxFaults
    BY <1>0, <2>6 DEF Insert, PurgeInbox, Tick
  <2> QED BY <2>1, <2>3, <2>4, <2>5, <2>6 DEF InboxStep, InboxNext
<1> QED BY <1>1, <1>2, <1>3 DEF InboxTypeOK

-----------------------------------------------------------------------------
(* Leases.  A worker's lease in force is the row's own, and ends no later    *)
(* than the row says.                                                        *)

Agrees(w, d) == hold[w][d] > 0 => Mine(w, d) /\ hold[w][d] <= row[d].left

LeaseAgrees == \A w \in Workers, d \in Deliveries : Agrees(w, d)

LEMMA TickBoth ==
  ASSUME Tick, NEW d \in Deliveries, row[d].status = "routing"
  PROVE  row'[d] = [row[d] EXCEPT !.left = Less(@), !.dueIn = Less(@), !.age = More(@)]
BY DEF Tick

LEMMA LeaseAgreesStep == InboxTypeOK /\ LeaseAgrees /\ InboxStep => LeaseAgrees'
<1> SUFFICES ASSUME InboxTypeOK, LeaseAgrees, InboxStep, NEW w \in Workers, NEW d \in Deliveries
             PROVE  Agrees(w, d)'
  BY DEF LeaseAgrees
<1>0. /\ row[d] \in Row /\ hold[w][d] \in NotRouting..Hold /\ Hold \in Nat \ {0}
      /\ Agrees(w, d)
  BY InboxConstants DEF InboxTypeOK, LeaseAgrees
<1>r. row[d].left \in 0..Hold
  BY <1>0 DEF Row
<1>1. HoldStep(w, d) /\ RowStep(d)
  BY HoldSteps, RowSteps
<1>2. CASE Tick
  <2>1. hold'[w][d] = Less(hold[w][d])
    BY <1>2 DEF Tick
  <2>2. ASSUME hold'[w][d] > 0 PROVE Mine(w, d)' /\ hold'[w][d] <= row'[d].left
    <3>1. hold[w][d] > 0 /\ hold'[w][d] = hold[w][d] - 1
      BY <1>0, <2>1, <2>2 DEF Less, NotRouting
    <3>2. Mine(w, d) /\ hold[w][d] <= row[d].left
      BY <1>0, <3>1 DEF Agrees
    <3>3. row'[d] = [row[d] EXCEPT !.left = Less(@), !.dueIn = Less(@), !.age = More(@)]
      BY <1>2, <3>2, TickBoth DEF Mine
    <3>4. row'[d].left = Less(row[d].left) /\ row'[d].status = row[d].status /\ row'[d].by = row[d].by
      BY <1>0, <3>3 DEF Row
    <3> QED BY <1>0, <1>r, <3>1, <3>2, <3>4 DEF Mine, Less, NotRouting
  <2> QED BY <2>2 DEF Agrees
<1>3. CASE Takeable(d) /\ hold'[w][d] = Hold /\ row'[d] = LeasedRow(row[d], w)
  BY <1>0, <1>3 DEF Agrees, Mine, LeasedRow, Row
<1>4. CASE hold'[w][d] = NotRouting
  BY <1>4 DEF Agrees, NotRouting
<1>5. CASE hold'[w][d] = hold[w][d] /\ ~Tick
  <2> SUFFICES ASSUME hold[w][d] > 0 PROVE Mine(w, d)' /\ hold[w][d] <= row'[d].left
    BY <1>5 DEF Agrees
  <2>1. Mine(w, d) /\ hold[w][d] <= row[d].left /\ row[d].left > 0
    BY <1>0, <1>r DEF Agrees
  <2>2. ~Spent(d) /\ ~Takeable(d) /\ d \notin Old /\ row[d].status # "none"
    BY <2>1, <1>r DEF Spent, Takeable, Due, Lapsed, Mine, Old, Settled
  <2>3. row'[d] = row[d]
    <3>1. ASSUME NEW v \in Workers, NEW e \in Deliveries, NEW r, Report(v, e, r) PROVE row'[d] = row[d]
      <4>1. CASE e = d /\ v = w
        BY <1>0, <1>5, <3>1, <4>1 DEF Report, NotRouting, InboxTypeOK
      <4>2. CASE e = d /\ v # w
        BY <2>1, <3>1, <4>2 DEF Report, Mine
      <4>3. CASE e # d
        BY <3>1, <4>3 DEF Report, InboxTypeOK
      <4> QED BY <4>1, <4>2, <4>3
    <3>2. ASSUME NEW v \in Workers, NEW e \in Deliveries, Done(v, e) \/ Drop(v, e) \/ Fail(v, e)
          PROVE  row'[d] = row[d]
      BY <3>1, <3>2 DEF Done, Drop, Fail
    <3>3. ASSUME NEW v \in Workers, NEW e \in Deliveries, Take(v, e) PROVE row'[d] = row[d]
      BY <2>2, <3>3 DEF Take, InboxTypeOK
    <3>4. ASSUME NEW v \in Workers, GiveUp(v) PROVE row'[d] = row[d]
      BY <2>2, <3>4 DEF GiveUp
    <3>5. ASSUME NEW e \in Deliveries, Insert(e) PROVE row'[d] = row[d]
      BY <2>2, <3>5 DEF Insert, InboxTypeOK
    <3>6. ASSUME PurgeInbox PROVE row'[d] = row[d]
      BY <2>2, <3>6 DEF PurgeInbox
    <3> QED BY <1>5, <3>2, <3>3, <3>4, <3>5, <3>6
            DEF InboxStep, InboxNext, Lease, LeaseLost, LeaseNothing, Crash
  <2> QED BY <2>1, <2>3 DEF Mine
<1> QED BY <1>1, <1>2, <1>3, <1>4, <1>5 DEF HoldStep

(* Nobody's lease is in force on a row that can be leased or given up on.    *)
LEMMA DueIsFree ==
  ASSUME InboxTypeOK, LeaseAgrees, NEW d \in Deliveries, Due(d) \/ Spent(d), NEW w \in Workers
  PROVE  ~(hold[w][d] > 0)
<1>1. row[d] \in Row /\ hold[w][d] \in NotRouting..Hold /\ Agrees(w, d)
  BY DEF InboxTypeOK, LeaseAgrees
<1>2. row[d].left \in 0..Hold
  BY <1>1 DEF Row
<1> QED BY <1>1, <1>2, InboxConstants DEF Agrees, Mine, Due, Spent, Lapsed, NotRouting

(* What is not in the table is nobody's.                                     *)
AbsentIsBlank == \A d \in Deliveries : row[d].status = "none" => row[d] = NoRow

LEMMA AbsentIsBlankStep == InboxTypeOK /\ AbsentIsBlank /\ InboxStep => AbsentIsBlank'
<1> SUFFICES ASSUME InboxTypeOK, AbsentIsBlank, InboxStep, NEW d \in Deliveries, row'[d].status = "none"
             PROVE  row'[d] = NoRow
  BY DEF AbsentIsBlank
<1>1. RowStep(d) /\ row[d] \in Row /\ (row[d].status = "none" => row[d] = NoRow)
  BY RowSteps DEF InboxTypeOK, AbsentIsBlank
<1>2. \A s \in Settled \cup {"new"} : SettledRow(row[d], s).status # "none"
  BY <1>1 DEF SettledRow, Row, Settled
<1>3. /\ [NoRow EXCEPT !.status = "new"].status # "none"
      /\ [SettledRow(row[d], "new") EXCEPT !.dueIn = Retry].status # "none"
      /\ \A w \in Workers : LeasedRow(row[d], w).status # "none"
  BY <1>1 DEF NoRow, SettledRow, LeasedRow, Row
<1>4. [row[d] EXCEPT !.left = Less(@), !.dueIn = Less(@), !.age = More(@)].status = row[d].status
  BY <1>1 DEF Row
<1> QED BY <1>1, <1>2, <1>3, <1>4 DEF RowStep, Settled

(* A row is given up on by the first statement of Lease or by Fail, after     *)
(* its last allowed attempt.                                                 *)
LEMMA GivenUpLateStep == InboxTypeOK /\ GivenUpLate /\ InboxStep => GivenUpLate'
<1> SUFFICES ASSUME InboxTypeOK, GivenUpLate, InboxStep, NEW d \in Deliveries, row'[d].status = "failed"
             PROVE  row'[d].attempts >= MaxAttempts
  BY DEF GivenUpLate
<1>1. RowStep(d) /\ row[d] \in Row
  BY RowSteps DEF InboxTypeOK
<1>2. row[d].status = "failed" => row[d].attempts >= MaxAttempts
  BY DEF GivenUpLate
<1>3. CASE row'[d] = row[d]
  BY <1>2, <1>3
<1>4. CASE row'[d] = SettledRow(row[d], "failed") /\ row[d].attempts >= MaxAttempts
  BY <1>1, <1>4 DEF SettledRow, Row
<1>5. CASE row'[d] = [row[d] EXCEPT !.left = Less(@), !.dueIn = Less(@), !.age = More(@)]
  BY <1>1, <1>2, <1>5 DEF Row
<1>6. row'[d] # [NoRow EXCEPT !.status = "new"] /\ row'[d] # NoRow
  BY DEF NoRow
<1>7. ASSUME NEW w \in Workers PROVE row'[d] # LeasedRow(row[d], w)
  <2>1. LeasedRow(row[d], w).status = "routing"
    BY <1>1 DEF LeasedRow, Row
  <2> QED BY <2>1
<1>8. ASSUME NEW s \in {"done", "dropped"} PROVE row'[d] # SettledRow(row[d], s)
  <2>1. SettledRow(row[d], s).status = s
    BY <1>1 DEF SettledRow, Row
  <2> QED BY <2>1
<1>9. row'[d] # [SettledRow(row[d], "new") EXCEPT !.dueIn = Retry]
  <2>1. [SettledRow(row[d], "new") EXCEPT !.dueIn = Retry].status = "new"
    BY <1>1 DEF SettledRow, Row
  <2> QED BY <2>1
<1> QED BY <1>1, <1>3, <1>4, <1>5, <1>6, <1>7, <1>8, <1>9 DEF RowStep, Spent

-----------------------------------------------------------------------------
(* The inductive invariant. *)

(* A handler that checked a delivery found it signed, and one that decoded   *)
(* it found an event; an event answered with 200 is in the inbox, or was     *)
(* dealt with and forgotten.                                                 *)
Kept(d) == row[d].status # "none" \/ d \in purged

HandlersKnow ==
  \A h \in Handlers, d \in Deliveries : req[h].of = {d} =>
    /\ req[h].step # "idle" /\ KindOf[d] # "forged" => sends[d] > 0
    /\ req[h].step = "checked" => KindOf[d] # "forged"
    /\ req[h].step = "decoded" => KindOf[d] = "event"
    /\ req[h].step = "200" /\ KindOf[d] = "event" => Kept(d)

AckedEventsKept == \A d \in acked : KindOf[d] = "event" => Kept(d)

(* What is in the inbox, or a worker routes, is an event that was sent.      *)
SentEvent(d) == KindOf[d] = "event" /\ sends[d] > 0

OnlySentEvents ==
  \A d \in Deliveries :
    (row[d].status # "none" \/ \E w \in Workers : hold[w][d] # NotRouting) => SentEvent(d)

JobsOfEvents == \A j \in jobs : \E d \in Deliveries : SentEvent(d) /\ KeyOf[d] = j[2]

(* What a worker counts as enqueued is among the jobs, and each job was      *)
(* stored once.                                                              *)
RoutedAreJobs ==
  \A w \in Workers, d \in Deliveries : \A a \in routed[w][d] : <<a, KeyOf[d]>> \in jobs

MadeOnce == \A a \in Alerts, k \in Keys : made[a][k] = IF <<a, k>> \in jobs THEN 1 ELSE 0

(* Each handler that let a client's delivery in adds at most one failure to  *)
(* its count.                                                                *)
Pending(c) == {h \in Handlers : req[h].step = "received" /\ \E d \in req[h].of : ClientOf[d] = c}

(* The types, but for the limiter's, whose bound is FailuresBounded.         *)
FrontTypes ==
  /\ req \in [Handlers -> [step : {"idle", "received", "checked", "decoded"} \cup Codes,
                           of : SUBSET Deliveries]]
  /\ sends \in [Deliveries -> 0..MaxSends]
  /\ acked \subseteq Deliveries /\ purged \subseteq Deliveries

RouterTypes ==
  /\ alertsOf \in [Keys -> AlertSets]
  /\ routed \in [Workers -> [Deliveries -> SUBSET Alerts]]
  /\ jobs \subseteq Alerts \X Keys
  /\ made \in [Alerts -> [Keys -> Nat]]

LimiterTypes == failed \in [Clients -> [count : Nat, since : 0..(Window + 1)]]

FailuresBounded ==
  \A c \in Clients : failed[c].count + Cardinality(Pending(c)) < MaxFailures + Cardinality(Handlers)

InboxInv  == InboxTypeOK /\ LeaseAgrees /\ AbsentIsBlank /\ GivenUpLate
FrontInv  == FrontTypes /\ HandlersKnow /\ AckedEventsKept
RouterInv == RouterTypes /\ OnlySentEvents /\ JobsOfEvents /\ RoutedAreJobs /\ MadeOnce /\ DoneIsRouted
Limiter   == LimiterTypes /\ FailuresBounded

IInv == InboxInv /\ FrontInv /\ RouterInv /\ Limiter

-----------------------------------------------------------------------------
(* The front. *)

FrontStep(h, d) == Receive(h, d) \/ Check(h, d) \/ Decode(h, d) \/ Store(h, d) \/ Respond(h, d)

LEMMA FrontMoves ==
  [Next]_vars =>
    \/ \E h \in Handlers, d \in Deliveries : FrontStep(h, d)
    \/ Restart
    \/ UNCHANGED <<req, sends, acked>>
BY DEF Next, vars, frontVars, Beside, FrontStep, Leasing, Die, Route, RouteDone, RouteDrop,
       RouteFail, Through, Purge, TimePasses

(* Where rows appear and disappear. *)
LEMMA Presence ==
  ASSUME InboxTypeOK, [Next]_vars, NEW d \in Deliveries
  PROVE  /\ Kept(d) => Kept(d)'
         /\ row[d].status = "none" /\ row'[d].status # "none" =>
              \E h \in Handlers : req[h] = [step |-> "decoded", of |-> {d}]
<1> DEFINE P == row[d].status # "none"
           Same == purged' = purged /\ (P' <=> P)
<1>0. row[d] \in Row /\ row \in [Deliveries -> Row]
  BY DEF InboxTypeOK
<1>1. ASSUME Same PROVE (Kept(d) => Kept(d)') /\ ~(~P /\ P')
  BY <1>1 DEF Kept
<1>3. ASSUME NEW h \in Handlers, NEW e \in Deliveries, Store(h, e)
      PROVE  /\ Kept(d) => Kept(d)'
             /\ ~P /\ P' => \E g \in Handlers : req[g] = [step |-> "decoded", of |-> {d}]
  BY <1>0, <1>3 DEF Store, Insert, inboxVars, Kept, NoRow
<1>4. ASSUME NEW w \in Workers, GiveUp(w) PROVE P' <=> P
  <2>1. Spent(d) => P /\ SettledRow(row[d], "failed").status = "failed"
    BY <1>0 DEF Spent, Lapsed, SettledRow, Row
  <2> QED BY <1>4, <2>1 DEF GiveUp
<1>5. ASSUME NEW w \in Workers, NEW e \in Deliveries, Take(w, e) PROVE P' <=> P
  <2>1. LeasedRow(row[d], w).status = "routing"
    BY <1>0 DEF LeasedRow, Row
  <2>2. e = d => P
    BY <1>5 DEF Take, Takeable, Due, Lapsed
  <2> QED BY <1>0, <1>5, <2>1, <2>2 DEF Take
<1>6. ASSUME NEW w \in Workers, NEW e \in Deliveries, Done(w, e) \/ Drop(w, e) \/ Fail(w, e)
      PROVE  P' <=> P
  <2>1. ASSUME NEW r, r.status # "none", Report(w, e, r) PROVE P' <=> P
    BY <1>0, <2>1 DEF Report, Mine
  <2>2. row[e] \in Row
    BY DEF InboxTypeOK
  <2>3. ASSUME NEW s \in Settled PROVE SettledRow(row[e], s).status # "none"
    BY <2>2 DEF SettledRow, Row, Settled
  <2>4. [SettledRow(row[e], "new") EXCEPT !.dueIn = Retry].status # "none"
    BY <2>2 DEF SettledRow, Row
  <2> QED BY <1>6, <2>1, <2>3, <2>4 DEF Done, Drop, Fail, Settled
<1>7. CASE Purge
  BY <1>7 DEF Purge, PurgeInbox, Kept, NoRow
<1>8. ASSUME Tick PROVE P' <=> P
  BY <1>0, <1>8 DEF Tick, NoRow, Row
<1>9. CASE TimePasses
  BY <1>1, <1>8, <1>9 DEF TimePasses
<1>10. ASSUME NEW w \in Workers, Leasing(w) PROVE Same
  <2>1. purged' = purged
    BY <1>10 DEF Leasing, Beside, frontVars
  <2>2. CASE UNCHANGED row
    BY <2>1, <2>2
  <2> QED BY <1>4, <1>5, <1>10, <2>1, <2>2 DEF Leasing, Lease, LeaseLost, LeaseNothing
<1>11. ASSUME NEW w \in Workers, NEW e \in Deliveries,
              RouteDone(w, e) \/ RouteDrop(w, e) \/ RouteFail(w, e)
       PROVE  Same
  BY <1>6, <1>11 DEF RouteDone, RouteDrop, RouteFail, Through, frontVars
<1>12. ASSUME \/ \E h \in Handlers, e \in Deliveries :
                   Receive(h, e) \/ Check(h, e) \/ Decode(h, e) \/ Respond(h, e)
              \/ Restart \/ \E w \in Workers : Die(w)
              \/ \E w \in Workers, e \in Deliveries, a \in Alerts : Route(w, e, a)
              \/ UNCHANGED vars
       PROVE  UNCHANGED row /\ purged' = purged
  BY <1>12 DEF Receive, Check, Decode, Respond, Restart, Die, Crash, Route, vars, inboxVars, frontVars
<1> HIDE DEF Same
<1>13. ASSUME UNCHANGED row /\ purged' = purged PROVE Same
  BY <1>13 DEF Same
<1> QED BY <1>1, <1>3, <1>7, <1>9, <1>10, <1>11, <1>12, <1>13 DEF Next

LEMMA FrontTypesStep == FrontTypes /\ [Next]_vars => FrontTypes'
<1> DEFINE Steps == {"idle", "received", "checked", "decoded"} \cup Codes
           Reqs  == [step : Steps, of : SUBSET Deliveries]
<1> SUFFICES ASSUME FrontTypes, [Next]_vars PROVE FrontTypes'
  OBVIOUS
<1>0. /\ req \in [Handlers -> Reqs] /\ sends \in [Deliveries -> 0..MaxSends]
      /\ acked \subseteq Deliveries /\ purged \subseteq Deliveries
  BY DEF FrontTypes
<1>1. {"idle", "received", "checked", "decoded", "200", "400", "401", "429", "503"} \subseteq Steps
  BY DEF Codes
<1>2. purged' \subseteq Deliveries
  <2>1. CASE Purge
    BY <1>0, <2>1 DEF Purge, Old
  <2>2. ~Purge => purged' = purged
    BY DEF Next, vars, frontVars, Beside, Receive, Check, Decode, Store, Respond, Restart,
           Leasing, Die, Route, RouteDone, RouteDrop, RouteFail, Through, TimePasses
  <2> QED BY <1>0, <2>1, <2>2
<1> HIDE DEF Steps
<1>3. NoReq \in Reqs
  BY <1>1 DEF NoReq
<1>4. ASSUME NEW h \in Handlers, NEW d \in Deliveries, FrontStep(h, d)
      PROVE  req' \in [Handlers -> Reqs] /\ sends' \in [Deliveries -> 0..MaxSends] /\ acked' \subseteq Deliveries
  <2>1. ASSUME NEW s \in Steps, Answer(h, s) PROVE req' \in [Handlers -> Reqs]
    <3>1. [req[h] EXCEPT !.step = s] \in Reqs
      BY <1>0
    <3> QED BY <1>0, <2>1, <3>1 DEF Answer
  <2>2. CASE Receive(h, d)
    <3>1. req' \in [Handlers -> Reqs]
      BY <1>0, <1>1, <2>2 DEF Receive
    <3>2. sends' \in [Deliveries -> 0..MaxSends]
      <4>1. sends[d] \in 0..MaxSends /\ (KindOf[d] # "forged" => sends[d] + 1 \in 0..MaxSends)
        BY <1>0, <2>2, PipelineConstants DEF Receive
      <4> QED BY <1>0, <2>2, <4>1 DEF Receive
    <3> QED BY <1>0, <2>2, <3>1, <3>2 DEF Receive
  <2>3. CASE Check(h, d)
    BY <1>0, <1>1, <2>1, <2>3 DEF Check
  <2>4. CASE Decode(h, d)
    BY <1>0, <1>1, <2>1, <2>4 DEF Decode
  <2>5. CASE Store(h, d)
    BY <1>0, <1>1, <2>1, <2>5 DEF Store
  <2>6. CASE Respond(h, d)
    BY <1>0, <1>3, <2>6 DEF Respond
  <2> QED BY <1>4, <2>2, <2>3, <2>4, <2>5, <2>6 DEF FrontStep
<1>5. CASE Restart
  BY <1>0, <1>2, <1>3, <1>5 DEF Restart, FrontTypes, Steps
<1>6. CASE UNCHANGED <<req, sends, acked>>
  BY <1>0, <1>2, <1>6 DEF FrontTypes, Steps
<1> QED BY <1>2, <1>4, <1>5, <1>6, FrontMoves DEF FrontTypes, Steps

LEMMA SendsGrow ==
  ASSUME FrontTypes, [Next]_vars, NEW d \in Deliveries
  PROVE  sends[d] > 0 => sends'[d] > 0
<1>0. sends \in [Deliveries -> 0..MaxSends] /\ MaxSends \in Nat
  BY PipelineConstants DEF FrontTypes
<1>1. ASSUME NEW h \in Handlers, NEW e \in Deliveries, Receive(h, e)
      PROVE  sends'[d] = sends[d] \/ sends'[d] = sends[d] + 1
  BY <1>0, <1>1 DEF Receive
<1>2. CASE UNCHANGED sends
  BY <1>2
<1>3. ASSUME NEW h \in Handlers, NEW e \in Deliveries, FrontStep(h, e), ~Receive(h, e)
      PROVE  UNCHANGED sends
  BY <1>3 DEF FrontStep, Check, Decode, Store, Respond
<1>4. Restart => UNCHANGED sends
  BY DEF Restart
<1> QED BY <1>0, <1>1, <1>2, <1>3, <1>4, FrontMoves

(* What a handler knows of the delivery it is at. *)
Knows(h, d) ==
  req[h].of = {d} =>
    /\ req[h].step # "idle" /\ KindOf[d] # "forged" => sends[d] > 0
    /\ req[h].step = "checked" => KindOf[d] # "forged"
    /\ req[h].step = "decoded" => KindOf[d] = "event"
    /\ req[h].step = "200" /\ KindOf[d] = "event" => Kept(d)

LEMMA HandlersKnowStep ==
  InboxTypeOK /\ FrontTypes /\ HandlersKnow /\ [Next]_vars => HandlersKnow'
<1> SUFFICES ASSUME InboxTypeOK, FrontTypes, HandlersKnow, [Next]_vars,
                    NEW g \in Handlers, NEW e \in Deliveries
             PROVE  Knows(g, e)'
  BY DEF HandlersKnow, Knows
<1>0. /\ \A h \in Handlers : DOMAIN req[h] = {"step", "of"} /\ req[h] = [step |-> req[h].step, of |-> req[h].of]
      /\ DOMAIN req = Handlers /\ Knows(g, e)
      /\ row \in [Deliveries -> Row] /\ sends \in [Deliveries -> 0..MaxSends]
  BY DEF FrontTypes, HandlersKnow, InboxTypeOK, Knows
<1>1. (Kept(e) => Kept(e)') /\ (sends[e] > 0 => sends'[e] > 0)
  BY Presence, SendsGrow
<1>2. ASSUME req'[g] = req[g] PROVE Knows(g, e)'
  BY <1>0, <1>1, <1>2 DEF Knows
<1>3. CASE UNCHANGED <<req, sends, acked>>
  BY <1>2, <1>3
<1>4. CASE Restart
  BY <1>4 DEF Restart, NoReq, Knows
<1>5. ASSUME NEW h \in Handlers, NEW d \in Deliveries, FrontStep(h, d) PROVE Knows(g, e)'
  <2>1. CASE h # g
    <3>1. req'[g] = req[g]
      BY <1>0, <1>5, <2>1 DEF FrontStep, Receive, Check, Decode, Store, Respond, Answer
    <3> QED BY <1>2, <3>1
  <2> SUFFICES ASSUME h = g, req'[g].of = {e}
               PROVE  /\ req'[g].step # "idle" /\ KindOf[e] # "forged" => sends'[e] > 0
                      /\ req'[g].step = "checked" => KindOf[e] # "forged"
                      /\ req'[g].step = "decoded" => KindOf[e] = "event"
                      /\ req'[g].step = "200" /\ KindOf[e] = "event" => Kept(e)'
    BY <2>1 DEF Knows
  <2>2. ASSUME NEW s, Answer(g, s) PROVE req'[g].step = s /\ req'[g].of = req[g].of
    BY <1>0, <2>2 DEF Answer
  <2>3. CASE Receive(g, d)
    <3>1. e = d /\ req'[g].step \in {"429", "received"}
      BY <1>0, <2>3 DEF Receive
    <3>2. KindOf[d] # "forged" => sends'[d] = sends[d] + 1 /\ sends[d] \in Nat
      BY <1>0, <2>3, PipelineConstants DEF Receive
    <3> QED BY <3>1, <3>2
  <2>4. CASE Check(g, d)
    <3>1. e = d /\ req[g].of = {e} /\ req[g].step = "received"
      BY <2>2, <2>4 DEF Check
    <3>2. req'[g].step \in {"400", "401", "503"} \/ (req'[g].step = "checked" /\ KindOf[d] # "forged")
      BY <2>2, <2>4 DEF Check
    <3> QED BY <1>0, <1>1, <3>1, <3>2 DEF Knows
  <2>5. CASE Decode(g, d)
    <3>1. e = d /\ req[g].of = {e} /\ req[g].step = "checked"
      BY <2>2, <2>5 DEF Decode
    <3>2. IF KindOf[d] \in {"ping", "unreadable"} THEN req'[g].step = "200" ELSE req'[g].step = "decoded"
      BY <2>2, <2>5 DEF Decode
    <3>3. KindOf[d] \in {"event", "ping", "unreadable", "forged"}
      BY PipelineConstants
    <3> QED BY <1>0, <1>1, <3>1, <3>2, <3>3 DEF Knows
  <2>6. CASE Store(g, d)
    <3>1. e = d /\ req[g].of = {e} /\ req[g].step = "decoded"
      BY <2>2, <2>6 DEF Store
    <3>2. req'[g].step = "503" \/ (req'[g].step = "200" /\ Insert(d))
      BY <2>2, <2>6 DEF Store
    <3>3. Insert(d) => row'[d].status # "none"
      BY <1>0 DEF Insert, NoRow
    <3> QED BY <1>0, <1>1, <3>1, <3>2, <3>3 DEF Knows, Kept
  <2>7. CASE Respond(g, d)
    BY <1>0, <2>7 DEF Respond, NoReq
  <2> QED BY <1>5, <2>3, <2>4, <2>5, <2>6, <2>7 DEF FrontStep
<1> QED BY <1>3, <1>4, <1>5, FrontMoves

(* What a sender saw acknowledged is kept: the answer was given after the    *)
(* row was stored, and only Purge takes a row away.                          *)
LEMMA AckedEventsKeptStep ==
  InboxTypeOK /\ FrontTypes /\ HandlersKnow /\ AckedEventsKept /\ [Next]_vars => AckedEventsKept'
<1> SUFFICES ASSUME InboxTypeOK, FrontTypes, HandlersKnow, AckedEventsKept, [Next]_vars,
                    NEW e \in acked', KindOf[e] = "event"
             PROVE  Kept(e)'
  BY DEF AckedEventsKept
<1>1. e \in Deliveries
  BY FrontTypesStep DEF FrontTypes
<1>2. Kept(e) => Kept(e)'
  BY <1>1, Presence
<1>3. CASE e \in acked
  BY <1>2, <1>3 DEF AckedEventsKept
<1>4. CASE e \notin acked
  <2>1. PICK h \in Handlers, d \in Deliveries : Respond(h, d)
    BY <1>4, FrontMoves DEF FrontStep, Receive, Check, Decode, Store, Restart
  <2>2. e = d /\ req[h].step = "200" /\ req[h].of = {e}
    BY <1>4, <2>1 DEF Respond
  <2> QED BY <1>2, <2>2, <1>1 DEF HandlersKnow
<1> QED BY <1>3, <1>4

-----------------------------------------------------------------------------
(* The router. *)

LEMMA RouterMoves ==
  [Next]_vars =>
    /\ UNCHANGED alertsOf
    /\ \/ \E w \in Workers, d \in Deliveries, a \in Alerts : Route(w, d, a)
       \/ /\ UNCHANGED <<jobs, made>>
          /\ \/ UNCHANGED routed
             \/ \E w \in Workers, d \in Deliveries : routed' = [routed EXCEPT ![w][d] = {}]
             \/ \E w \in Workers : routed' = [routed EXCEPT ![w] = [d \in Deliveries |-> {}]]
<1>1. ASSUME NEW h \in Handlers, NEW d \in Deliveries, FrontStep(h, d) PROVE UNCHANGED routeVars
  BY <1>1 DEF FrontStep, Receive, Check, Decode, Store, Respond
<1>2. ASSUME Restart \/ Purge \/ TimePasses \/ UNCHANGED vars \/ \E w \in Workers : Leasing(w)
      PROVE  UNCHANGED routeVars
  BY <1>2 DEF Restart, Purge, TimePasses, vars, Leasing, Beside
<1>3. ASSUME NEW w \in Workers, Die(w)
      PROVE  /\ UNCHANGED <<alertsOf, jobs, made>>
             /\ routed' = [routed EXCEPT ![w] = [d \in Deliveries |-> {}]]
  BY <1>3 DEF Die
<1>4. ASSUME NEW w \in Workers, NEW d \in Deliveries, RouteDone(w, d) \/ RouteDrop(w, d) \/ RouteFail(w, d)
      PROVE  UNCHANGED <<alertsOf, jobs, made>> /\ routed' = [routed EXCEPT ![w][d] = {}]
  BY <1>4 DEF RouteDone, RouteDrop, RouteFail, Through
<1>5. ASSUME NEW w \in Workers, NEW d \in Deliveries, NEW a \in Alerts, Route(w, d, a)
      PROVE  UNCHANGED alertsOf
  BY <1>5 DEF Route
<1> QED BY <1>1, <1>2, <1>3, <1>4, <1>5 DEF Next, FrontStep, routeVars

LEMMA RouterTypesStep == RouterTypes /\ [Next]_vars => RouterTypes'
<1> SUFFICES ASSUME RouterTypes, [Next]_vars PROVE RouterTypes'
  OBVIOUS
<1>0. /\ alertsOf \in [Keys -> AlertSets] /\ routed \in [Workers -> [Deliveries -> SUBSET Alerts]]
      /\ jobs \subseteq Alerts \X Keys /\ made \in [Alerts -> [Keys -> Nat]]
  BY DEF RouterTypes
<1>1. UNCHANGED alertsOf
  BY RouterMoves
<1>2. ASSUME NEW w \in Workers, NEW d \in Deliveries, NEW a \in Alerts, Route(w, d, a)
      PROVE  /\ routed' \in [Workers -> [Deliveries -> SUBSET Alerts]]
             /\ jobs' \subseteq Alerts \X Keys /\ made' \in [Alerts -> [Keys -> Nat]]
  <2>1. KeyOf[d] \in Keys
    BY DEF Keys
  <2>2. routed' \in [Workers -> [Deliveries -> SUBSET Alerts]]
    BY <1>0, <1>2 DEF Route
  <2>3. jobs' \subseteq Alerts \X Keys /\ made' \in [Alerts -> [Keys -> Nat]]
    <3>1. PICK k \in Keys : k = KeyOf[d]
      BY <2>1
    <3>2. CASE UNCHANGED <<jobs, made>>
      BY <1>0, <3>2
    <3>3. CASE jobs' = jobs \cup {<<a, k>>} /\ made' = [made EXCEPT ![a][k] = @ + 1]
      <4>1. [made[a] EXCEPT ![k] = @ + 1] \in [Keys -> Nat]
        BY <1>0
      <4> QED BY <1>0, <3>3, <4>1
    <3> QED BY <1>2, <3>1, <3>2, <3>3 DEF Route, Enqueue
  <2> QED BY <2>2, <2>3
<1>3. ASSUME \/ UNCHANGED routed
             \/ \E w \in Workers, d \in Deliveries : routed' = [routed EXCEPT ![w][d] = {}]
             \/ \E w \in Workers : routed' = [routed EXCEPT ![w] = [d \in Deliveries |-> {}]]
      PROVE  routed' \in [Workers -> [Deliveries -> SUBSET Alerts]]
  BY <1>0, <1>3
<1> QED BY <1>0, <1>1, <1>2, <1>3, RouterMoves DEF RouterTypes

(* Only what a worker takes from the inbox is routed, and only a handler     *)
(* that found an event puts a row there.                                     *)
LEMMA OnlySentEventsStep ==
  InboxTypeOK /\ FrontTypes /\ HandlersKnow /\ OnlySentEvents /\ [Next]_vars => OnlySentEvents'
<1> SUFFICES ASSUME InboxTypeOK, FrontTypes, HandlersKnow, OnlySentEvents, [Next]_vars,
                    NEW d \in Deliveries,
                    row'[d].status # "none" \/ \E w \in Workers : hold'[w][d] # NotRouting
             PROVE  SentEvent(d)'
  BY DEF OnlySentEvents
<1>1. SentEvent(d) => SentEvent(d)'
  BY SendsGrow DEF SentEvent
<1>2. ASSUME row[d].status # "none" PROVE SentEvent(d)
  BY <1>2 DEF OnlySentEvents
<1>3. CASE row'[d].status # "none"
  <2>1. ASSUME row[d].status = "none" PROVE SentEvent(d)
    <3>1. PICK h \in Handlers : req[h] = [step |-> "decoded", of |-> {d}]
      BY <1>3, <2>1, Presence
    <3> QED BY <3>1 DEF HandlersKnow, SentEvent
  <2> QED BY <1>1, <1>2, <2>1
<1>4. ASSUME NEW w \in Workers, hold'[w][d] # NotRouting PROVE SentEvent(d)
  <2>1. HoldStep(w, d)
    BY HoldSteps, PipelineStepsInbox
  <2>2. Takeable(d) => row[d].status # "none"
    BY DEF Takeable, Due, Lapsed
  <2>3. hold[w][d] = NotRouting => Less(hold[w][d]) = NotRouting
    BY DEF Less, NotRouting
  <2>4. hold[w][d] # NotRouting => SentEvent(d)
    BY DEF OnlySentEvents
  <2> QED BY <1>2, <1>4, <2>1, <2>2, <2>3, <2>4 DEF HoldStep
<1> QED BY <1>1, <1>3, <1>4

LEMMA JobsOfEventsStep ==
  FrontTypes /\ OnlySentEvents /\ JobsOfEvents /\ [Next]_vars => JobsOfEvents'
<1> SUFFICES ASSUME FrontTypes, OnlySentEvents, JobsOfEvents, [Next]_vars, NEW j \in jobs'
             PROVE  \E d \in Deliveries : SentEvent(d)' /\ KeyOf[d] = j[2]
  BY DEF JobsOfEvents
<1>1. ASSUME NEW d \in Deliveries, SentEvent(d) PROVE SentEvent(d)'
  BY <1>1, SendsGrow DEF SentEvent
<1>2. CASE j \in jobs
  BY <1>1, <1>2 DEF JobsOfEvents
<1>3. CASE j \notin jobs
  <2>1. PICK w \in Workers, d \in Deliveries, a \in Alerts : Route(w, d, a)
    BY <1>3, RouterMoves
  <2>2. j = <<a, KeyOf[d]>> /\ hold[w][d] # NotRouting
    BY <1>3, <2>1 DEF Route, Enqueue
  <2> QED BY <1>1, <2>2 DEF OnlySentEvents
<1> QED BY <1>2, <1>3

LEMMA JobsGrow == [Next]_vars => jobs \subseteq jobs'
BY RouterMoves DEF Route, Enqueue

LEMMA RoutedAreJobsStep == RouterTypes /\ RoutedAreJobs /\ [Next]_vars => RoutedAreJobs'
<1> SUFFICES ASSUME RouterTypes, RoutedAreJobs, [Next]_vars,
                    NEW v \in Workers, NEW e \in Deliveries, NEW b \in routed'[v][e]
             PROVE  <<b, KeyOf[e]>> \in jobs'
  BY DEF RoutedAreJobs
<1>0. routed \in [Workers -> [Deliveries -> SUBSET Alerts]]
  BY DEF RouterTypes
<1>1. b \in routed[v][e] => <<b, KeyOf[e]>> \in jobs'
  BY JobsGrow DEF RoutedAreJobs
<1>2. ASSUME NEW w \in Workers, NEW d \in Deliveries, NEW a \in Alerts, Route(w, d, a)
      PROVE  b \in routed[v][e] \/ (e = d /\ b = a /\ <<a, KeyOf[d]>> \in jobs')
  BY <1>0, <1>2 DEF Route, Enqueue
<1>3. ASSUME NEW w \in Workers, NEW d \in Deliveries, routed' = [routed EXCEPT ![w][d] = {}]
      PROVE  b \in routed[v][e]
  BY <1>0, <1>3
<1>4. ASSUME NEW w \in Workers, routed' = [routed EXCEPT ![w] = [d \in Deliveries |-> {}]]
      PROVE  b \in routed[v][e]
  BY <1>0, <1>4
<1> QED BY <1>1, <1>2, <1>3, <1>4, RouterMoves

LEMMA MadeOnceStep == RouterTypes /\ MadeOnce /\ [Next]_vars => MadeOnce'
<1> SUFFICES ASSUME RouterTypes, MadeOnce, [Next]_vars, NEW b \in Alerts, NEW m \in Keys
             PROVE  made'[b][m] = IF <<b, m>> \in jobs' THEN 1 ELSE 0
  BY DEF MadeOnce
<1>0. made \in [Alerts -> [Keys -> Nat]] /\ made[b][m] = IF <<b, m>> \in jobs THEN 1 ELSE 0
  BY DEF RouterTypes, MadeOnce
<1>1. ASSUME NEW w \in Workers, NEW d \in Deliveries, NEW a \in Alerts, Route(w, d, a)
      PROVE  made'[b][m] = IF <<b, m>> \in jobs' THEN 1 ELSE 0
  <2>1. PICK k \in Keys : k = KeyOf[d]
    BY DEF Keys
  <2>2. CASE <<a, k>> \in jobs
    BY <1>0, <1>1, <2>1, <2>2 DEF Route, Enqueue
  <2>3. CASE <<a, k>> \notin jobs
    <3>1. jobs' = jobs \cup {<<a, k>>} /\ made' = [made EXCEPT ![a][k] = @ + 1]
      BY <1>1, <2>1, <2>3 DEF Route, Enqueue
    <3>2. CASE b = a /\ m = k
      BY <1>0, <2>3, <3>1, <3>2
    <3>3. CASE ~(b = a /\ m = k)
      BY <1>0, <3>1, <3>3
    <3> QED BY <3>2, <3>3
  <2> QED BY <2>2, <2>3
<1>2. CASE UNCHANGED <<jobs, made>>
  BY <1>0, <1>2
<1> QED BY <1>1, <1>2, RouterMoves

(* A row becomes done by the report of a worker that enqueued every alert of *)
(* the occurrence itself.                                                    *)
LEMMA DoneIsRoutedStep ==
  InboxTypeOK /\ RouterTypes /\ RoutedAreJobs /\ DoneIsRouted /\ [Next]_vars => DoneIsRouted'
<1> SUFFICES ASSUME InboxTypeOK, RouterTypes, RoutedAreJobs, DoneIsRouted, [Next]_vars,
                    NEW d \in Deliveries, row'[d].status = "done",
                    NEW a \in alertsOf'[KeyOf[d]]
             PROVE  <<a, KeyOf[d]>> \in jobs'
  BY DEF DoneIsRouted
<1>0. row[d] \in Row /\ row \in [Deliveries -> Row]
  BY DEF InboxTypeOK
<1>1. a \in alertsOf[KeyOf[d]] /\ jobs \subseteq jobs'
  BY RouterMoves, JobsGrow
<1>2. CASE row[d].status = "done"
  BY <1>1, <1>2 DEF DoneIsRouted
<1>3. CASE row[d].status # "done"
  <2>1. ASSUME NEW w \in Workers, RouteDone(w, d) PROVE <<a, KeyOf[d]>> \in jobs
    BY <1>1, <2>1 DEF RouteDone, RoutedAreJobs
  <2>2. ASSUME NEW w \in Workers, NEW e \in Deliveries, NEW r, Report(w, e, r),
               e # d \/ r.status # "done"
        PROVE  FALSE
    BY <1>0, <1>3, <2>2 DEF Report
  <2>3. ASSUME NEW w \in Workers, NEW e \in Deliveries, RouteDone(w, e), e # d PROVE FALSE
    BY <2>2, <2>3 DEF RouteDone, Done
  <2>4. ASSUME NEW w \in Workers, NEW e \in Deliveries, RouteDrop(w, e) \/ RouteFail(w, e)
        PROVE  FALSE
    <3>1. row[e] \in Row
      BY DEF InboxTypeOK
    <3>2. ASSUME NEW s \in Status PROVE SettledRow(row[e], s).status = s
      BY <3>1 DEF SettledRow, Row
    <3>3. [SettledRow(row[e], "new") EXCEPT !.dueIn = Retry].status = "new"
      BY <3>1 DEF SettledRow, Row
    <3>4. {"dropped", "failed"} \subseteq Status
      BY DEF Status, Settled
    <3> QED BY <2>2, <2>4, <3>2, <3>3, <3>4 DEF RouteDrop, RouteFail, Drop, Fail
  <2>5. row'[d] # row[d]
    BY <1>3
  <2>6. ASSUME NEW w \in Workers, Leasing(w) PROVE FALSE
    <3>1. SettledRow(row[d], "failed").status = "failed" /\ LeasedRow(row[d], w).status = "routing"
      BY <1>0 DEF SettledRow, LeasedRow, Row
    <3>2. ~GiveUp(w)
      BY <2>5, <3>1 DEF GiveUp
    <3>3. ASSUME NEW e \in Deliveries, Take(w, e) PROVE FALSE
      BY <1>0, <2>5, <3>1, <3>3 DEF Take
    <3> QED BY <2>5, <2>6, <3>2, <3>3 DEF Leasing, Lease, LeaseLost, LeaseNothing
  <2>7. ~Tick /\ ~PurgeInbox
    <3>1. NoRow.status = "none"
      BY DEF NoRow
    <3>2. [row[d] EXCEPT !.left = Less(@), !.dueIn = Less(@), !.age = More(@)].status = row[d].status
      BY <1>0 DEF Row
    <3> QED BY <1>3, <2>5, <3>1, <3>2 DEF Tick, PurgeInbox
  <2>8. ASSUME NEW e \in Deliveries, Insert(e) PROVE FALSE
    BY <1>0, <2>5, <2>8 DEF Insert, NoRow
  <2>9. ASSUME NEW h \in Handlers, NEW e \in Deliveries, FrontStep(h, e) PROVE FALSE
    BY <2>5, <2>8, <2>9 DEF FrontStep, Receive, Check, Decode, Store, Respond, inboxVars
  <2>10. /\ ~Restart /\ ~UNCHANGED vars
         /\ \A w \in Workers : ~Die(w)
         /\ \A w \in Workers, e \in Deliveries, b \in Alerts : ~Route(w, e, b)
    BY <2>5 DEF Restart, vars, inboxVars, Die, Crash, Route
  <2> QED BY <1>1, <2>1, <2>3, <2>4, <2>6, <2>7, <2>9, <2>10
          DEF Next, FrontStep, Purge, TimePasses
<1> QED BY <1>2, <1>3

-----------------------------------------------------------------------------
(* The limiter. *)

LEMMA PendingIsFinite ==
  ASSUME NEW c
  PROVE  /\ IsFiniteSet(Pending(c)) /\ IsFiniteSet(Handlers)
         /\ Cardinality(Pending(c)) \in Nat /\ Cardinality(Handlers) \in Nat
         /\ Cardinality(Pending(c)) <= Cardinality(Handlers)
<1>1. Pending(c) \subseteq Handlers
  BY DEF Pending
<1>2. IsFiniteSet(Handlers)
  BY PipelineConstants
<1> QED BY <1>1, <1>2, FS_Subset, FS_CardinalityType

(* failed[c] and who may still add to it, after a step.                      *)
Quota(c) == failed[c].count + Cardinality(Pending(c)) < MaxFailures + Cardinality(Handlers)

LEMMA LimiterTypesStep == LimiterTypes /\ [Next]_vars => LimiterTypes'
<1> DEFINE Counts == Nat
           Sinces == 0..(Window + 1)
           Counter == [count : Counts, since : Sinces]
<1> SUFFICES ASSUME LimiterTypes, [Next]_vars PROVE failed' \in [Clients -> Counter]
  BY DEF LimiterTypes
<1>0. failed \in [Clients -> Counter]
  BY DEF LimiterTypes
<1>1. 0 \in Counts /\ 1 \in Counts /\ 0 \in Sinces /\ \A n \in Counts : n + 1 \in Counts
  BY PipelineConstants
<1>2. ASSUME NEW c \in Clients, ~Expired(c) PROVE failed[c].since + 1 \in Sinces
  BY <1>0, <1>2, PipelineConstants DEF Expired
<1> HIDE DEF Counts, Sinces
<1>3. NoFailures \in Counter /\ [count |-> 1, since |-> 0] \in Counter
  BY <1>1 DEF NoFailures
<1>4. ASSUME NEW r \in Counter, NEW n \in Counts, NEW s \in Sinces
      PROVE  [r EXCEPT !.count = n] \in Counter /\ [r EXCEPT !.since = s] \in Counter
  OBVIOUS
<1>5. CASE UNCHANGED failed
  BY <1>0, <1>5
<1>6. ASSUME NEW h \in Handlers, NEW d \in Deliveries, Receive(h, d) PROVE failed' \in [Clients -> Counter]
  BY <1>0, <1>3, <1>6 DEF Receive, Forget
<1>7. ASSUME NEW h \in Handlers, NEW d \in Deliveries, Check(h, d) PROVE failed' \in [Clients -> Counter]
  <2>1. PICK c \in Clients : c = ClientOf[d]
    BY DEF Clients
  <2>2. CASE UNCHANGED failed
    BY <1>0, <2>2
  <2>3. CASE failed' = CountFailure(c)
    <3>1. failed[c] \in Counter /\ failed[c].count + 1 \in Counts
      BY <1>0, <1>1
    <3>2. [failed[c] EXCEPT !.count = @ + 1] \in Counter
      BY <1>4, <3>1
    <3> QED BY <1>0, <1>3, <2>3, <3>2 DEF CountFailure
  <2> QED BY <1>7, <2>1, <2>2, <2>3 DEF Check
<1>8. CASE Restart
  BY <1>3, <1>8 DEF Restart
<1>9. CASE TimePasses
  <2>1. ASSUME NEW c \in Clients, NEW s \in {failed[c].since, failed[c].since + 1},
               s = failed[c].since \/ ~Expired(c)
        PROVE  [failed[c] EXCEPT !.since = s] \in Counter
    <3>1. failed[c] \in Counter /\ s \in Sinces
      BY <1>0, <1>2, <2>1
    <3> QED BY <1>4, <3>1
  <2>2. ASSUME NEW c \in Clients
        PROVE  [failed[c] EXCEPT !.since = IF failed[c].count > 0 /\ ~Expired(c) THEN @ + 1 ELSE @] \in Counter
    BY <2>1
  <2> QED BY <1>9, <2>2 DEF TimePasses
<1>10. [Next]_vars => \/ \E h \in Handlers, d \in Deliveries : Receive(h, d) \/ Check(h, d)
                      \/ Restart \/ TimePasses \/ UNCHANGED failed
  BY DEF Next, vars, frontVars, Beside, Decode, Store, Respond, Leasing, Die, Route, RouteDone,
         RouteDrop, RouteFail, Through, Purge
<1> QED BY <1>5, <1>6, <1>7, <1>8, <1>9, <1>10

LEMMA FailuresBoundedStep ==
  FrontTypes /\ LimiterTypes /\ FailuresBounded /\ [Next]_vars => FailuresBounded'
<1> SUFFICES ASSUME FrontTypes, LimiterTypes, FailuresBounded, [Next]_vars, NEW c \in Clients
             PROVE  Quota(c)'
  BY DEF FailuresBounded, Quota
<1> DEFINE N == Cardinality(Handlers)
<1>0. /\ \A h \in Handlers : req[h] = [step |-> req[h].step, of |-> req[h].of]
      /\ DOMAIN req = Handlers /\ DOMAIN failed = Clients
      /\ failed[c] \in [count : Nat, since : 0..(Window + 1)]
      /\ N \in Nat /\ MaxFailures \in Nat \ {0} /\ Cardinality(Pending(c)) \in Nat
      /\ Quota(c)
  BY PendingIsFinite, PipelineConstants DEF FrontTypes, LimiterTypes, FailuresBounded, Quota
<1>1. Cardinality(Pending(c))' \in Nat /\ Cardinality(Pending(c))' <= N
  <2>1. Pending(c)' \subseteq Handlers /\ IsFiniteSet(Handlers)
    BY PipelineConstants DEF Pending
  <2> QED BY <2>1, FS_Subset, FS_CardinalityType
<1>2. ASSUME failed'[c].count = failed[c].count, Pending(c)' \subseteq Pending(c) PROVE Quota(c)'
  <2>1. Cardinality(Pending(c))' <= Cardinality(Pending(c))
    BY <1>2, PendingIsFinite, FS_Subset
  <2> QED BY <1>0, <1>1, <1>2, <2>1 DEF Quota
<1>3. ASSUME failed'[c].count \in Nat, failed'[c].count < MaxFailures PROVE Quota(c)'
  BY <1>0, <1>1, <1>3 DEF Quota
<1>4. ASSUME NEW h \in Handlers, NEW d \in Deliveries, Receive(h, d) PROVE Quota(c)'
  <2>1. CASE ClientOf[d] = c /\ Expired(c)
    BY <1>0, <1>3, <1>4, <2>1 DEF Receive, Forget, NoFailures
  <2>2. CASE ClientOf[d] = c /\ ~Expired(c) /\ ~Blocked(c)
    BY <1>0, <1>3, <1>4, <2>2 DEF Receive, Forget, Blocked
  <2>3. CASE ClientOf[d] # c \/ (~Expired(c) /\ Blocked(c))
    <3>1. failed'[c].count = failed[c].count
      BY <1>0, <1>4, <2>3 DEF Receive, Forget
    <3>2. req' = [req EXCEPT ![h] = [step |-> IF Blocked(ClientOf[d]) THEN "429" ELSE "received", of |-> {d}]]
      BY <1>4 DEF Receive
    <3>3. Pending(c)' \subseteq Pending(c)
      BY <1>0, <2>3, <3>2 DEF Pending
    <3> QED BY <1>2, <3>1, <3>3
  <2> QED BY <2>1, <2>2, <2>3
<1>5. ASSUME NEW h \in Handlers, NEW s, Answer(h, s), s # "received" PROVE Pending(c)' \subseteq Pending(c)
  BY <1>0, <1>5 DEF Answer, Pending
<1>6. ASSUME NEW h \in Handlers, NEW d \in Deliveries, Check(h, d) PROVE Quota(c)'
  <2>1. CASE UNCHANGED failed
    <3>1. PICK s : Answer(h, s) /\ s # "received"
      BY <1>6 DEF Check
    <3> QED BY <1>2, <1>5, <2>1, <3>1
  <2>2. CASE failed' = CountFailure(ClientOf[d]) /\ Answer(h, "401") /\ ClientOf[d] # c
    <3>1. failed'[c] = failed[c]
      BY <1>0, <2>2 DEF CountFailure
    <3> QED BY <1>2, <1>5, <2>2, <3>1
  <2>3. CASE failed' = CountFailure(ClientOf[d]) /\ Answer(h, "401") /\ ClientOf[d] = c
    <3>1. h \in Pending(c) /\ Pending(c)' = Pending(c) \ {h}
      BY <1>0, <1>6, <2>3 DEF Check, Answer, Pending
    <3>2. Cardinality(Pending(c))' = Cardinality(Pending(c)) - 1
      BY <3>1, PendingIsFinite, FS_RemoveElement
    <3>3. failed'[c].count = 1 \/ failed'[c].count = failed[c].count + 1
      BY <1>0, <2>3 DEF CountFailure
    <3>4. Cardinality(Pending(c)) <= N
      BY PendingIsFinite
    <3> QED BY <1>0, <1>1, <3>2, <3>3, <3>4 DEF Quota
  <2> QED BY <1>6, <2>1, <2>2, <2>3 DEF Check
<1>7. ASSUME NEW h \in Handlers, NEW d \in Deliveries, Decode(h, d) \/ Store(h, d) PROVE Quota(c)'
  <2>1. PICK s : Answer(h, s) /\ s # "received"
    BY <1>7 DEF Decode, Store
  <2>2. UNCHANGED failed
    BY <1>7 DEF Decode, Store
  <2> QED BY <1>2, <1>5, <2>1, <2>2
<1>8. ASSUME NEW h \in Handlers, NEW d \in Deliveries, Respond(h, d) PROVE Quota(c)'
  <2>1. Pending(c)' \subseteq Pending(c) /\ UNCHANGED failed
    BY <1>0, <1>8 DEF Respond, NoReq, Pending
  <2> QED BY <1>2, <2>1
<1>9. CASE Restart
  BY <1>0, <1>3, <1>9 DEF Restart, NoFailures
<1>10. CASE TimePasses
  <2>1. failed'[c].count = failed[c].count /\ Pending(c)' = Pending(c)
    BY <1>0, <1>10 DEF TimePasses, Pending
  <2> QED BY <1>2, <2>1
<1>11. CASE UNCHANGED <<req, failed>>
  <2>1. Pending(c)' = Pending(c)
    BY <1>11 DEF Pending
  <2> QED BY <1>2, <1>11, <2>1
<1>12. [Next]_vars => \/ \E h \in Handlers, d \in Deliveries : FrontStep(h, d)
                      \/ Restart \/ TimePasses \/ UNCHANGED <<req, failed>>
  BY DEF Next, FrontStep, vars, frontVars, Beside, Leasing, Die, Route, RouteDone,
         RouteDrop, RouteFail, Through, Purge
<1> QED BY <1>4, <1>6, <1>7, <1>8, <1>9, <1>10, <1>11, <1>12 DEF FrontStep

-----------------------------------------------------------------------------
(* The pipeline as a whole. *)

LEMMA InvInit == Init => IInv
<1> SUFFICES ASSUME Init PROVE IInv
  OBVIOUS
<1>1. InboxInv
  <2>1. InboxTypeOK
    BY InboxTypesInit DEF Init
  <2> QED BY <2>1 DEF InboxInv, Init, InboxInit, LeaseAgrees, Agrees, AbsentIsBlank, GivenUpLate, NoRow, NotRouting
<1>2. FrontInv
  <2>1. NoReq \in [step : {"idle", "received", "checked", "decoded"} \cup Codes, of : SUBSET Deliveries]
    BY DEF NoReq
  <2> QED BY <2>1, PipelineConstants DEF FrontInv, Init, FrontTypes, HandlersKnow, AckedEventsKept, NoReq
<1>3. RouterInv
  <2>1. RouterTypes
    BY DEF Init, RouterTypes
  <2> QED BY <2>1 DEF RouterInv, Init, InboxInit, OnlySentEvents, JobsOfEvents, RoutedAreJobs, MadeOnce,
                      DoneIsRouted, NoRow
<1>4. Limiter
  <2>1. NoFailures \in [count : Nat, since : 0..(Window + 1)]
    BY PipelineConstants DEF NoFailures
  <2>2. ASSUME NEW c \in Clients PROVE Quota(c)
    <3>1. failed[c].count = 0
      BY DEF Init, NoFailures
    <3> QED BY <3>1, PendingIsFinite, PipelineConstants DEF Quota
  <2> QED BY <2>1, <2>2 DEF Limiter, LimiterTypes, FailuresBounded, Quota, Init
<1> QED BY <1>1, <1>2, <1>3, <1>4 DEF IInv

LEMMA InvStep == IInv /\ [Next]_vars => IInv'
<1> SUFFICES ASSUME IInv, [Next]_vars PROVE IInv'
  OBVIOUS
<1>1. InboxInv'
  BY PipelineStepsInbox, InboxTypesStep, LeaseAgreesStep, AbsentIsBlankStep, GivenUpLateStep
     DEF IInv, InboxInv
<1>2. FrontInv'
  BY FrontTypesStep, HandlersKnowStep, AckedEventsKeptStep DEF IInv, InboxInv, FrontInv
<1>3. RouterInv'
  BY RouterTypesStep, OnlySentEventsStep, JobsOfEventsStep, RoutedAreJobsStep, MadeOnceStep,
     DoneIsRoutedStep DEF IInv, InboxInv, FrontInv, RouterInv
<1>4. Limiter'
  BY LimiterTypesStep, FailuresBoundedStep DEF IInv, FrontInv, Limiter
<1> QED BY <1>1, <1>2, <1>3, <1>4 DEF IInv

LEMMA InvImplies == IInv => PipelineInv
<1> SUFFICES ASSUME IInv PROVE PipelineInv
  OBVIOUS
<1>0. InboxInv /\ FrontInv /\ RouterInv /\ Limiter
  BY DEF IInv
<1>1. TypeOK
  <2>1. failed \in [Clients -> [count : 0..(MaxFailures + Cardinality(Handlers)), since : 0..(Window + 1)]]
    <3>1. ASSUME NEW c \in Clients
          PROVE  failed[c].count \in 0..(MaxFailures + Cardinality(Handlers))
      BY <1>0, PendingIsFinite, PipelineConstants DEF Limiter, LimiterTypes, FailuresBounded
    <3> QED BY <1>0, <3>1 DEF Limiter, LimiterTypes
  <2> QED BY <1>0, <2>1 DEF TypeOK, InboxInv, FrontInv, RouterInv, FrontTypes, RouterTypes
<1>2. OnlyEventsAct
  BY <1>0 DEF OnlyEventsAct, RouterInv, OnlySentEvents, JobsOfEvents, SentEvent
<1>3. NothingTwice
  <2>1. ASSUME NEW a \in Alerts, NEW k \in Keys PROVE made[a][k] = 1 \/ made[a][k] = 0
    BY <1>0 DEF RouterInv, MadeOnce
  <2> QED BY <2>1 DEF NothingTwice
<1>4. AcknowledgedIsKept
  BY <1>0 DEF AcknowledgedIsKept, FrontInv, AckedEventsKept, Kept
<1> QED BY <1>0, <1>1, <1>2, <1>3, <1>4 DEF PipelineInv, InboxInv, RouterInv

LEMMA InvHolds == Spec => []IInv
BY InvInit, InvStep, PTL DEF Spec

(* However handlers, workers and the clock interleave, and whatever of them  *)
(* stops half way: an event whose sender saw 200 is in the inbox until it    *)
(* was dealt with and its retention is over, a row is done only when each    *)
(* of its alerts has its job, no alert gets a job for an occurrence twice,   *)
(* only a signed event ever reaches the inbox or the jobs, and a row is      *)
(* given up on only after its last attempt (ingest, Lease, Fail, Enqueue).   *)
THEOREM PipelineHolds == Spec => []PipelineInv
BY InvHolds, InvImplies, PTL

-----------------------------------------------------------------------------
(* The inbox implements JobLife. *)

LEMMA LifeStates ==
  /\ LifeState("none") = "absent" /\ LifeState("new") = "waiting" /\ LifeState("routing") = "held"
  /\ \A s \in Settled : LifeState(s) = "settled"
BY DEF LifeState, Settled

LEMMA RowsMove ==
  ASSUME NEW S \in SUBSET Deliveries, NEW s, NEW w,
         \A d \in S : LifeState(row'[d].status) = s /\ row'[d].by = w,
         \A d \in Deliveries \ S : row'[d].status = row[d].status /\ row'[d].by = row[d].by
  PROVE  Life!Move(S, s, w)
BY DEF Life!Move

SameRows == \A d \in Deliveries : row'[d].status = row[d].status /\ row'[d].by = row[d].by

LEMMA RowsStay ==
  ASSUME SameRows
  PROVE  /\ [d \in Deliveries |-> LifeState(row[d].status)]' = [d \in Deliveries |-> LifeState(row[d].status)]
         /\ [d \in Deliveries |-> row[d].by]' = [d \in Deliveries |-> row[d].by]
BY DEF SameRows

LEMMA GivingUp ==
  ASSUME InboxTypeOK, LeaseAgrees, NEW w \in Workers, GiveUp(w) PROVE Life!Next
<1>0. PICK S \in SUBSET Deliveries : S = {d \in Deliveries : Spent(d)}
  OBVIOUS
<1>1. hold' = hold /\ \A d \in Deliveries : row'[d] = IF d \in S THEN SettledRow(row[d], "failed")
                                                              ELSE row[d]
  BY <1>0 DEF GiveUp
<1>2. \A d \in S : row'[d].status = "failed" /\ row'[d].by = NoWorker
  BY <1>0, <1>1 DEF SettledRow, Row, InboxTypeOK
<1>3. Life!Move(S, "settled", NoWorker)
  <2>1. \A d \in S : LifeState(row'[d].status) = "settled"
    BY <1>2, LifeStates DEF Settled
  <2> QED BY <1>1, <1>2, <2>1, RowsMove
<1>4. \A d \in S : LifeState(row[d].status) = "held" /\ \A v \in Workers : ~(hold[v][d] > 0)
  BY <1>0, DueIsFree, LifeStates DEF Spent, Lapsed
<1>5. Life!GiveUp(S)
  BY <1>1, <1>3, <1>4 DEF Life!GiveUp, Life!Free
<1> QED BY <1>5 DEF Life!Next

LEMMA Forgetting == ASSUME PurgeInbox PROVE Life!Next
<1>0. PICK S \in SUBSET Deliveries : S = Old
  BY DEF Old
<1>1. hold' = hold /\ \A d \in Deliveries : row'[d] = IF d \in S THEN NoRow ELSE row[d]
  BY <1>0 DEF PurgeInbox
<1>2. Life!Move(S, "absent", NoWorker)
  <2>1. \A d \in S : LifeState(row'[d].status) = "absent" /\ row'[d].by = NoWorker
    BY <1>1, LifeStates DEF NoRow
  <2> QED BY <1>1, <2>1, RowsMove
<1>3. \A d \in S : LifeState(row[d].status) = "settled"
  BY <1>0, LifeStates DEF Old
<1>4. Life!Forget(S)
  BY <1>1, <1>2, <1>3 DEF Life!Forget
<1> QED BY <1>4 DEF Life!Next

LEMMA Adding ==
  ASSUME InboxTypeOK, NEW d \in Deliveries, Insert(d) PROVE Life!Next \/ UNCHANGED inboxVars
<1>1. CASE row[d].status # "none"
  BY <1>1 DEF Insert, inboxVars
<1>2. CASE row[d].status = "none"
  <2>1. hold' = hold /\ \A e \in Deliveries \ {d} : row'[e] = row[e]
    BY <1>2 DEF Insert, InboxTypeOK
  <2>2. row'[d].status = "new" /\ row'[d].by = NoWorker
    BY <1>2 DEF Insert, InboxTypeOK, NoRow
  <2>3. Life!Move({d}, "waiting", NoWorker)
    BY <2>1, <2>2, LifeStates, RowsMove
  <2>4. Life!Add(d)
    BY <1>2, <2>1, <2>3, LifeStates DEF Life!Add
  <2> QED BY <2>4 DEF Life!Next
<1> QED BY <1>1, <1>2

LEMMA Taking ==
  ASSUME InboxTypeOK, LeaseAgrees, NEW w \in Workers, NEW d \in Deliveries, Lease(w, d) \/ LeaseLost(w, d)
  PROVE  Life!Next
<1>0. PICK S \in SUBSET Deliveries : S = {d}
  OBVIOUS
<1>1. /\ row' = [row EXCEPT ![d] = LeasedRow(@, w)] /\ Due(d)
      /\ row \in [Deliveries -> Row]
  BY DEF Lease, LeaseLost, Take, Takeable, InboxTypeOK
<1>2. row'[d].status = "routing" /\ row'[d].by = w /\ \A e \in Deliveries \ S : row'[e] = row[e]
  BY <1>0, <1>1 DEF LeasedRow, Row
<1>3. Life!Move(S, "held", w)
  BY <1>0, <1>2, LifeStates, RowsMove
<1>4. \A e \in S : LifeState(row[e].status) \in {"waiting", "held"} /\ \A v \in Workers : ~(hold[v][e] > 0)
  BY <1>0, <1>1, DueIsFree, LifeStates DEF Due, Lapsed
<1>5. CASE Lease(w, d)
  <2>1. hold \in [Workers -> [Deliveries -> NotRouting..Hold]] /\ Hold \in Nat \ {0}
        /\ hold' = [hold EXCEPT ![w][d] = Hold]
    BY <1>5, InboxConstants DEF InboxTypeOK, Lease
  <2>2. /\ hold'[w][d] = Hold /\ \A v \in Workers \ {w} : hold'[v] = hold[v]
        /\ \A e \in Deliveries \ {d} : hold'[w][e] = hold[w][e]
    BY <2>1
  <2>3. {e \in Deliveries : hold'[w][e] # NotRouting} = {e \in Deliveries : hold[w][e] # NotRouting} \cup S
    BY <1>0, <2>1, <2>2 DEF NotRouting
  <2>4. {e \in Deliveries : hold'[w][e] > 0} = {e \in Deliveries : hold[w][e] > 0} \cup S
    BY <1>0, <2>1, <2>2
  <2>5. LET busy == [v \in Workers |-> {e \in Deliveries : hold[v][e] # NotRouting}]
            live == [v \in Workers |-> {e \in Deliveries : hold[v][e] > 0}]
        IN  /\ busy' = [busy EXCEPT ![w] = @ \cup S]
            /\ live' = [live EXCEPT ![w] = @ \cup S]
    BY <2>2, <2>3, <2>4
  <2>6. Life!Take(w, S)
    BY <1>3, <1>4, <2>5 DEF Life!Take, Life!Free
  <2> QED BY <2>6 DEF Life!Next
<1>6. CASE LeaseLost(w, d)
  <2>1. hold' = hold
    BY <1>6 DEF LeaseLost
  <2>2. Life!Take(w, S)
    BY <1>3, <1>4, <2>1 DEF Life!Take, Life!Free
  <2> QED BY <2>2 DEF Life!Next
<1> QED BY <1>5, <1>6

LEMMA PuttingAside ==
  ASSUME InboxTypeOK, NEW w \in Workers, NEW d \in Deliveries, hold[w][d] # NotRouting,
         hold' = [hold EXCEPT ![w][d] = NotRouting]
  PROVE  Life!PutAside(w, d)
<1>0. PICK S \in SUBSET Deliveries : S = {d}
  OBVIOUS
<1>1. /\ hold'[w][d] = NotRouting /\ \A v \in Workers \ {w} : hold'[v] = hold[v]
      /\ \A e \in Deliveries \ {d} : hold'[w][e] = hold[w][e]
  BY DEF InboxTypeOK
<1>2. {e \in Deliveries : hold'[w][e] # NotRouting} = {e \in Deliveries : hold[w][e] # NotRouting} \ S
  BY <1>0, <1>1
<1>3. {e \in Deliveries : hold'[w][e] > 0} = {e \in Deliveries : hold[w][e] > 0} \ S
  BY <1>0, <1>1 DEF NotRouting
<1>4. LET busy == [v \in Workers |-> {e \in Deliveries : hold[v][e] # NotRouting}]
          live == [v \in Workers |-> {e \in Deliveries : hold[v][e] > 0}]
      IN  /\ busy' = [busy EXCEPT ![w] = @ \ S]
          /\ live' = [live EXCEPT ![w] = @ \ S]
  <2>1. \A v \in Workers \ {w} : hold'[v] = hold[v]
    BY <1>1
  <2>2. LET busy == [v \in Workers |-> {e \in Deliveries : hold[v][e] # NotRouting}]
        IN  busy' = [busy EXCEPT ![w] = @ \ S]
    BY <1>2, <2>1
  <2>3. LET live == [v \in Workers |-> {e \in Deliveries : hold[v][e] > 0}]
        IN  live' = [live EXCEPT ![w] = @ \ S]
    BY <1>3, <2>1
  <2> QED BY <2>2, <2>3
<1> QED BY <1>0, <1>4 DEF Life!PutAside

LEMMA Reporting ==
  ASSUME InboxTypeOK, NEW w \in Workers, NEW d \in Deliveries, NEW r,
         Report(w, d, r), r.by = NoWorker, LifeState(r.status) \in {"waiting", "settled"}
  PROVE  Life!Next
<1>1. Life!PutAside(w, d)
  BY PuttingAside DEF Report
<1>2. CASE Mine(w, d)
  <2>1. row'[d] = r /\ \A e \in Deliveries \ {d} : row'[e] = row[e]
    BY <1>2 DEF Report, InboxTypeOK
  <2>2. PICK s \in {"waiting", "settled"} : LifeState(row'[d].status) = s
    BY <2>1
  <2>3. Life!Move({d}, s, NoWorker)
    BY <2>1, <2>2, RowsMove
  <2>4. Life!Report(w, d)
    BY <1>1, <1>2, <2>3, LifeStates DEF Life!Report, Mine
  <2> QED BY <2>4 DEF Life!Next
<1>3. CASE ~Mine(w, d)
  <2>1. row' = row
    BY <1>3 DEF Report
  <2>2. Life!Report(w, d)
    BY <1>1, <2>1 DEF Life!Report
  <2> QED BY <2>2 DEF Life!Next
<1> QED BY <1>2, <1>3

LEMMA Settling ==
  ASSUME InboxTypeOK, NEW w \in Workers, NEW d \in Deliveries, Done(w, d) \/ Drop(w, d) \/ Fail(w, d)
  PROVE  Life!Next
<1>1. row[d] \in Row
  BY DEF InboxTypeOK
<1>2. ASSUME NEW s \in Settled \cup {"new"}
      PROVE  SettledRow(row[d], s).by = NoWorker /\ SettledRow(row[d], s).status = s
  BY <1>1 DEF SettledRow, Row
<1>3. /\ [SettledRow(row[d], "new") EXCEPT !.dueIn = Retry].by = NoWorker
      /\ [SettledRow(row[d], "new") EXCEPT !.dueIn = Retry].status = "new"
  BY <1>1 DEF SettledRow, Row
<1>4. \A s \in Settled \cup {"new"} : LifeState(s) \in {"waiting", "settled"}
  BY LifeStates
<1> QED BY <1>2, <1>3, <1>4, Reporting DEF Done, Drop, Fail, Settled

LEMMA Stopping == ASSUME InboxTypeOK, NEW w \in Workers, Crash(w) PROVE Life!Next
<1>1. /\ row' = row /\ \A v \in Workers \ {w} : hold'[v] = hold[v]
      /\ \A d \in Deliveries : hold'[w][d] = NotRouting
  BY DEF Crash, InboxTypeOK
<1>2. {d \in Deliveries : hold'[w][d] # NotRouting} = {} /\ {d \in Deliveries : hold'[w][d] > 0} = {}
  BY <1>1 DEF NotRouting
<1>3. LET busy == [v \in Workers |-> {e \in Deliveries : hold[v][e] # NotRouting}]
          live == [v \in Workers |-> {e \in Deliveries : hold[v][e] > 0}]
      IN  busy' = [busy EXCEPT ![w] = {}] /\ live' = [live EXCEPT ![w] = {}]
  BY <1>1, <1>2
<1>4. Life!Stop(w)
  BY <1>1, <1>3 DEF Life!Stop
<1> QED BY <1>4 DEF Life!Next

LEMMA Lapsing == ASSUME InboxTypeOK, AbsentIsBlank, Tick PROVE Life!Next
<1>1. ASSUME NEW w \in Workers, NEW d \in Deliveries
      PROVE  /\ hold'[w][d] # NotRouting <=> hold[w][d] # NotRouting
             /\ hold'[w][d] > 0 => hold[w][d] > 0
  <2>1. hold'[w][d] = Less(hold[w][d]) /\ hold[w][d] \in NotRouting..Hold
    BY DEF Tick, InboxTypeOK
  <2> QED BY <2>1, InboxConstants DEF Less, NotRouting
<1>2. SameRows
  <2> SUFFICES ASSUME NEW d \in Deliveries PROVE row'[d].status = row[d].status /\ row'[d].by = row[d].by
    BY DEF SameRows
  <2>0. row[d] \in Row
    BY DEF InboxTypeOK
  <2>1. CASE row[d].status = "none"
    BY <2>1 DEF Tick, AbsentIsBlank
  <2>2. CASE row[d].status # "none"
    BY <2>0, <2>2 DEF Tick, Row
  <2> QED BY <2>1, <2>2
<1>3. \A w \in Workers :
        /\ {d \in Deliveries : hold'[w][d] # NotRouting} = {d \in Deliveries : hold[w][d] # NotRouting}
        /\ {d \in Deliveries : hold'[w][d] > 0} \subseteq {d \in Deliveries : hold[w][d] > 0}
  BY <1>1
<1>4. LET busy == [v \in Workers |-> {e \in Deliveries : hold[v][e] # NotRouting}]
          live == [v \in Workers |-> {e \in Deliveries : hold[v][e] > 0}]
      IN  /\ busy' = busy
          /\ live' \in [Workers -> SUBSET Deliveries] /\ \A w \in Workers : live'[w] \subseteq live[w]
  BY <1>3
<1>5. Life!Lapse
  BY <1>2, <1>4, RowsStay DEF Life!Lapse
<1> QED BY <1>5 DEF Life!Next

LEMMA LifeInit == InboxInit => Life!Init
<1> SUFFICES ASSUME InboxInit PROVE Life!Init
  OBVIOUS
<1>1. \A d \in Deliveries : row[d] = NoRow /\ \A w \in Workers : hold[w][d] = NotRouting
  BY DEF InboxInit
<1>2. \A w \in Workers : /\ {d \in Deliveries : hold[w][d] # NotRouting} = {}
                         /\ {d \in Deliveries : hold[w][d] > 0} = {}
  BY <1>1 DEF NotRouting
<1> QED BY <1>1, <1>2, LifeStates DEF Life!Init, NoRow

(* The inbox implements JobLife under all that the front and the router do:  *)
(* no two workers are given a row while a lease on it is in force, a report  *)
(* counts only from the row's own worker, and what is settled stays settled  *)
(* until it is purged (inbox_queue.go: Lease, Done, Drop, Fail, purge).      *)
THEOREM InboxImplementsJobLife == Spec => ImplementsJobLife
<1>1. ASSUME InboxTypeOK, LeaseAgrees, AbsentIsBlank, InboxStep PROVE [Life!Next]_(Life!vars)
  <2>1. UNCHANGED <<row, hold>> => UNCHANGED Life!vars
    BY DEF Life!vars
  <2>2. UNCHANGED inboxVars => UNCHANGED <<row, hold>>
    BY DEF inboxVars
  <2>3. \A w \in Workers : LeaseNothing(w) => UNCHANGED <<row, hold>>
    BY DEF LeaseNothing
  <2> QED BY <1>1, <2>1, <2>2, <2>3, GivingUp, Forgetting, Adding, Taking, Settling, Stopping, Lapsing
          DEF InboxStep, InboxNext
<1>2. IInv => InboxTypeOK /\ LeaseAgrees /\ AbsentIsBlank
  BY DEF IInv, InboxInv
<1>3. IInv /\ [Next]_vars => [Life!Next]_(Life!vars)
  BY <1>1, <1>2, PipelineStepsInbox
<1>4. Init => Life!Init
  BY LifeInit DEF Init
<1> QED BY <1>3, <1>4, InvHolds, PTL DEF Spec, ImplementsJobLife, Life!Spec
=============================================================================

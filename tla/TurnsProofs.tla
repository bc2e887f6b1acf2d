----------------------------- MODULE TurnsProofs -----------------------------
(***************************************************************************)
(* Proofs about the parts of MCTurns, for any value of their constants.     *)
(*                                                                         *)
(* Wakes: a wake-up is taken only with a look-up before it and only as far  *)
(* ahead as validate allows, and a task is done at the moment it kept.  So   *)
(* what is kept lies at least MinActAhead after the last doing, and what is *)
(* done next is what was kept.                                              *)
(*                                                                         *)
(* Choices: a row that was chosen has one sentence, which is in one place at *)
(* a time on its way to the agent, and so has each message a person wrote.   *)
(*                                                                         *)
(* Gates: a call has passed what its place between the gates says it has,   *)
(* with one set of inputs from the input check on; so what reaches a service *)
(* keeps the rules, waited for its look-ups, and was agreed to as it is.     *)
(*                                                                         *)
(* Turns: what routing settled a message to be decides what it may be       *)
(* offered, and what it is offered is settled in one step; so what it uses  *)
(* is of that.  Until a task is routed, what is stored is what the person   *)
(* was doing last.                                                          *)
(***************************************************************************)
EXTENDS MCTurns, FiniteSetTheorems, WellFoundedInduction, TLAPS

(***************************************************************************)
(* Wakes: the inductive invariant.                                         *)
(***************************************************************************)
WakeUps == [at : Nat, kind : {"act", "check"}]
TaskType == [next : SUBSET WakeUps, leave : SUBSET Actions]
StType == [step : {"idle", "planning", "ended"}, now : Nat, last : SUBSET WakeUps, due : BOOLEAN, lookups : BOOLEAN,
           plan : SUBSET WakeUps, say : BOOLEAN, doNow : BOOLEAN, runs : 0 .. 2, sets : 0 .. MaxSets]
WakePastType == [worked : BOOLEAN, done : Nat \cup {Wakes!Never}, close : BOOLEAN, kept : BOOLEAN, agreed : SUBSET Actions]

WakesTypes ==
  now \in 0 .. MaxTime /\ task \in TaskType /\ flags \in SUBSET Actions /\ st \in StType /\ wakePast \in WakePastType

OneAtMost(S) == \A v, w \in S : v = w

\* A planning knows the task's wake-up, and began no earlier than the job was last done.
Begun ==
  /\ st.now <= now /\ wakePast.done <= now
  /\ st.step # "idle" => st.last = task.next /\ wakePast.done <= st.now
  /\ st.due => \E w \in st.last : w.at <= st.now

\* Nothing is decided without a look-up that worked, and what is planned is within validate's bounds.
Founded ==
  /\ st.lookups => wakePast.worked
  /\ st.plan # {} \/ st.doNow => st.lookups
  /\ \A w \in st.plan : Wakes!Valid(w)

\* The wake-up that is kept is in sight, and far enough from the last doing.
Spaced ==
  \A w \in task.next : w.at <= now + MaxWakeAhead /\ (wakePast.done # Wakes!Never => w.at >= wakePast.done + MinActAhead)

WakesInv ==
  /\ WakesTypes
  /\ OneAtMost(task.next) /\ OneAtMost(st.plan)
  /\ Begun /\ Founded /\ Spaced
  /\ ~wakePast.close
  /\ Wakes!LeaveAsAgreed

LEMMA SameCount == ASSUME NEW S PROVE Wakes!Cardinality(S) = Cardinality(S)
BY DEF Wakes!Cardinality, Cardinality

LEMMA WakeNumbers ==
  /\ MinActAhead \in Nat /\ MinCheckAhead \in Nat /\ MaxWakeAhead \in Nat /\ LateWake \in Nat
  /\ MaxSets \in Nat /\ MaxTime \in Nat
  /\ MinActAhead > 0 /\ MinActAhead <= MinCheckAhead /\ MinCheckAhead <= MaxWakeAhead
  /\ Asking \subseteq Actions /\ Wakes!Never = -1
BY TurnsConstants DEF Wakes!WakeConstants, Wakes!Never

LEMMA WakesInit == Wakes!Init => WakesInv
<1> SUFFICES ASSUME Wakes!Init PROVE WakesInv
  OBVIOUS
<1>1. now = 0 /\ task = [next |-> {}, leave |-> {}] /\ flags = {} /\ st = Wakes!Idle
      /\ wakePast = [worked |-> FALSE, done |-> Wakes!Never, close |-> FALSE, kept |-> TRUE, agreed |-> {}]
  BY DEF Wakes!Init
<1>2. task \in TaskType
  BY <1>1 DEF TaskType
<1>3. st \in StType
  BY <1>1, WakeNumbers DEF StType, Wakes!Idle
<1>4. wakePast \in WakePastType
  BY <1>1 DEF WakePastType
<1>5. now \in 0 .. MaxTime /\ flags \in SUBSET Actions
  BY <1>1, WakeNumbers
<1>6. st.plan = {} /\ st.step = "idle" /\ ~st.due /\ ~st.lookups /\ ~st.doNow /\ st.now = 0
  BY <1>1 DEF Wakes!Idle
<1>7. task.next = {} /\ task.leave = {} /\ wakePast.done = -1 /\ ~wakePast.close
  BY <1>1, WakeNumbers
<1>8. Begun /\ Founded /\ Spaced
  BY <1>1, <1>6, <1>7 DEF Begun, Founded, Spaced
<1> QED BY <1>2, <1>3, <1>4, <1>5, <1>6, <1>7, <1>8 DEF WakesInv, WakesTypes, OneAtMost, Wakes!LeaveAsAgreed

\* A step of a planning that keeps the task, as long as it keeps what was found and planned.
LEMMA WhilePlanning ==
  ASSUME WakesInv, UNCHANGED <<now, task, flags>>, st' \in StType, wakePast' \in WakePastType,
         st'.now = st.now, st'.last = st.last, st'.due = st.due, st.step # "idle",
         wakePast'.done = wakePast.done, wakePast'.close = wakePast.close, wakePast'.agreed = wakePast.agreed,
         OneAtMost(st'.plan), Founded'
  PROVE  WakesInv'
<1>1. Begun'
  BY DEF WakesInv, Begun
<1>2. Spaced' /\ (Wakes!LeaveAsAgreed)'
  BY DEF WakesInv, Spaced, Wakes!LeaveAsAgreed
<1> QED BY <1>1, <1>2 DEF WakesInv, WakesTypes

\* So do the steps that change neither.
LEMMA WhileSame ==
  ASSUME WakesInv, UNCHANGED <<now, task, flags, wakePast>>, st' \in StType,
         st'.now = st.now, st'.last = st.last, st'.due = st.due, st.step # "idle",
         st'.plan = st.plan, st'.lookups = st.lookups, st'.doNow => st.doNow \/ st.lookups
  PROVE  WakesInv'
<1>1. Founded'
  BY DEF WakesInv, Founded, Wakes!Valid
<1>2. wakePast' \in WakePastType
  BY DEF WakesInv, WakesTypes
<1> QED BY <1>1, <1>2, WhilePlanning DEF WakesInv

\* A planning that is over.
LEMMA IdleAgain ==
  ASSUME WakesInv, UNCHANGED <<now, flags>>, st' = Wakes!Idle, task' \in TaskType, OneAtMost(task'.next),
         wakePast' \in WakePastType, ~wakePast'.close, wakePast'.done <= now, Spaced', (Wakes!LeaveAsAgreed)'
  PROVE  WakesInv'
<1>1. st' \in StType
  BY WakeNumbers DEF StType, Wakes!Idle
<1>2. st'.plan = {} /\ st'.step = "idle" /\ ~st'.due /\ ~st'.lookups /\ ~st'.doNow /\ st'.now = 0
  BY DEF Wakes!Idle
<1>3. now \in 0 .. MaxTime /\ now' = now /\ MaxTime \in Nat
  BY WakeNumbers DEF WakesInv, WakesTypes
<1>4. Begun' /\ Founded' /\ OneAtMost(st'.plan)
  BY <1>2, <1>3 DEF Begun, Founded, OneAtMost
<1> QED BY <1>1, <1>3, <1>4 DEF WakesInv, WakesTypes

\* What is done at the moment that was kept is done MinActAhead after the last doing.
LEMMA DoneInTime ==
  ASSUME WakesInv, st.step # "idle", Wakes!MayActNow
  PROVE  /\ wakePast.done # Wakes!Never => ~(st.now - wakePast.done < MinActAhead)
         /\ \E w \in task.next : w.kind = "act" /\ st.now - w.at \in 0 .. LateWake
<1>0. task.next \in SUBSET WakeUps /\ st.now \in Nat /\ wakePast.done \in Nat \cup {Wakes!Never}
  BY DEF WakesInv, WakesTypes, TaskType, StType, WakePastType
<1>1. PICK w \in task.next : w.kind = "act" /\ st.now - w.at <= LateWake
  BY DEF Wakes!MayActNow, WakesInv, Begun
<1>2. PICK v \in task.next : v.at <= st.now
  BY DEF Wakes!MayActNow, WakesInv, Begun
<1>3. w = v
  BY DEF WakesInv, OneAtMost
<1>4. w.at \in Nat /\ w.at <= st.now
  BY <1>0, <1>2, <1>3 DEF WakeUps
<1>5. wakePast.done # Wakes!Never => w.at >= wakePast.done + MinActAhead
  BY DEF WakesInv, Spaced
<1>6. wakePast.done # Wakes!Never => ~(st.now - wakePast.done < MinActAhead)
  BY <1>0, <1>4, <1>5, WakeNumbers
<1>7. st.now - w.at \in 0 .. LateWake
  BY <1>0, <1>1, <1>4, WakeNumbers
<1> QED BY <1>1, <1>6, <1>7

\* What a planning kept lies ahead of the moment the planning began.
LEMMA PlanAhead ==
  ASSUME WakesInv, NEW w \in st.plan
  PROVE  w.at \in Nat /\ w.at >= st.now + MinActAhead /\ w.at <= now + MaxWakeAhead
<1>1. w \in WakeUps /\ st.now \in Nat /\ now \in Nat /\ st.now <= now
  BY WakeNumbers DEF WakesInv, WakesTypes, StType, Begun
<1>2. Wakes!Valid(w)
  BY DEF WakesInv, Founded
<1>3. w.at \in Nat
  BY <1>1 DEF WakeUps
<1>4. w.at >= st.now + MinActAhead /\ w.at <= st.now + MaxWakeAhead
  <2>1. CASE w.kind = "check"
    BY <1>1, <1>2, <1>3, <2>1, WakeNumbers DEF Wakes!Valid
  <2>2. CASE w.kind # "check"
    BY <1>1, <1>2, <1>3, <2>2, WakeNumbers DEF Wakes!Valid
  <2> QED BY <2>1, <2>2
<1> QED BY <1>1, <1>3, <1>4, WakeNumbers

LEMMA WakesStep == WakesInv /\ [Wakes!Next]_(Wakes!vars) => WakesInv'
<1> SUFFICES ASSUME WakesInv, [Wakes!Next]_(Wakes!vars) PROVE WakesInv'
  OBVIOUS
<1>0. /\ now \in 0 .. MaxTime /\ task \in TaskType /\ flags \in SUBSET Actions /\ st \in StType
      /\ wakePast \in WakePastType
  BY DEF WakesInv, WakesTypes
<1>1. CASE Wakes!Unconnected
  <2>1. st' = [st EXCEPT !.step = "ended", !.say = TRUE] /\ st.step = "planning" /\ UNCHANGED <<now, task, flags, wakePast>>
    BY <1>1 DEF Wakes!Unconnected
  <2>2. st' \in StType
    BY <1>0, <2>1 DEF StType
  <2> QED BY <1>0, <2>1, <2>2, WhileSame DEF StType
<1>2. CASE Wakes!ConfirmMoment
  <2>1. st' = [st EXCEPT !.doNow = TRUE] /\ st.step = "planning" /\ st.lookups /\ UNCHANGED <<now, task, flags, wakePast>>
    BY <1>2 DEF Wakes!ConfirmMoment
  <2>2. st' \in StType
    BY <1>0, <2>1 DEF StType
  <2> QED BY <1>0, <2>1, <2>2, WhileSame DEF StType
<1>3. CASE Wakes!CannotPlan
  <2>1. st' = [st EXCEPT !.say = TRUE] /\ st.step = "planning" /\ UNCHANGED <<now, task, flags, wakePast>>
    BY <1>3 DEF Wakes!CannotPlan
  <2>2. st' \in StType
    BY <1>0, <2>1 DEF StType
  <2> QED BY <1>0, <2>1, <2>2, WhileSame DEF StType
<1>4. CASE Wakes!LoopEnds
  <2>1. /\ st' = [st EXCEPT !.runs = 2, !.sets = 0] \/ st' = [st EXCEPT !.step = "ended"]
        /\ st.step = "planning" /\ UNCHANGED <<now, task, flags, wakePast>>
    BY <1>4 DEF Wakes!LoopEnds
  <2>2. st' \in StType
    <3>1. 2 \in 0 .. 2 /\ 0 \in 0 .. MaxSets
      BY WakeNumbers
    <3>2. CASE st' = [st EXCEPT !.runs = 2, !.sets = 0]
      BY <1>0, <3>1, <3>2 DEF StType
    <3>3. CASE st' = [st EXCEPT !.step = "ended"]
      BY <1>0, <3>3 DEF StType
    <3> QED BY <2>1, <3>2, <3>3
  <2> QED BY <1>0, <2>1, <2>2, WhileSame DEF StType
<1>5. CASE Wakes!LoopFails
  <2>1. st.step = "planning" /\ UNCHANGED <<now, task, flags>>
    BY <1>5 DEF Wakes!LoopFails
  <2>2. wakePast' \in WakePastType /\ wakePast'.worked = wakePast.worked /\ wakePast'.done = wakePast.done
        /\ wakePast'.close = wakePast.close /\ wakePast'.agreed = wakePast.agreed
    BY <1>0, <1>5 DEF Wakes!LoopFails, WakePastType
  <2>3. CASE st' = Wakes!Idle
    <3>1. Spaced' /\ (Wakes!LeaveAsAgreed)' /\ OneAtMost(task'.next) /\ wakePast'.done <= now /\ ~wakePast'.close
      BY <2>1, <2>2 DEF WakesInv, Begun, Spaced, Wakes!LeaveAsAgreed
    <3> QED BY <1>0, <2>1, <2>2, <2>3, <3>1, IdleAgain
  <2>4. CASE st' = [st EXCEPT !.step = "ended"]
    <3>1. st' \in StType
      BY <1>0, <2>4 DEF StType
    <3>2. st'.now = st.now /\ st'.last = st.last /\ st'.due = st.due /\ st'.plan = st.plan /\ st'.lookups = st.lookups
          /\ st'.doNow = st.doNow
      BY <1>0, <2>4 DEF StType
    <3>3. OneAtMost(st'.plan) /\ Founded'
      BY <2>2, <3>2 DEF WakesInv, Founded, Wakes!Valid
    <3> QED BY <2>1, <2>2, <3>1, <3>2, <3>3, WhilePlanning
  <2> QED BY <1>5, <2>3, <2>4 DEF Wakes!LoopFails
<1>6. CASE Wakes!Returns
  <2>1. st.step = "ended" /\ st' = Wakes!Idle /\ UNCHANGED <<now, flags>>
    BY <1>6 DEF Wakes!Returns
  <2>2. now \in Nat /\ st.now \in Nat /\ wakePast.done \in Nat \cup {-1} /\ st.now <= now /\ wakePast.done <= st.now
        /\ st.plan \in SUBSET WakeUps /\ ~wakePast.close
    BY <1>0, <2>1, WakeNumbers DEF WakesInv, Begun, StType, WakePastType
  <2>3. CASE st.plan # {}
    <3>1. task' = [task EXCEPT !.next = st.plan]
      BY <1>6, <2>3 DEF Wakes!Returns
    <3>2. task' \in TaskType /\ task'.next = st.plan /\ task'.leave = task.leave
      BY <1>0, <2>2, <3>1 DEF TaskType
    <3>3. OneAtMost(task'.next)
      BY <3>2 DEF WakesInv
    <3>4. CASE st.doNow /\ Wakes!MayActNow
      <4>1. wakePast' = [wakePast EXCEPT !.done = st.now,
                          !.close = @ \/ (wakePast.done # Wakes!Never /\ st.now - wakePast.done < MinActAhead)]
        BY <1>6, <2>3, <3>4 DEF Wakes!Returns
      <4>2. ~(wakePast.done # Wakes!Never /\ st.now - wakePast.done < MinActAhead)
        BY <2>1, <3>4, DoneInTime
      <4>3. wakePast' \in WakePastType /\ wakePast'.done = st.now /\ ~wakePast'.close /\ wakePast'.agreed = wakePast.agreed
        BY <1>0, <2>2, <4>1, <4>2 DEF WakePastType
      <4>4. Spaced'
        BY <2>1, <3>2, <4>3, PlanAhead DEF Spaced
      <4>5. (Wakes!LeaveAsAgreed)'
        BY <3>2, <4>3 DEF WakesInv, Wakes!LeaveAsAgreed
      <4> QED BY <2>1, <2>2, <3>2, <3>3, <4>3, <4>4, <4>5, IdleAgain
    <3>5. CASE ~(st.doNow /\ Wakes!MayActNow)
      <4>1. wakePast' = wakePast
        BY <1>6, <2>3, <3>5 DEF Wakes!Returns
      <4>2. \A w \in st.plan : w.at \in Nat /\ w.at >= wakePast.done + MinActAhead /\ w.at <= now + MaxWakeAhead
        BY <2>2, PlanAhead, WakeNumbers
      <4>3. Spaced'
        BY <2>1, <3>2, <4>1, <4>2 DEF Spaced
      <4>4. (Wakes!LeaveAsAgreed)'
        BY <3>2, <4>1 DEF WakesInv, Wakes!LeaveAsAgreed
      <4>5. wakePast'.done <= now
        BY <2>2, <4>1
      <4> QED BY <1>0, <2>1, <2>2, <3>2, <3>3, <4>1, <4>3, <4>4, <4>5, IdleAgain
    <3> QED BY <3>4, <3>5
  <2>4. CASE st.plan = {}
    <3>1. wakePast' = [wakePast EXCEPT !.kept = @ /\ ~st.doNow] /\ (task' = task \/ task' = [task EXCEPT !.next = {}])
      BY <1>6, <2>4 DEF Wakes!Returns
    <3>2. wakePast' \in WakePastType /\ wakePast'.done = wakePast.done /\ ~wakePast'.close
          /\ wakePast'.agreed = wakePast.agreed
      BY <1>0, <2>2, <3>1 DEF WakePastType
    <3>3. task' \in TaskType /\ task'.next \in {task.next, {}} /\ task'.leave = task.leave
      BY <1>0, <3>1 DEF TaskType
    <3>4. OneAtMost(task'.next)
      BY <3>3 DEF WakesInv, OneAtMost
    <3>5. Spaced' /\ (Wakes!LeaveAsAgreed)' /\ wakePast'.done <= now
      BY <2>1, <2>2, <3>2, <3>3 DEF WakesInv, Spaced, Begun, Wakes!LeaveAsAgreed
    <3> QED BY <2>1, <3>2, <3>3, <3>4, <3>5, IdleAgain
  <2> QED BY <2>3, <2>4
<1>7. ASSUME NEW due \in BOOLEAN, Wakes!PlanWake(due) PROVE WakesInv'
  <2>1. /\ st' = [Wakes!Idle EXCEPT !.step = "planning", !.now = now, !.last = task.next, !.due = due, !.runs = 1]
        /\ due => \E w \in task.next : w.at <= now
        /\ wakePast' = [wakePast EXCEPT !.worked = FALSE]
        /\ UNCHANGED <<now, task, flags>>
    BY <1>7 DEF Wakes!PlanWake
  <2>2. now \in Nat /\ task.next \in SUBSET WakeUps
    BY <1>0, WakeNumbers DEF TaskType
  <2>3. st' \in StType
    <3>1. st' = [step |-> "planning", now |-> now, last |-> task.next, due |-> due, lookups |-> FALSE,
                 plan |-> {}, say |-> FALSE, doNow |-> FALSE, runs |-> 1, sets |-> 0]
      BY <2>1 DEF Wakes!Idle
    <3>2. 1 \in 0 .. 2 /\ 0 \in 0 .. MaxSets
      BY WakeNumbers
    <3> QED BY <2>2, <3>1, <3>2 DEF StType
  <2>4. st'.now = now /\ st'.last = task.next /\ st'.due = due /\ st'.plan = {} /\ ~st'.lookups /\ ~st'.doNow
    BY <2>1 DEF Wakes!Idle
  <2>5. wakePast' \in WakePastType /\ wakePast'.done = wakePast.done /\ wakePast'.close = wakePast.close
        /\ wakePast'.agreed = wakePast.agreed
    BY <1>0, <2>1 DEF WakePastType
  <2>6. Begun' /\ Founded' /\ OneAtMost(st'.plan)
    BY <2>1, <2>2, <2>4, <2>5 DEF WakesInv, Begun, Founded, OneAtMost
  <2>7. Spaced' /\ (Wakes!LeaveAsAgreed)'
    BY <2>1, <2>5 DEF WakesInv, Spaced, Wakes!LeaveAsAgreed
  <2> QED BY <2>1, <2>3, <2>5, <2>6, <2>7 DEF WakesInv, WakesTypes
<1>8. ASSUME NEW worked \in BOOLEAN, Wakes!LooksUp(worked) PROVE WakesInv'
  <2>1. /\ st' = [st EXCEPT !.lookups = @ \/ worked] /\ st.step = "planning"
        /\ wakePast' = [wakePast EXCEPT !.worked = @ \/ worked]
        /\ UNCHANGED <<now, task, flags>>
    BY <1>8 DEF Wakes!LooksUp, Wakes!Counted
  <2>2. st' \in StType
    BY <1>0, <2>1 DEF StType
  <2>3. /\ st'.now = st.now /\ st'.last = st.last /\ st'.due = st.due /\ st'.plan = st.plan /\ st'.doNow = st.doNow
        /\ st'.lookups <=> (st.lookups \/ worked)
    BY <1>0, <2>1 DEF StType
  <2>4. /\ wakePast' \in WakePastType /\ wakePast'.done = wakePast.done /\ wakePast'.close = wakePast.close
        /\ wakePast'.agreed = wakePast.agreed /\ (wakePast'.worked <=> (wakePast.worked \/ worked))
    BY <1>0, <2>1 DEF WakePastType
  <2>5. Founded' /\ OneAtMost(st'.plan)
    BY <2>3, <2>4 DEF WakesInv, Founded, Wakes!Valid
  <2> QED BY <2>1, <2>2, <2>3, <2>4, <2>5, WhilePlanning
<1>9. ASSUME NEW at \in 0 .. (MaxTime + 1), NEW kind \in {"act", "check"}, Wakes!SetNextWake(Wakes!Wake(at, kind)) PROVE WakesInv'
  <2> DEFINE w == Wakes!Wake(at, kind)
  <2>1. /\ st' = [st EXCEPT !.sets = @ + 1, !.plan = IF st.lookups /\ Wakes!Valid(w) THEN {w} ELSE @]
        /\ st.step = "planning" /\ st.sets < MaxSets /\ UNCHANGED <<now, task, flags, wakePast>>
    BY <1>9 DEF Wakes!SetNextWake
  <2>2. w \in WakeUps
    BY WakeNumbers DEF WakeUps, Wakes!Wake
  <2> HIDE DEF w
  <2>3. st' \in StType
    <3>1. st.sets + 1 \in 0 .. MaxSets
      BY <1>0, <2>1, WakeNumbers DEF StType
    <3>2. PICK P \in SUBSET WakeUps : st' = [st EXCEPT !.sets = st.sets + 1, !.plan = P]
      <4>1. st.plan \in SUBSET WakeUps
        BY <1>0 DEF StType
      <4> QED BY <2>1, <2>2, <4>1
    <3> QED BY <1>0, <3>1, <3>2 DEF StType
  <2>4. /\ st'.now = st.now /\ st'.last = st.last /\ st'.due = st.due /\ st'.doNow = st.doNow /\ st'.lookups = st.lookups
        /\ st'.plan = st.plan \/ (st.lookups /\ Wakes!Valid(w) /\ st'.plan = {w})
    BY <1>0, <2>1 DEF StType
  <2>5. Founded' /\ OneAtMost(st'.plan)
    BY <2>1, <2>4 DEF WakesInv, Founded, OneAtMost, Wakes!Valid
  <2> QED BY <1>0, <2>1, <2>3, <2>4, <2>5, WhilePlanning
<1>10. ASSUME NEW fits \in SUBSET Actions, Wakes!PlanTaskChanges(fits) PROVE WakesInv'
  <2> DEFINE allowed == {a \in fits : ~Wakes!Asks(a)}
  <2>1. /\ task' = [task EXCEPT !.leave = allowed]
        /\ wakePast' = [wakePast EXCEPT !.agreed = flags]
        /\ UNCHANGED <<now, flags, st>>
    BY <1>10 DEF Wakes!PlanTaskChanges
  <2>2. allowed \in SUBSET Actions /\ allowed \cap (Asking \cup flags) = {}
    BY DEF Wakes!Asks
  <2> HIDE DEF allowed
  <2>3. task' \in TaskType /\ task'.next = task.next /\ task'.leave = allowed
    BY <1>0, <2>1, <2>2 DEF TaskType
  <2>4. /\ wakePast' \in WakePastType /\ wakePast'.done = wakePast.done /\ wakePast'.close = wakePast.close
        /\ wakePast'.agreed = flags /\ wakePast'.worked = wakePast.worked
    BY <1>0, <2>1 DEF WakePastType
  <2>5. (Wakes!LeaveAsAgreed)'
    BY <2>2, <2>3, <2>4 DEF Wakes!LeaveAsAgreed
  <2>6. Begun' /\ Founded' /\ Spaced'
    BY <2>1, <2>3, <2>4 DEF WakesInv, Begun, Founded, Spaced, Wakes!Valid
  <2> QED BY <2>1, <2>3, <2>4, <2>5, <2>6 DEF WakesInv, WakesTypes
<1>11. ASSUME NEW a \in Actions, NEW on \in BOOLEAN, Wakes!SetsApproval(a, on) PROVE WakesInv'
  <2>1. flags' \in SUBSET Actions /\ UNCHANGED <<now, task, st, wakePast>>
    BY <1>0, <1>11 DEF Wakes!SetsApproval
  <2> QED BY <2>1 DEF WakesInv, WakesTypes, Begun, Founded, Spaced, Wakes!Valid, Wakes!LeaveAsAgreed
<1>12. CASE Wakes!Tick
  <2>1. now' = now + 1 /\ now < MaxTime /\ UNCHANGED <<task, flags, st, wakePast>>
    BY <1>12 DEF Wakes!Tick
  <2>2. now \in Nat /\ now' \in 0 .. MaxTime /\ st.now \in Nat /\ wakePast.done \in Nat \cup {-1}
    BY <1>0, <2>1, WakeNumbers DEF StType, WakePastType
  <2>3. Begun'
    BY <2>1, <2>2 DEF WakesInv, Begun
  <2>4. \A w \in task.next : w.at \in Nat
    BY <1>0 DEF TaskType, WakeUps
  <2>5. Spaced'
    BY <2>1, <2>2, <2>4, WakeNumbers DEF WakesInv, Spaced
  <2> QED BY <2>1, <2>2, <2>3, <2>5 DEF WakesInv, WakesTypes, Founded, Wakes!Valid, Wakes!LeaveAsAgreed
<1>13. CASE UNCHANGED Wakes!vars
  BY <1>13 DEF Wakes!vars, WakesInv, WakesTypes, Begun, Founded, Spaced, Wakes!Valid, Wakes!LeaveAsAgreed
<1> QED
  BY <1>1, <1>2, <1>3, <1>4, <1>5, <1>6, <1>7, <1>8, <1>9, <1>10, <1>11, <1>12, <1>13 DEF Wakes!Next, Wakes!Planning

(***************************************************************************)
(* Wakes: the theorems.                                                    *)
(***************************************************************************)
LEMMA WakesInvariance == Spec => []WakesInv
<1>1. Init => WakesInv
  BY WakesInit DEF Init
<1>2. WakesInv /\ [Next]_vars => WakesInv'
  <2> SUFFICES ASSUME WakesInv, [Next]_vars PROVE WakesInv'
    OBVIOUS
  <2>1. [Wakes!Next]_(Wakes!vars)
    BY DEF Next, vars, wakesVars, Wakes!vars
  <2> QED BY <2>1, WakesStep
<1> QED BY <1>1, <1>2, PTL DEF Spec

\* What is kept is in sight, no moment has the job done twice, and a task changes what was agreed to (wake_plan.go, task_plan.go).
THEOREM WakesHold == Spec => []WakeInv
<1>1. WakesInv => WakeInv
  <2> SUFFICES ASSUME WakesInv PROVE Wakes!WakeInv
    BY DEF WakeInv
  <2>1. Cardinality(task.next) <= 1
    <3>1. CASE task.next = {}
      BY <3>1, FS_EmptySet
    <3>2. CASE task.next # {}
      <4>1. PICK w \in task.next : TRUE
        BY <3>2
      <4>2. task.next = {w}
        BY <4>1 DEF WakesInv, OneAtMost
      <4> QED BY <4>2, FS_Singleton
    <3> QED BY <3>1, <3>2
  <2>2. Wakes!TypeOK
    <3>1. now \in 0 .. MaxTime /\ task \in TaskType /\ flags \subseteq Actions /\ st \in StType
      BY DEF WakesInv, WakesTypes
    <3>2. task.leave \subseteq Actions
      BY <3>1 DEF TaskType
    <3>3. st.step \in {"idle", "planning", "ended"} /\ st.sets \in 0 .. MaxSets
      BY <3>1 DEF StType
    <3>4. now \in 0 .. MaxTime /\ flags \subseteq Actions
      BY <3>1
    <3> QED BY <2>1, <3>2, <3>3, <3>4, SameCount DEF Wakes!TypeOK
  <2>3. Wakes!InSight /\ Wakes!OncePerMoment /\ Wakes!LeaveAsAgreed
    BY DEF WakesInv, Spaced, Wakes!InSight, Wakes!OncePerMoment
  <2> QED BY <2>2, <2>3 DEF Wakes!WakeInv
<1> QED BY <1>1, WakesInvariance, PTL

\* The job is done on the wake-up that was kept for doing it, after a look-up that worked (mayActNow, confirm_moment).
THEOREM DoneAsMeant == Spec => DoneWhenMeant
<1> DEFINE Meant == /\ st.step = "ended" /\ wakePast'.done # wakePast.done =>
                          /\ wakePast.worked
                          /\ \E w \in task.next : w.kind = "act" /\ st.now - w.at \in 0..LateWake
                    /\ task'.next \notin {{}, task.next} => wakePast.worked
<1>1. WakesInv /\ [Next]_vars => [Meant]_(Wakes!vars)
  <2> SUFFICES ASSUME WakesInv, [Next]_vars, ~UNCHANGED Wakes!vars PROVE Meant
    OBVIOUS
  <2>1. Wakes!Next
    BY DEF Next, vars, wakesVars, Wakes!vars
  <2>2. task \in TaskType /\ wakePast \in WakePastType
    BY DEF WakesInv, WakesTypes
  <2>3. CASE Wakes!Returns
    <3>1. ASSUME st.plan # {} PROVE wakePast.worked
      BY <3>1 DEF WakesInv, Founded
    <3>2. ASSUME wakePast'.done # wakePast.done PROVE st.doNow /\ Wakes!MayActNow
      BY <2>2, <2>3, <3>2 DEF Wakes!Returns, WakePastType
    <3>3. ASSUME wakePast'.done # wakePast.done
          PROVE  wakePast.worked /\ \E w \in task.next : w.kind = "act" /\ st.now - w.at \in 0..LateWake
      <4>1. st.step # "idle" /\ wakePast.worked
        BY <2>3, <3>2, <3>3 DEF Wakes!Returns, WakesInv, Founded
      <4> QED BY <3>2, <3>3, <4>1, DoneInTime
    <3>4. ASSUME task'.next \notin {{}, task.next} PROVE st.plan # {}
      BY <2>2, <2>3, <3>4 DEF Wakes!Returns, TaskType
    <3> QED BY <3>1, <3>3, <3>4
  <2>4. CASE ~Wakes!Returns
    <3>1. task'.next = task.next
      BY <2>1, <2>2, <2>4 DEF TaskType, Wakes!Next, Wakes!Planning, Wakes!Unconnected, Wakes!ConfirmMoment, Wakes!CannotPlan,
        Wakes!LoopEnds, Wakes!LoopFails, Wakes!PlanWake, Wakes!LooksUp, Wakes!SetNextWake, Wakes!PlanTaskChanges,
        Wakes!SetsApproval, Wakes!Tick
    <3>2. wakePast'.done = wakePast.done
      BY <2>1, <2>2, <2>4 DEF WakePastType, Wakes!Next, Wakes!Planning, Wakes!Unconnected, Wakes!ConfirmMoment, Wakes!CannotPlan,
        Wakes!LoopEnds, Wakes!LoopFails, Wakes!PlanWake, Wakes!LooksUp, Wakes!SetNextWake, Wakes!PlanTaskChanges,
        Wakes!SetsApproval, Wakes!Tick
    <3> QED BY <3>1, <3>2
  <2> QED BY <2>3, <2>4
<1>2. [][Meant]_(Wakes!vars) => DoneWhenMeant
  BY DEF DoneWhenMeant, Wakes!DoneWhenMeant
<1>3. Spec => [][Next]_vars
  BY DEF Spec
<1> HIDE DEF Meant
<1> QED BY <1>1, <1>2, <1>3, WakesInvariance, PTL

(***************************************************************************)
(* Choices: the inductive invariant.                                       *)
(*                                                                         *)
(* The sentence of a choice is in one place from the moment its row is     *)
(* chosen: with the tap that chose it, in the line, in hand, or heard.  So  *)
(* is what a person wrote, by the place it was written in.                 *)
(***************************************************************************)
Props == Choice!Props
Msgs == Choice!Message
TapType == [prop : Props, choice : Buttons, step : {"choose", "show", "say"}]

ChoiceTypes ==
  /\ elsewhere \in BOOLEAN
  /\ state \in [Props -> {"none", "open", "chosen", "closed"}]
  /\ pick \in [Props -> Buttons \cup {Choice!None}]
  /\ \A p \in Props : pick[p] # Choice!None <=> state[p] = "chosen"
  /\ look \in [Props -> {"none", "buttons", "chosen", "expired", "plain"}]
  /\ line \in Seq(Msgs) /\ heard \in Seq(Msgs)
  /\ step \in {"idle", "choose", "retire", "close", "turn", "attach"}
  /\ msg \in Msgs \cup {Choice!Nothing} /\ before \in SUBSET Props /\ found \in Props \cup {Choice!None}
  /\ taps \in SUBSET TapType /\ removing \in SUBSET Props
  /\ typed \in 0 .. MaxTyped /\ tapped \in 0 .. MaxTaps

\* The message the line's worker has, until the agent has heard it.
InHand == step \notin {"idle", "attach"}
IsSay(m, p) == m.kind = "say" /\ m.prop = p
Held(p) == InHand /\ IsSay(msg, p)
OnLine(p) == \E i \in DOMAIN line : IsSay(line[i], p)
Heard(p) == \E i \in DOMAIN heard : IsSay(heard[i], p)
UnderWay(p) == {t \in taps : t.prop = p /\ t.step # "choose"}

Placed(p) ==
  /\ \A i, j \in DOMAIN line : IsSay(line[i], p) /\ IsSay(line[j], p) => i = j
  /\ \A i, j \in DOMAIN heard : IsSay(heard[i], p) /\ IsSay(heard[j], p) => i = j
  /\ \A t, u \in UnderWay(p) : t = u
  /\ OnLine(p) => ~Heard(p) /\ ~Held(p) /\ UnderWay(p) = {}
  /\ Heard(p) => ~Held(p) /\ UnderWay(p) = {}
  /\ Held(p) => UnderWay(p) = {}
  /\ state[p] = "chosen" <=> OnLine(p) \/ Heard(p) \/ Held(p) \/ UnderWay(p) # {}

\* It is the sentence of the choice that the row keeps.
AsPicked ==
  /\ \A i \in DOMAIN line : line[i].kind = "say" => line[i].choice = pick[line[i].prop]
  /\ \A i \in DOMAIN heard : heard[i].kind = "say" => heard[i].choice = pick[heard[i].prop]
  /\ InHand /\ msg.kind = "say" => msg.choice = pick[msg.prop]
  /\ \A t \in taps : t.step # "choose" => t.choice = pick[t.prop]

\* Of what was written in one place there is one message: in the line, in hand or heard.
Written ==
  /\ \A i, j \in DOMAIN line : line[i].at = line[j].at /\ line[i].at # 0 => i = j
  /\ \A i, j \in DOMAIN heard : heard[i].at = heard[j].at /\ heard[i].at # 0 => i = j
  /\ \A i \in DOMAIN line, j \in DOMAIN heard : line[i].at = heard[j].at => line[i].at = 0
  /\ InHand /\ msg.at # 0 => /\ \A i \in DOMAIN line : line[i].at # msg.at
                             /\ \A i \in DOMAIN heard : heard[i].at # msg.at
  /\ \A i \in DOMAIN line : line[i].at <= typed
  /\ \A i \in DOMAIN heard : heard[i].at <= typed
  /\ InHand => msg.at <= typed

\* What the line's worker is doing it does to something.
Doing ==
  /\ InHand => msg \in Msgs
  /\ step = "choose" => found \in Props /\ msg.kind = "label"
  /\ step \in {"close", "attach"} => found \in Props

\* Where all choices come with replies, one message's are open at a time, and no new ones while words are on their way.
Ended ==
  ~elsewhere =>
    /\ \A p, q \in Choice!Open : p = q
    /\ step \in {"choose", "retire", "close"} => Choice!Open \subseteq before
    /\ step = "close" => Choice!Open \subseteq {found}
    /\ step = "turn" => Choice!Open = {}

ChoicesInv ==
  /\ ChoiceTypes
  /\ \A p \in Props : Placed(p)
  /\ AsPicked /\ Written /\ Doing /\ Ended

(***************************************************************************)
(* Choices: messages, sequences and rows.                                  *)
(***************************************************************************)
LEMMA ChoiceNumbers ==
  /\ MaxProposals \in Nat /\ MaxTyped \in Nat /\ MaxTaps \in Nat
  /\ Choice!None = 0 /\ 0 \notin Buttons /\ 0 \notin Props /\ Props \in SUBSET Nat
BY TurnsConstants DEF Choice!ProposalsConstants, Choice!None, Props, Choice!Props

LEMMA MsgFields ==
  ASSUME NEW m \in Msgs
  PROVE  /\ m.at \in 0 .. MaxTyped
         /\ m.kind \in {"words", "label", "say"}
         /\ m.kind # "words" => m.prop \in Props /\ m.choice \in Buttons
<1>1. CASE m \in [kind : {"words"}, at : 1 .. MaxTyped, prop : {Choice!None}, choice : {Choice!None}]
  BY <1>1
<1>2. CASE m \in [kind : {"label"}, at : 1 .. MaxTyped, prop : Props, choice : Buttons]
  BY <1>2
<1>3. CASE m \in [kind : {"say"}, at : 0 .. MaxTyped, prop : Props, choice : Buttons]
  BY <1>3
<1> QED BY <1>1, <1>2, <1>3 DEF Msgs, Choice!Message, Props

LEMMA Sentences ==
  ASSUME NEW p \in Props, NEW i \in Buttons, NEW at \in 0 .. MaxTyped
  PROVE  /\ Choice!Say(p, i, at) \in Msgs
         /\ Choice!Say(p, i, at).kind = "say" /\ Choice!Say(p, i, at).prop = p
         /\ Choice!Say(p, i, at).choice = i /\ Choice!Say(p, i, at).at = at
BY DEF Msgs, Choice!Message, Choice!Say, Props

\* At the end of a sequence there is one more.
LEMMA Appends ==
  ASSUME NEW M, NEW s \in Seq(M), NEW m \in M
  PROVE  /\ Append(s, m) \in Seq(M)
         /\ \E n : /\ n \notin DOMAIN s /\ DOMAIN Append(s, m) = DOMAIN s \cup {n}
                   /\ Append(s, m)[n] = m /\ \A i \in DOMAIN s : Append(s, m)[i] = s[i]
<1>1. Append(s, m) \in Seq(M) /\ Len(Append(s, m)) = Len(s) + 1 /\ Len(s) \in Nat
  OBVIOUS
<1>2. DOMAIN s = 1 .. Len(s) /\ DOMAIN Append(s, m) = 1 .. (Len(s) + 1)
  BY <1>1
<1>3. Append(s, m)[Len(s) + 1] = m /\ \A i \in DOMAIN s : Append(s, m)[i] = s[i]
  BY <1>1, <1>2
<1>4. Len(s) + 1 \notin DOMAIN s /\ DOMAIN Append(s, m) = DOMAIN s \cup {Len(s) + 1}
  BY <1>1, <1>2
<1> QED BY <1>1, <1>3, <1>4

\* Without its first, what was behind it is one place further on.
LEMMA Advances ==
  ASSUME NEW M, NEW s \in Seq(M), s # <<>>
  PROVE  /\ Tail(s) \in Seq(M) /\ 1 \in DOMAIN s /\ Head(s) = s[1] /\ Head(s) \in M
         /\ \A i \in DOMAIN Tail(s) : i + 1 \in DOMAIN s /\ i + 1 # 1 /\ i \in Nat /\ Tail(s)[i] = s[i + 1]
         /\ \A j \in DOMAIN s : j = 1 \/ (j - 1 \in DOMAIN Tail(s) /\ Tail(s)[j - 1] = s[j])
<1>1. Tail(s) \in Seq(M) /\ Len(Tail(s)) = Len(s) - 1 /\ Len(s) \in Nat \ {0}
  OBVIOUS
<1>2. DOMAIN s = 1 .. Len(s) /\ DOMAIN Tail(s) = 1 .. (Len(s) - 1)
  BY <1>1
<1>3. \A i \in 1 .. (Len(s) - 1) : Tail(s)[i] = s[i + 1]
  BY <1>1
<1>4. 1 \in DOMAIN s /\ Head(s) = s[1] /\ Head(s) \in M
  BY <1>1, <1>2
<1>5. \A i \in DOMAIN Tail(s) : i + 1 \in DOMAIN s /\ i + 1 # 1 /\ i \in Nat /\ Tail(s)[i] = s[i + 1]
  BY <1>1, <1>2, <1>3
<1>6. ASSUME NEW j \in DOMAIN s, j # 1 PROVE j - 1 \in DOMAIN Tail(s) /\ Tail(s)[j - 1] = s[j]
  <2>1. j \in Nat /\ j - 1 \in 1 .. (Len(s) - 1) /\ (j - 1) + 1 = j
    BY <1>1, <1>2, <1>6
  <2> QED BY <1>2, <1>3, <2>1
<1> QED BY <1>1, <1>4, <1>5, <1>6

\* Of the open ones there is a latest.
LEMMA LatestOpen ==
  /\ Choice!Latest \in Props \cup {Choice!None}
  /\ Choice!Latest = Choice!None <=> Choice!Open = {}
  /\ Choice!Open # {} => Choice!Latest \in Choice!Open
<1>1. Choice!Open \in SUBSET Props
  BY DEF Choice!Open, Props
<1>2. CASE Choice!Open = {}
  BY <1>2 DEF Choice!Latest
<1>3. CASE Choice!Open # {}
  <2> DEFINE S == {MaxProposals - p : p \in Choice!Open}
  <2>1. S \in SUBSET Nat /\ S # {}
    BY <1>1, <1>3, ChoiceNumbers DEF Props, Choice!Props
  <2>2. PICK x \in S : \A y \in S : ~(<<y, x>> \in OpToRel(<, Nat))
    BY <2>1, NatLessThanWellFounded, WFMin
  <2>3. PICK p \in Choice!Open : x = MaxProposals - p
    BY <2>2
  <2>4. ASSUME NEW q \in Choice!Open PROVE q <= p
    <3>1. MaxProposals - q \in S /\ MaxProposals - q \in Nat /\ x \in Nat /\ p \in Nat /\ q \in Nat
      BY <1>1, <2>1, <2>2, ChoiceNumbers DEF Props, Choice!Props
    <3>2. ~(MaxProposals - q < x)
      BY <2>2, <3>1 DEF OpToRel
    <3> QED BY <2>3, <3>1, <3>2, ChoiceNumbers
  <2>5. Choice!Latest \in Choice!Open
    BY <1>3, <2>4 DEF Choice!Latest
  <2> QED BY <1>1, <1>3, <2>5, ChoiceNumbers
<1> QED BY <1>2, <1>3

\* An open row is chosen, any other is left as it is.
LEMMA Chooses ==
  ASSUME ChoiceTypes, NEW p \in Props, NEW i \in Buttons, Choice!Choose(p, i)
  PROVE  \/ /\ state[p] = "open" /\ Choice!Chose(p)
            /\ state' = [state EXCEPT ![p] = "chosen"] /\ pick' = [pick EXCEPT ![p] = i]
         \/ state[p] # "open" /\ ~Choice!Chose(p) /\ UNCHANGED <<state, pick>>
<1>1. CASE state[p] = "open"
  <2>1. state' = [state EXCEPT ![p] = "chosen"] /\ pick' = [pick EXCEPT ![p] = i]
    BY <1>1 DEF Choice!Choose
  <2>2. state'[p] # state[p]
    BY <1>1, <2>1 DEF ChoiceTypes
  <2> QED BY <1>1, <2>1, <2>2 DEF Choice!Chose, Choice!rows
<1>2. CASE state[p] # "open"
  BY <1>2 DEF Choice!Choose, Choice!Chose, Choice!rows
<1> QED BY <1>1, <1>2

LEMMA ChoicesInit == Choice!Init => ChoicesInv
<1> SUFFICES ASSUME Choice!Init PROVE ChoicesInv
  OBVIOUS
<1>1. /\ elsewhere \in BOOLEAN /\ line = <<>> /\ heard = <<>> /\ step = "idle" /\ msg = Choice!Nothing
      /\ found = Choice!None /\ before = {} /\ taps = {} /\ removing = {} /\ typed = 0 /\ tapped = 0
      /\ state = [p \in Props |-> "none"] /\ pick = [p \in Props |-> Choice!None] /\ look = [p \in Props |-> "none"]
  BY DEF Choice!Init, Props
<1>2. ChoiceTypes
  <2>1. line \in Seq(Msgs) /\ heard \in Seq(Msgs)
    BY <1>1
  <2>2. 0 \in 0 .. MaxTyped /\ 0 \in 0 .. MaxTaps
    BY ChoiceNumbers
  <2>3. \A p \in Props : pick[p] = Choice!None /\ state[p] = "none"
    BY <1>1
  <2> QED BY <1>1, <2>1, <2>2, <2>3 DEF ChoiceTypes
<1>3. DOMAIN line = {} /\ DOMAIN heard = {} /\ ~InHand
  BY <1>1 DEF InHand
<1>4. \A p \in Props : state[p] = "none"
  BY <1>1
<1>5. \A p \in Props : Placed(p)
  BY <1>1, <1>3, <1>4 DEF Placed, Held, OnLine, Heard, UnderWay
<1>6. AsPicked /\ Written
  BY <1>1, <1>3 DEF AsPicked, Written
<1>7. Doing /\ Ended
  BY <1>1, <1>3, <1>4 DEF Doing, Ended, InHand, Choice!Open, Props
<1> QED BY <1>2, <1>5, <1>6, <1>7 DEF ChoicesInv

(***************************************************************************)
(* Choices: what the steps keep.                                           *)
(***************************************************************************)
\* Where the line, what was heard and what is in hand stay as they are.
Still == line' = line /\ heard' = heard /\ msg' = msg /\ (InHand' <=> InHand) /\ typed' = typed

LEMMA StillWritten == ASSUME Written, Still PROVE Written'
BY DEF Written, Still, InHand

LEMMA StillPlaced ==
  ASSUME \A p \in Props : Placed(p), Still, \A p \in Props : UnderWay(p)' = UnderWay(p) /\ (state'[p] = "chosen" <=> state[p] = "chosen")
  PROVE  \A p \in Props : Placed(p)'
<1> SUFFICES ASSUME NEW p \in Props PROVE Placed(p)'
  OBVIOUS
<1>1. OnLine(p)' <=> OnLine(p)
  BY DEF Still, OnLine
<1>2. Heard(p)' <=> Heard(p)
  BY DEF Still, Heard
<1>3. Held(p)' <=> Held(p)
  BY DEF Still, Held
<1> QED BY <1>1, <1>2, <1>3 DEF Placed, Still

LEMMA StillPicked ==
  ASSUME AsPicked, Still, pick' = pick, \A t \in taps' : t.step # "choose" => t \in taps \/ t.choice = pick[t.prop]
  PROVE  AsPicked'
BY DEF AsPicked, Still

LEMMA EndedShrinks ==
  ASSUME Ended, elsewhere' = elsewhere, step' = step, before' = before, found' = found,
         \A p \in Props : state'[p] = "open" => state[p] = "open"
  PROVE  Ended'
<1>1. (Choice!Open)' \subseteq Choice!Open
  BY DEF Choice!Open, Props
<1> QED BY <1>1 DEF Ended

\* What is new was not offered before.
LEMMA NewRows == ASSUME ChoiceTypes, NEW p \in Choice!New PROVE p \in Props /\ state[p] = "none"
BY DEF Choice!New, Props

\* A row that was not chosen has no sentence anywhere.
LEMMA Nowhere ==
  ASSUME NEW p \in Props, Placed(p), state[p] # "chosen"
  PROVE  /\ \A i \in DOMAIN line : ~IsSay(line[i], p)
         /\ \A i \in DOMAIN heard : ~IsSay(heard[i], p)
         /\ ~Held(p) /\ UnderWay(p) = {}
BY DEF Placed, OnLine, Heard

LEMMA ExpireKeeps ==
  ASSUME ChoicesInv, NEW p \in Props, Choice!Expire(p)
  PROVE  ChoicesInv'
<1>1. /\ state[p] = "open" /\ state' = [state EXCEPT ![p] = "closed"] /\ pick' = pick
      /\ UNCHANGED <<elsewhere, look, line, step, msg, found, before, taps, removing, typed, tapped, heard>>
  BY DEF Choice!Expire, Choice!Close, Choice!here, Choice!hands
<1>2. \A q \in Props : state'[q] = IF q = p THEN "closed" ELSE state[q]
  BY <1>1 DEF ChoicesInv, ChoiceTypes
<1>3. ChoiceTypes'
  <2>1. state' \in [Props -> {"none", "open", "chosen", "closed"}]
    BY <1>1 DEF ChoicesInv, ChoiceTypes
  <2> QED BY <1>1, <1>2, <2>1 DEF ChoicesInv, ChoiceTypes
<1>4. Still
  BY <1>1 DEF Still, InHand
<1>5. \A q \in Props : UnderWay(q)' = UnderWay(q) /\ (state'[q] = "chosen" <=> state[q] = "chosen")
  BY <1>1, <1>2 DEF UnderWay
<1>6. Ended'
  BY <1>1, <1>2, EndedShrinks DEF ChoicesInv
<1>7. Doing'
  BY <1>1 DEF ChoicesInv, Doing, InHand
<1> QED BY <1>1, <1>3, <1>4, <1>5, <1>6, <1>7, StillWritten, StillPlaced, StillPicked DEF ChoicesInv

LEMMA OfferKeeps ==
  ASSUME ChoicesInv, NEW p \in Props, Choice!Offer(p)
  PROVE  ChoicesInv'
<1>1. /\ elsewhere /\ state[p] = "none" /\ state' = [state EXCEPT ![p] = "open"] /\ pick' = pick
      /\ look' = [look EXCEPT ![p] = "buttons"]
      /\ UNCHANGED <<elsewhere, line, step, msg, found, before, taps, removing, typed, tapped, heard>>
  BY NewRows DEF ChoicesInv, Choice!Offer, Choice!here, Choice!hands
<1>2. \A q \in Props : state'[q] = IF q = p THEN "open" ELSE state[q]
  BY <1>1 DEF ChoicesInv, ChoiceTypes
<1>3. ChoiceTypes'
  <2>1. /\ state' \in [Props -> {"none", "open", "chosen", "closed"}]
        /\ look' \in [Props -> {"none", "buttons", "chosen", "expired", "plain"}]
    BY <1>1 DEF ChoicesInv, ChoiceTypes
  <2> QED BY <1>1, <1>2, <2>1 DEF ChoicesInv, ChoiceTypes
<1>4. Still
  BY <1>1 DEF Still, InHand
<1>5. \A q \in Props : UnderWay(q)' = UnderWay(q) /\ (state'[q] = "chosen" <=> state[q] = "chosen")
  BY <1>1, <1>2 DEF UnderWay
<1>6. Ended'
  BY <1>1 DEF Ended
<1>7. Doing'
  BY <1>1 DEF ChoicesInv, Doing, InHand
<1> QED BY <1>1, <1>3, <1>4, <1>5, <1>6, <1>7, StillWritten, StillPlaced, StillPicked DEF ChoicesInv

LEMMA RemoveButtonsKeeps ==
  ASSUME ChoicesInv, NEW p \in Props, Choice!RemoveButtons(p)
  PROVE  ChoicesInv'
<1>1. /\ look' = [look EXCEPT ![p] = "plain"] /\ removing' \subseteq removing
      /\ UNCHANGED <<elsewhere, state, pick, line, step, msg, found, before, taps, typed, tapped, heard>>
  BY DEF Choice!RemoveButtons, Choice!here, Choice!rows
<1>2. ChoiceTypes'
  <2>1. look' \in [Props -> {"none", "buttons", "chosen", "expired", "plain"}]
    BY <1>1 DEF ChoicesInv, ChoiceTypes
  <2> QED BY <1>1, <2>1 DEF ChoicesInv, ChoiceTypes
<1>3. Still
  BY <1>1 DEF Still, InHand
<1>4. \A q \in Props : UnderWay(q)' = UnderWay(q) /\ (state'[q] = "chosen" <=> state[q] = "chosen")
  BY <1>1 DEF UnderWay
<1>5. Ended'
  BY <1>1, EndedShrinks DEF ChoicesInv
<1>6. Doing'
  BY <1>1 DEF ChoicesInv, Doing, InHand
<1> QED BY <1>1, <1>2, <1>3, <1>4, <1>5, <1>6, StillWritten, StillPlaced, StillPicked DEF ChoicesInv

LEMMA TapKeeps ==
  ASSUME ChoicesInv, NEW p \in Props, NEW i \in Buttons, Choice!Tap(p, i)
  PROVE  ChoicesInv'
<1> DEFINE t == [prop |-> p, choice |-> i, step |-> "choose"]
<1>1. /\ tapped < MaxTaps /\ tapped' = tapped + 1 /\ taps' = taps \cup {t}
      /\ UNCHANGED <<elsewhere, state, pick, look, line, step, msg, found, before, removing, typed, heard>>
  BY DEF Choice!Tap, Choice!here, Choice!rows
<1>2. ChoiceTypes'
  <2>1. taps' \in SUBSET TapType
    BY <1>1 DEF ChoicesInv, ChoiceTypes, TapType
  <2>2. tapped' \in 0 .. MaxTaps
    BY <1>1, ChoiceNumbers DEF ChoicesInv, ChoiceTypes
  <2> QED BY <1>1, <2>1, <2>2 DEF ChoicesInv, ChoiceTypes
<1>3. Still
  BY <1>1 DEF Still, InHand
<1>4. \A q \in Props : UnderWay(q)' = UnderWay(q) /\ (state'[q] = "chosen" <=> state[q] = "chosen")
  <2>1. t.step = "choose"
    OBVIOUS
  <2> HIDE DEF t
  <2> QED BY <1>1, <2>1 DEF UnderWay
<1>5. Ended'
  BY <1>1, EndedShrinks DEF ChoicesInv
<1>6. Doing'
  BY <1>1 DEF ChoicesInv, Doing, InHand
<1>7. AsPicked'
  <2>1. t.step = "choose"
    OBVIOUS
  <2> HIDE DEF t
  <2> QED BY <1>1, <1>3, <2>1, StillPicked DEF ChoicesInv
<1> QED BY <1>2, <1>3, <1>4, <1>5, <1>6, <1>7, StillWritten, StillPlaced DEF ChoicesInv

LEMMA RetireLookKeeps ==
  ASSUME ChoicesInv, Choice!RetireLook
  PROVE  ChoicesInv'
<1>1. /\ step = "retire" /\ found' = Choice!Latest /\ step' = IF found' = Choice!None THEN "turn" ELSE "close"
      /\ UNCHANGED <<elsewhere, state, pick, look, line, msg, before, taps, removing, typed, tapped, heard>>
  BY DEF Choice!RetireLook, Choice!rows, Choice!hands
<1>2. ChoiceTypes' /\ step' \in {"turn", "close"}
  BY <1>1, LatestOpen DEF ChoicesInv, ChoiceTypes
<1>3. Still
  BY <1>1 DEF Still, InHand
<1>4. \A q \in Props : UnderWay(q)' = UnderWay(q) /\ (state'[q] = "chosen" <=> state[q] = "chosen")
  BY <1>1 DEF UnderWay
<1>5. Ended'
  <2>1. (Choice!Open)' = Choice!Open
    BY <1>1 DEF Choice!Open
  <2>2. CASE Choice!Open = {}
    BY <1>1, <2>1, <2>2, LatestOpen DEF ChoicesInv, Ended
  <2>3. CASE Choice!Open # {}
    BY <1>1, <2>1, <2>3, LatestOpen DEF ChoicesInv, Ended
  <2> QED BY <2>2, <2>3
<1>6. Doing'
  BY <1>1, <1>2, LatestOpen DEF ChoicesInv, Doing, InHand
<1> QED BY <1>1, <1>2, <1>3, <1>4, <1>5, <1>6, StillWritten, StillPlaced, StillPicked DEF ChoicesInv

LEMMA RetireKeeps ==
  ASSUME ChoicesInv, Choice!Retire
  PROVE  ChoicesInv'
<1>1. /\ step = "close" /\ step' = "turn" /\ removing' = removing \cup {found} /\ found \in Props
      /\ state' = (IF state[found] = "open" THEN [state EXCEPT ![found] = "closed"] ELSE state) /\ pick' = pick
      /\ UNCHANGED <<elsewhere, look, line, msg, found, before, taps, typed, tapped, heard>>
  BY DEF Choice!Retire, Choice!Close, Choice!rows, ChoicesInv, Doing
<1>2. \A q \in Props : state'[q] = IF q = found /\ state[q] = "open" THEN "closed" ELSE state[q]
  BY <1>1 DEF ChoicesInv, ChoiceTypes
<1>3. ChoiceTypes'
  <2>1. state' \in [Props -> {"none", "open", "chosen", "closed"}]
    BY <1>1 DEF ChoicesInv, ChoiceTypes
  <2>2. removing' \in SUBSET Props
    BY <1>1 DEF ChoicesInv, ChoiceTypes
  <2> QED BY <1>1, <1>2, <2>1, <2>2 DEF ChoicesInv, ChoiceTypes
<1>4. Still
  BY <1>1 DEF Still, InHand
<1>5. \A q \in Props : UnderWay(q)' = UnderWay(q) /\ (state'[q] = "chosen" <=> state[q] = "chosen")
  BY <1>1, <1>2 DEF UnderWay
<1>6. Ended'
  <2>1. ~elsewhere => Choice!Open \subseteq {found}
    BY <1>1 DEF ChoicesInv, Ended
  <2>2. ~elsewhere => (Choice!Open)' = {}
    BY <1>2, <2>1 DEF Choice!Open, Props
  <2> QED BY <1>1, <2>2 DEF Ended
<1>7. Doing'
  BY <1>1 DEF ChoicesInv, Doing, InHand
<1> QED BY <1>1, <1>3, <1>4, <1>5, <1>6, <1>7, StillWritten, StillPlaced, StillPicked DEF ChoicesInv

LEMMA AttachKeeps ==
  ASSUME ChoicesInv, Choice!Attach
  PROVE  ChoicesInv'
<1>1. /\ step = "attach" /\ step' = "idle" /\ found \in Props /\ look' = [look EXCEPT ![found] = "buttons"]
      /\ UNCHANGED <<elsewhere, state, pick, line, msg, found, before, taps, removing, typed, tapped, heard>>
  BY DEF Choice!Attach, Choice!rows, Choice!hands, ChoicesInv, Doing
<1>2. ChoiceTypes'
  <2>1. look' \in [Props -> {"none", "buttons", "chosen", "expired", "plain"}]
    BY <1>1 DEF ChoicesInv, ChoiceTypes
  <2> QED BY <1>1, <2>1 DEF ChoicesInv, ChoiceTypes
<1>3. Still
  BY <1>1 DEF Still, InHand
<1>4. \A q \in Props : UnderWay(q)' = UnderWay(q) /\ (state'[q] = "chosen" <=> state[q] = "chosen")
  BY <1>1 DEF UnderWay
<1>5. Ended'
  <2>1. (Choice!Open)' = Choice!Open
    BY <1>1 DEF Choice!Open
  <2> QED BY <1>1, <2>1 DEF ChoicesInv, Ended
<1>6. Doing'
  BY <1>1 DEF Doing, InHand
<1> QED BY <1>1, <1>2, <1>3, <1>4, <1>5, <1>6, StillWritten, StillPlaced, StillPicked DEF ChoicesInv
(***************************************************************************)
(* Choices: a message joins the line.                                      *)
(***************************************************************************)
\* The place in the line of the message that joined it.
Joined(n, m) ==
  /\ n \notin DOMAIN line /\ DOMAIN line' = DOMAIN line \cup {n}
  /\ line'[n] = m /\ \A i \in DOMAIN line : line'[i] = line[i]
  /\ heard' = heard
  /\ InHand' => InHand /\ msg' = msg

LEMMA Joins ==
  ASSUME ChoiceTypes, NEW m \in Msgs, line' = Append(line, m), heard' = heard, InHand' => InHand, msg' = msg
  PROVE  line' \in Seq(Msgs) /\ \E n : Joined(n, m)
<1>1. line \in Seq(Msgs)
  BY DEF ChoiceTypes
<1> QED BY <1>1, Appends DEF Joined

LEMMA JoinedWritten ==
  ASSUME Written, NEW n, NEW m, Joined(n, m), m.at <= typed',
         \A i \in DOMAIN line : line[i].at <= typed', \A i \in DOMAIN heard : heard[i].at <= typed',
         InHand' => msg.at <= typed',
         m.at # 0 => /\ \A i \in DOMAIN line : line[i].at # m.at
                     /\ \A i \in DOMAIN heard : heard[i].at # m.at
                     /\ InHand' => msg.at # m.at
  PROVE  Written'
<1>1. \A i \in DOMAIN line' : i = n \/ i \in DOMAIN line
  BY DEF Joined
<1>2. \A i, j \in DOMAIN line' : line'[i].at = line'[j].at /\ line'[i].at # 0 => i = j
  BY <1>1 DEF Written, Joined
<1>3. \A i \in DOMAIN line', j \in DOMAIN heard' : line'[i].at = heard'[j].at => line'[i].at = 0
  BY <1>1 DEF Written, Joined
<1>4. InHand' /\ msg'.at # 0 => /\ \A i \in DOMAIN line' : line'[i].at # msg'.at
                                /\ \A i \in DOMAIN heard' : heard'[i].at # msg'.at
  BY <1>1 DEF Written, Joined
<1>5. \A i \in DOMAIN line' : line'[i].at <= typed'
  BY <1>1 DEF Written, Joined
<1>6. /\ \A i \in DOMAIN heard' : heard'[i].at <= typed'
      /\ InHand' => msg'.at <= typed'
      /\ \A i, j \in DOMAIN heard' : heard'[i].at = heard'[j].at /\ heard'[i].at # 0 => i = j
  BY DEF Written, Joined
<1> QED BY <1>2, <1>3, <1>4, <1>5, <1>6 DEF Written

LEMMA JoinedPicked ==
  ASSUME AsPicked, NEW n, NEW m, Joined(n, m), m.kind = "say" => m.choice = pick'[m.prop],
         \A i \in DOMAIN line : line[i].kind = "say" => pick'[line[i].prop] = pick[line[i].prop],
         \A i \in DOMAIN heard : heard[i].kind = "say" => pick'[heard[i].prop] = pick[heard[i].prop],
         InHand' /\ msg.kind = "say" => pick'[msg.prop] = pick[msg.prop],
         \A t \in taps' : t.step # "choose" => t.choice = pick'[t.prop]
  PROVE  AsPicked'
<1>1. \A i \in DOMAIN line' : i = n \/ i \in DOMAIN line
  BY DEF Joined
<1>2. \A i \in DOMAIN line' : line'[i].kind = "say" => line'[i].choice = pick'[line'[i].prop]
  BY <1>1 DEF AsPicked, Joined
<1>3. \A i \in DOMAIN heard' : heard'[i].kind = "say" => heard'[i].choice = pick'[heard'[i].prop]
  BY DEF AsPicked, Joined
<1>4. InHand' /\ msg'.kind = "say" => msg'.choice = pick'[msg'.prop]
  BY DEF AsPicked, Joined
<1> QED BY <1>2, <1>3, <1>4 DEF AsPicked

\* For the sentences of a message's choices it was not one of them ...
LEMMA JoinedOthers ==
  ASSUME NEW p \in Props, Placed(p), NEW n, NEW m, Joined(n, m), ~IsSay(m, p), Held(p)' <=> Held(p),
         UnderWay(p)' = UnderWay(p), state'[p] = "chosen" <=> state[p] = "chosen"
  PROVE  Placed(p)'
<1>1. \A i \in DOMAIN line' : IsSay(line'[i], p) => i \in DOMAIN line /\ IsSay(line[i], p)
  BY DEF Joined
<1>2. OnLine(p)' <=> OnLine(p)
  BY <1>1 DEF OnLine, Joined
<1>3. Heard(p)' <=> Heard(p)
  BY DEF Heard, Joined
<1>4. \A i, j \in DOMAIN line' : IsSay(line'[i], p) /\ IsSay(line'[j], p) => i = j
  BY <1>1 DEF Placed
<1>5. \A i, j \in DOMAIN heard' : IsSay(heard'[i], p) /\ IsSay(heard'[j], p) => i = j
  BY DEF Placed, Joined
<1> QED BY <1>2, <1>3, <1>4, <1>5 DEF Placed

\* ... or it is the only one.
LEMMA JoinedAlone ==
  ASSUME NEW p \in Props, NEW n, NEW m, Joined(n, m), IsSay(m, p), state'[p] = "chosen",
         \A i \in DOMAIN line : ~IsSay(line[i], p), \A i \in DOMAIN heard : ~IsSay(heard[i], p),
         ~Held(p)', UnderWay(p)' = {}
  PROVE  Placed(p)'
<1>1. \A i \in DOMAIN line' : IsSay(line'[i], p) => i = n
  BY DEF Joined
<1>2. OnLine(p)' /\ ~Heard(p)'
  BY DEF OnLine, Heard, Joined
<1>3. \A i, j \in DOMAIN line' : IsSay(line'[i], p) /\ IsSay(line'[j], p) => i = j
  BY <1>1
<1>4. \A i, j \in DOMAIN heard' : IsSay(heard'[i], p) /\ IsSay(heard'[j], p) => i = j
  BY DEF Joined
<1> QED BY <1>2, <1>3, <1>4 DEF Placed

LEMMA TypeKeeps ==
  ASSUME ChoicesInv, Choice!Type
  PROVE  ChoicesInv'
<1>1. /\ typed < MaxTyped /\ typed' = typed + 1
      /\ UNCHANGED <<elsewhere, state, pick, look, step, msg, found, before, taps, removing, tapped, heard>>
  BY DEF Choice!Type, Choice!rows, Choice!here, Choice!hands
<1>2. typed' \in 1 .. MaxTyped /\ typed \in Nat
  BY <1>1, ChoiceNumbers DEF ChoicesInv, ChoiceTypes
<1>3. PICK m \in Msgs : line' = Append(line, m) /\ m.kind # "say" /\ m.at = typed'
  <2>1. CASE line' = Append(line, [kind |-> "words", at |-> typed', prop |-> Choice!None, choice |-> Choice!None])
    <3> DEFINE m == [kind |-> "words", at |-> typed', prop |-> Choice!None, choice |-> Choice!None]
    <3>1. m \in Msgs /\ m.kind # "say" /\ m.at = typed'
      BY <1>2 DEF Msgs, Choice!Message
    <3> QED BY <2>1, <3>1
  <2>2. ASSUME NEW p \in Props, NEW i \in Buttons, line' = Append(line, [kind |-> "label", at |-> typed', prop |-> p, choice |-> i])
        PROVE  \E m \in Msgs : line' = Append(line, m) /\ m.kind # "say" /\ m.at = typed'
    <3> DEFINE m == [kind |-> "label", at |-> typed', prop |-> p, choice |-> i]
    <3>1. m \in Msgs /\ m.kind # "say" /\ m.at = typed'
      BY <1>2 DEF Msgs, Choice!Message, Props
    <3> QED BY <2>2, <3>1
  <2> QED BY <2>1, <2>2 DEF Choice!Type, Props
<1>4. line' \in Seq(Msgs) /\ InHand' = InHand
  BY <1>1, <1>3, Joins DEF ChoicesInv, InHand
<1>5. PICK n : Joined(n, m)
  BY <1>1, <1>3, <1>4, Joins DEF ChoicesInv
<1>6. ChoiceTypes'
  <2>1. typed' \in 0 .. MaxTyped
    BY <1>2
  <2> QED BY <1>1, <1>4, <2>1 DEF ChoicesInv, ChoiceTypes
<1>7. \A p \in Props : Placed(p)'
  BY <1>1, <1>3, <1>4, <1>5, JoinedOthers DEF ChoicesInv, IsSay, Held, UnderWay
<1>8. AsPicked'
  BY <1>1, <1>3, <1>5, JoinedPicked DEF ChoicesInv, AsPicked
<1>9. Written'
  <2>1. /\ \A i \in DOMAIN line : line[i].at \in Nat /\ line[i].at <= typed
        /\ \A i \in DOMAIN heard : heard[i].at \in Nat /\ heard[i].at <= typed
    <3>1. /\ \A i \in DOMAIN line : line[i] \in Msgs
          /\ \A i \in DOMAIN heard : heard[i] \in Msgs
      BY DEF ChoicesInv, ChoiceTypes
    <3> QED BY <3>1, MsgFields DEF ChoicesInv, Written
  <2>2. InHand => msg.at \in Nat /\ msg.at <= typed
    BY MsgFields DEF ChoicesInv, Doing, Written
  <2>3. /\ \A i \in DOMAIN line : line[i].at # m.at
        /\ \A i \in DOMAIN heard : heard[i].at # m.at
        /\ InHand => msg.at # m.at
    BY <1>1, <1>2, <1>3, <2>1, <2>2
  <2>4. /\ \A i \in DOMAIN line : line[i].at <= typed'
        /\ \A i \in DOMAIN heard : heard[i].at <= typed'
        /\ InHand => msg.at <= typed'
    BY <1>1, <1>2, <2>1, <2>2
  <2>5. Written /\ m.at <= typed'
    BY <1>2, <1>3 DEF ChoicesInv
  <2> QED BY <1>4, <1>5, <2>3, <2>4, <2>5, JoinedWritten
<1>10. Ended'
  BY <1>1, EndedShrinks DEF ChoicesInv
<1>11. Doing'
  BY <1>1 DEF ChoicesInv, Doing, InHand
<1> QED BY <1>6, <1>7, <1>8, <1>9, <1>10, <1>11 DEF ChoicesInv

(***************************************************************************)
(* Choices: the line's worker.                                             *)
(***************************************************************************)
LEMMA TakeKeeps ==
  ASSUME ChoicesInv, Choice!Take
  PROVE  ChoicesInv'
<1>1. /\ step = "idle" /\ line # <<>> /\ msg' = Head(line) /\ line' = Tail(line)
      /\ found' = Choice!Latest /\ before' = Choice!Open
      /\ step' = IF msg'.kind = "label" /\ found' = msg'.prop THEN "choose" ELSE "retire"
      /\ UNCHANGED <<elsewhere, state, pick, look, taps, removing, typed, tapped, heard>>
  BY DEF Choice!Take, Choice!rows, Choice!hands
<1>2. ~InHand /\ InHand' /\ step' \in {"choose", "retire"}
  BY <1>1 DEF InHand
<1>3. /\ line' \in Seq(Msgs) /\ msg' \in Msgs /\ 1 \in DOMAIN line /\ msg' = line[1]
      /\ \A i \in DOMAIN line' : i + 1 \in DOMAIN line /\ i + 1 # 1 /\ i \in Nat /\ line'[i] = line[i + 1]
      /\ \A j \in DOMAIN line : j = 1 \/ (j - 1 \in DOMAIN line' /\ line'[j - 1] = line[j])
  BY <1>1, Advances DEF ChoicesInv, ChoiceTypes
<1>4. ChoiceTypes'
  <2>1. Choice!Open \in SUBSET Props /\ found' \in Props \cup {Choice!None}
    BY <1>1, LatestOpen DEF Choice!Open, Props
  <2> QED BY <1>1, <1>2, <1>3, <2>1 DEF ChoicesInv, ChoiceTypes
<1>5. ASSUME NEW p \in Props PROVE Placed(p)'
  <2>1. Heard(p)' <=> Heard(p)
    BY <1>1 DEF Heard
  <2>2. UnderWay(p)' = UnderWay(p) /\ ~Held(p)
    BY <1>1, <1>2 DEF UnderWay, Held
  <2>3. OnLine(p) <=> OnLine(p)' \/ Held(p)'
    BY <1>2, <1>3 DEF OnLine, Held
  <2>4. Placed(p)
    BY DEF ChoicesInv
  <2>5. \A i, j \in DOMAIN line' : IsSay(line'[i], p) /\ IsSay(line'[j], p) => i = j
    <3> SUFFICES ASSUME NEW i \in DOMAIN line', NEW j \in DOMAIN line', IsSay(line'[i], p), IsSay(line'[j], p) PROVE i = j
      OBVIOUS
    <3>1. i + 1 = j + 1
      BY <1>3, <2>4 DEF Placed
    <3> QED BY <1>3, <3>1
  <2>6. OnLine(p)' => ~Held(p)'
    BY <1>3, <2>4 DEF OnLine, Held, Placed
  <2>7. \A i, j \in DOMAIN heard' : IsSay(heard'[i], p) /\ IsSay(heard'[j], p) => i = j
    BY <1>1, <2>4 DEF Placed
  <2>8. state'[p] = state[p]
    BY <1>1
  <2> QED BY <2>1, <2>2, <2>3, <2>4, <2>5, <2>6, <2>7, <2>8 DEF Placed
<1>6. AsPicked'
  BY <1>1, <1>3 DEF ChoicesInv, AsPicked
<1>7. Written'
  <2>1. Written
    BY DEF ChoicesInv
  <2>2. \A i, j \in DOMAIN line' : line'[i].at = line'[j].at /\ line'[i].at # 0 => i = j
    <3> SUFFICES ASSUME NEW i \in DOMAIN line', NEW j \in DOMAIN line', line'[i].at = line'[j].at, line'[i].at # 0 PROVE i = j
      OBVIOUS
    <3>1. i + 1 = j + 1
      BY <1>3, <2>1 DEF Written
    <3> QED BY <1>3, <3>1
  <2>3. \A i \in DOMAIN line', j \in DOMAIN heard' : line'[i].at = heard'[j].at => line'[i].at = 0
    BY <1>1, <1>3, <2>1 DEF Written
  <2>4. msg'.at # 0 => /\ \A i \in DOMAIN line' : line'[i].at # msg'.at
                       /\ \A i \in DOMAIN heard' : heard'[i].at # msg'.at
    BY <1>1, <1>3, <2>1 DEF Written
  <2>5. (\A i \in DOMAIN line' : line'[i].at <= typed') /\ msg'.at <= typed'
    BY <1>1, <1>3, <2>1 DEF Written
  <2> QED BY <1>1, <2>1, <2>2, <2>3, <2>4, <2>5 DEF Written
<1>8. Doing'
  <2>1. step' = "choose" => msg'.kind = "label" /\ found' = msg'.prop
    BY <1>1
  <2> QED BY <1>2, <1>3, <2>1, MsgFields DEF Doing
<1>9. Ended'
  <2>1. (Choice!Open)' = Choice!Open
    BY <1>1 DEF Choice!Open
  <2> QED BY <1>1, <1>2, <2>1 DEF ChoicesInv, Ended
<1> QED BY <1>4, <1>5, <1>6, <1>7, <1>8, <1>9 DEF ChoicesInv

\* A row is chosen: what has no sentence yet is picked.
LEMMA Chosen ==
  ASSUME ChoicesInv, NEW p \in Props, NEW i \in Buttons, state[p] = "open",
         state' = [state EXCEPT ![p] = "chosen"], pick' = [pick EXCEPT ![p] = i]
  PROVE  /\ state' \in [Props -> {"none", "open", "chosen", "closed"}]
         /\ pick' \in [Props -> Buttons \cup {Choice!None}]
         /\ \A q \in Props : pick'[q] # Choice!None <=> state'[q] = "chosen"
         /\ \A q \in Props \ {p} : state'[q] = state[q] /\ pick'[q] = pick[q]
         /\ state'[p] = "chosen" /\ pick'[p] = i
         /\ \A j \in DOMAIN line : ~IsSay(line[j], p)
         /\ \A j \in DOMAIN heard : ~IsSay(heard[j], p)
         /\ ~Held(p) /\ UnderWay(p) = {}
         /\ \A j \in DOMAIN line : line[j].kind = "say" => pick'[line[j].prop] = pick[line[j].prop]
         /\ \A j \in DOMAIN heard : heard[j].kind = "say" => pick'[heard[j].prop] = pick[heard[j].prop]
         /\ InHand /\ msg.kind = "say" => pick'[msg.prop] = pick[msg.prop]
         /\ \A t \in taps : t.step # "choose" => t.choice = pick'[t.prop]
<1>1. /\ state' \in [Props -> {"none", "open", "chosen", "closed"}]
      /\ pick' \in [Props -> Buttons \cup {Choice!None}]
      /\ \A q \in Props \ {p} : state'[q] = state[q] /\ pick'[q] = pick[q]
      /\ state'[p] = "chosen" /\ pick'[p] = i
  BY DEF ChoicesInv, ChoiceTypes
<1>2. \A q \in Props : pick'[q] # Choice!None <=> state'[q] = "chosen"
  BY <1>1, ChoiceNumbers DEF ChoicesInv, ChoiceTypes
<1>3. /\ \A j \in DOMAIN line : ~IsSay(line[j], p)
      /\ \A j \in DOMAIN heard : ~IsSay(heard[j], p)
      /\ ~Held(p) /\ UnderWay(p) = {}
  BY Nowhere DEF ChoicesInv
<1>4. /\ \A j \in DOMAIN line : line[j] \in Msgs
      /\ \A j \in DOMAIN heard : heard[j] \in Msgs
      /\ InHand => msg \in Msgs
      /\ \A t \in taps : t.prop \in Props
  BY DEF ChoicesInv, ChoiceTypes, Doing, TapType
<1>5. \A j \in DOMAIN line : line[j].kind = "say" => pick'[line[j].prop] = pick[line[j].prop]
  BY <1>1, <1>3, <1>4, MsgFields DEF IsSay
<1>6. \A j \in DOMAIN heard : heard[j].kind = "say" => pick'[heard[j].prop] = pick[heard[j].prop]
  BY <1>1, <1>3, <1>4, MsgFields DEF IsSay
<1>7. InHand /\ msg.kind = "say" => pick'[msg.prop] = pick[msg.prop]
  BY <1>1, <1>3, <1>4, MsgFields DEF IsSay, Held
<1>8. \A t \in taps : t.step # "choose" => t.choice = pick'[t.prop]
  BY <1>1, <1>3, <1>4 DEF UnderWay, ChoicesInv, AsPicked
<1> QED BY <1>1, <1>2, <1>3, <1>5, <1>6, <1>7, <1>8

LEMMA ChooseTypedKeeps ==
  ASSUME ChoicesInv, Choice!ChooseTyped
  PROVE  ChoicesInv'
<1> DEFINE m == Choice!Say(found, msg.choice, msg.at)
<1>1. /\ step = "choose" /\ Choice!Choose(found, msg.choice)
      /\ UNCHANGED <<elsewhere, look, msg, found, before, taps, removing, typed, tapped, heard>>
  BY DEF Choice!ChooseTyped, Choice!hands
<1>2. InHand /\ found \in Props /\ msg \in Msgs /\ msg.kind = "label" /\ msg.choice \in Buttons /\ msg.at \in 0 .. MaxTyped
  BY <1>1, MsgFields DEF InHand, ChoicesInv, Doing
<1>3. \A p \in Props : UnderWay(p)' = UnderWay(p) /\ ~Held(p)
  BY <1>1, <1>2 DEF UnderWay, Held, IsSay
<1>4. CASE Choice!Chose(found)
  <2>1. /\ state[found] = "open" /\ step' = "idle" /\ line' = Append(line, m)
        /\ state' = [state EXCEPT ![found] = "chosen"] /\ pick' = [pick EXCEPT ![found] = msg.choice]
    BY <1>1, <1>2, <1>4, Chooses DEF Choice!ChooseTyped, ChoicesInv
  <2>2. m \in Msgs /\ m.kind = "say" /\ m.prop = found /\ m.choice = msg.choice /\ m.at = msg.at
    BY <1>2, Sentences
  <2> HIDE DEF m
  <2>3. ~InHand' /\ \A p \in Props : ~Held(p)'
    BY <2>1 DEF InHand, Held
  <2>4. PICK n : Joined(n, m)
    BY <1>1, <2>1, <2>2, <2>3, Joins DEF ChoicesInv
  <2>5. ChoiceTypes'
    <3>1. /\ state' \in [Props -> {"none", "open", "chosen", "closed"}]
          /\ pick' \in [Props -> Buttons \cup {Choice!None}]
          /\ \A q \in Props : pick'[q] # Choice!None <=> state'[q] = "chosen"
      BY <1>2, <2>1, Chosen
    <3>2. line' \in Seq(Msgs)
      BY <1>1, <2>1, <2>2, <2>3, Joins DEF ChoicesInv
    <3> QED BY <1>1, <2>1, <3>1, <3>2 DEF ChoicesInv, ChoiceTypes
  <2>6. ASSUME NEW p \in Props PROVE Placed(p)'
    <3>1. CASE p = found
      <4>1. /\ state'[p] = "chosen" /\ UnderWay(p) = {}
            /\ \A j \in DOMAIN line : ~IsSay(line[j], p)
            /\ \A j \in DOMAIN heard : ~IsSay(heard[j], p)
        BY <1>2, <2>1, <3>1, Chosen
      <4>2. IsSay(m, p)
        BY <2>2, <3>1 DEF IsSay
      <4> QED BY <1>3, <2>3, <2>4, <4>1, <4>2, JoinedAlone
    <3>2. CASE p # found
      <4>1. state'[p] = state[p]
        BY <1>2, <2>1, <3>2, Chosen
      <4>2. ~IsSay(m, p) /\ Placed(p)
        BY <2>2, <3>2 DEF IsSay, ChoicesInv
      <4> QED BY <1>3, <2>3, <2>4, <4>1, <4>2, JoinedOthers
    <3> QED BY <3>1, <3>2
  <2>7. AsPicked'
    <3>1. /\ pick'[found] = msg.choice
          /\ \A j \in DOMAIN line : line[j].kind = "say" => pick'[line[j].prop] = pick[line[j].prop]
          /\ \A j \in DOMAIN heard : heard[j].kind = "say" => pick'[heard[j].prop] = pick[heard[j].prop]
          /\ \A t \in taps : t.step # "choose" => t.choice = pick'[t.prop]
      BY <1>2, <2>1, Chosen
    <3>2. \A t \in taps' : t.step # "choose" => t.choice = pick'[t.prop]
      BY <1>1, <3>1
    <3> QED BY <2>2, <2>3, <2>4, <3>1, <3>2, JoinedPicked DEF ChoicesInv
  <2>8. Written'
    <3>1. Written
      BY DEF ChoicesInv
    <3>2. /\ m.at # 0 => /\ \A i \in DOMAIN line : line[i].at # m.at
                         /\ \A i \in DOMAIN heard : heard[i].at # m.at
          /\ m.at <= typed'
          /\ \A i \in DOMAIN line : line[i].at <= typed'
          /\ \A i \in DOMAIN heard : heard[i].at <= typed'
      BY <1>1, <1>2, <2>2, <3>1 DEF Written
    <3> QED BY <2>3, <2>4, <3>1, <3>2, JoinedWritten
  <2>9. Doing'
    BY <2>1, <2>3 DEF Doing
  <2>10. Ended'
    <3>1. (Choice!Open)' \subseteq Choice!Open
      BY <1>2, <2>1 DEF Choice!Open, ChoicesInv, ChoiceTypes, Props
    <3> QED BY <1>1, <2>1, <3>1 DEF ChoicesInv, Ended
  <2> QED BY <2>5, <2>6, <2>7, <2>8, <2>9, <2>10 DEF ChoicesInv
<1>5. CASE ~Choice!Chose(found)
  <2>1. step' = "retire" /\ UNCHANGED <<state, pick, line>>
    BY <1>1, <1>2, <1>5, Chooses DEF Choice!ChooseTyped, ChoicesInv
  <2>2. Still
    BY <1>1, <1>2, <2>1 DEF Still, InHand
  <2>3. ChoiceTypes'
    BY <1>1, <2>1 DEF ChoicesInv, ChoiceTypes
  <2>4. Doing'
    BY <1>1, <1>2, <2>1 DEF Doing
  <2>5. Ended'
    <3>1. (Choice!Open)' = Choice!Open
      BY <2>1 DEF Choice!Open
    <3> QED BY <1>1, <2>1, <3>1 DEF ChoicesInv, Ended
  <2>6. Written' /\ (\A p \in Props : Placed(p)') /\ AsPicked'
    BY <1>1, <1>3, <2>1, <2>2, StillWritten, StillPlaced, StillPicked DEF ChoicesInv
  <2> QED BY <2>3, <2>4, <2>5, <2>6 DEF ChoicesInv
<1> QED BY <1>4, <1>5

LEMMA TurnKeeps ==
  ASSUME ChoicesInv, Choice!Turn
  PROVE  ChoicesInv'
<1>1. /\ step = "turn" /\ heard' = Append(heard, msg) /\ pick' = pick
      /\ UNCHANGED <<elsewhere, look, line, msg, before, taps, removing, typed, tapped>>
  BY DEF Choice!Turn, Choice!rows, Choice!hands
<1>2. \/ step' = "idle" /\ state' = state /\ found' = found
      \/ \E p \in Props : /\ state[p] = "none" /\ state' = [state EXCEPT ![p] = "open"]
                          /\ step' = "attach" /\ found' = p
  BY NewRows DEF Choice!Turn, Choice!rows, ChoicesInv
<1>3. InHand /\ ~InHand' /\ msg \in Msgs /\ step' \in {"idle", "attach"}
  BY <1>1, <1>2 DEF InHand, ChoicesInv, Doing
<1>4. /\ heard' \in Seq(Msgs)
      /\ \E n : /\ n \notin DOMAIN heard /\ DOMAIN heard' = DOMAIN heard \cup {n}
                /\ heard'[n] = msg /\ \A i \in DOMAIN heard : heard'[i] = heard[i]
  BY <1>1, <1>3, Appends DEF ChoicesInv, ChoiceTypes
<1>5. PICK n : /\ n \notin DOMAIN heard /\ DOMAIN heard' = DOMAIN heard \cup {n}
               /\ heard'[n] = msg /\ \A i \in DOMAIN heard : heard'[i] = heard[i]
  BY <1>4
<1>6. /\ state' \in [Props -> {"none", "open", "chosen", "closed"}] /\ found' \in Props \cup {Choice!None}
      /\ \A q \in Props : state'[q] = "chosen" <=> state[q] = "chosen"
  BY <1>2 DEF ChoicesInv, ChoiceTypes
<1>7. ChoiceTypes'
  BY <1>1, <1>3, <1>4, <1>6 DEF ChoicesInv, ChoiceTypes
<1>8. ASSUME NEW p \in Props PROVE Placed(p)'
  <2>1. \A i \in DOMAIN heard' : IsSay(heard'[i], p) => (i = n /\ Held(p)) \/ (i \in DOMAIN heard /\ IsSay(heard[i], p))
    BY <1>3, <1>5 DEF Held
  <2>2. OnLine(p)' <=> OnLine(p)
    BY <1>1 DEF OnLine
  <2>3. Heard(p)' <=> Heard(p) \/ Held(p)
    BY <1>3, <1>5, <2>1 DEF Heard, Held
  <2>4. ~Held(p)' /\ UnderWay(p)' = UnderWay(p) /\ (state'[p] = "chosen" <=> state[p] = "chosen")
    BY <1>1, <1>3, <1>6 DEF Held, UnderWay
  <2>5. Placed(p)
    BY DEF ChoicesInv
  <2>6. \A i, j \in DOMAIN heard' : IsSay(heard'[i], p) /\ IsSay(heard'[j], p) => i = j
    BY <2>1, <2>5 DEF Placed, Heard
  <2>7. \A i, j \in DOMAIN line' : IsSay(line'[i], p) /\ IsSay(line'[j], p) => i = j
    BY <1>1, <2>5 DEF Placed
  <2> QED BY <2>2, <2>3, <2>4, <2>5, <2>6, <2>7 DEF Placed
<1>9. AsPicked'
  BY <1>1, <1>3, <1>5 DEF ChoicesInv, AsPicked
<1>10. Written'
  <2>1. \A i \in DOMAIN heard' : i = n \/ i \in DOMAIN heard
    BY <1>5
  <2>2. Written
    BY DEF ChoicesInv
  <2>3. \A i, j \in DOMAIN heard' : heard'[i].at = heard'[j].at /\ heard'[i].at # 0 => i = j
    BY <1>3, <1>5, <2>1, <2>2 DEF Written
  <2>4. \A i \in DOMAIN line', j \in DOMAIN heard' : line'[i].at = heard'[j].at => line'[i].at = 0
    BY <1>1, <1>3, <1>5, <2>1, <2>2 DEF Written
  <2>5. \A i \in DOMAIN heard' : heard'[i].at <= typed'
    BY <1>1, <1>3, <1>5, <2>1, <2>2 DEF Written
  <2> QED BY <1>1, <1>3, <2>2, <2>3, <2>4, <2>5 DEF Written
<1>11. Doing'
  BY <1>2, <1>3 DEF Doing
<1>12. Ended'
  <2>1. ~elsewhere => \A p, q \in (Choice!Open)' : p = q
    <3>1. ~elsewhere => \A q \in Props : state[q] # "open"
      BY <1>1 DEF ChoicesInv, Ended, Choice!Open, Props
    <3>2. \A q \in Props : state'[q] = "open" => state[q] = "open" \/ q = found'
      BY <1>2 DEF ChoicesInv, ChoiceTypes
    <3> QED BY <3>1, <3>2 DEF Choice!Open, Props
  <2> QED BY <1>1, <1>3, <2>1 DEF Ended
<1> QED BY <1>7, <1>8, <1>9, <1>10, <1>11, <1>12 DEF ChoicesInv

(***************************************************************************)
(* Choices: taps.                                                          *)
(***************************************************************************)
\* A tap goes on to its next step.
LEMMA GoesOn ==
  ASSUME ChoiceTypes, NEW t \in taps, NEW s \in {"show", "say"}, taps' = Choice!To(t, s)
  PROVE  /\ t.prop \in Props /\ t.choice \in Buttons
         /\ taps' \in SUBSET TapType
         /\ \A p \in Props \ {t.prop} : UnderWay(p)' = UnderWay(p)
         /\ UnderWay(t.prop) \subseteq {t} => UnderWay(t.prop)' = {[t EXCEPT !.step = s]}
         /\ \A u \in taps' : u.step # "choose" => u \in taps \/ (u.prop = t.prop /\ u.choice = t.choice)
<1> DEFINE u == [t EXCEPT !.step = s]
<1>1. t \in TapType /\ taps \in SUBSET TapType
  BY DEF ChoiceTypes
<1>2. t.prop \in Props /\ t.choice \in Buttons
  BY <1>1 DEF TapType
<1>3. u \in TapType /\ u.prop = t.prop /\ u.choice = t.choice /\ u.step # "choose"
  BY <1>1 DEF TapType
<1>4. taps' = (taps \ {t}) \cup {u}
  BY DEF Choice!To
<1> HIDE DEF u
<1>5. taps' \in SUBSET TapType
  BY <1>1, <1>3, <1>4
<1>6. ASSUME NEW p \in Props \ {t.prop} PROVE UnderWay(p)' = UnderWay(p)
  BY <1>3, <1>4 DEF UnderWay
<1>7. UnderWay(t.prop) \subseteq {t} => UnderWay(t.prop)' = {u}
  BY <1>3, <1>4 DEF UnderWay
<1>8. \A v \in taps' : v.step # "choose" => v \in taps \/ (v.prop = t.prop /\ v.choice = t.choice)
  BY <1>3, <1>4
<1> QED BY <1>2, <1>5, <1>6, <1>7, <1>8 DEF u

LEMMA TapChooseKeeps ==
  ASSUME ChoicesInv, NEW t, Choice!TapChoose(t)
  PROVE  ChoicesInv'
<1>1. /\ t \in taps /\ t.step = "choose" /\ Choice!Choose(t.prop, t.choice)
      /\ UNCHANGED <<elsewhere, line, step, msg, found, before, removing, typed, tapped, heard>>
  BY DEF Choice!TapChoose, Choice!here
<1>2. t \in TapType /\ t.prop \in Props /\ t.choice \in Buttons
  BY <1>1 DEF ChoicesInv, ChoiceTypes, TapType
<1>3. Still
  BY <1>1 DEF Still, InHand
<1>4. Written' /\ Doing'
  BY <1>1, <1>3, StillWritten DEF ChoicesInv, Doing, InHand
<1>5. CASE Choice!Chose(t.prop)
  <2>1. /\ state[t.prop] = "open" /\ taps' = Choice!To(t, "show") /\ look' = look
        /\ state' = [state EXCEPT ![t.prop] = "chosen"] /\ pick' = [pick EXCEPT ![t.prop] = t.choice]
    BY <1>1, <1>2, <1>5, Chooses DEF Choice!TapChoose, ChoicesInv
  <2>2. /\ \A p \in Props \ {t.prop} : UnderWay(p)' = UnderWay(p)
        /\ UnderWay(t.prop) \subseteq {t} => UnderWay(t.prop)' = {[t EXCEPT !.step = "show"]}
        /\ \A u \in taps' : u.step # "choose" => u \in taps \/ (u.prop = t.prop /\ u.choice = t.choice)
        /\ taps' \in SUBSET TapType
    BY <1>1, <2>1, GoesOn DEF ChoicesInv
  <2>3. /\ state' \in [Props -> {"none", "open", "chosen", "closed"}]
        /\ pick' \in [Props -> Buttons \cup {Choice!None}]
        /\ \A q \in Props : pick'[q] # Choice!None <=> state'[q] = "chosen"
    BY <1>2, <2>1, Chosen
  <2>4. ChoiceTypes'
    BY <1>1, <2>1, <2>2, <2>3 DEF ChoicesInv, ChoiceTypes
  <2>5. ASSUME NEW p \in Props PROVE Placed(p)'
    <3>0. (Held(p)' <=> Held(p)) /\ (OnLine(p)' <=> OnLine(p)) /\ (Heard(p)' <=> Heard(p)) /\ Placed(p)
      BY <1>1, <1>3 DEF Still, Held, OnLine, Heard, ChoicesInv
    <3>1. CASE p = t.prop
      <4>1. /\ state'[p] = "chosen" /\ UnderWay(p) = {} /\ ~Held(p)
            /\ \A j \in DOMAIN line : ~IsSay(line[j], p)
            /\ \A j \in DOMAIN heard : ~IsSay(heard[j], p)
        BY <1>2, <2>1, <3>1, Chosen
      <4>2. UnderWay(p)' = {[t EXCEPT !.step = "show"]}
        BY <2>2, <3>1, <4>1
      <4> QED BY <1>1, <3>0, <4>1, <4>2 DEF Placed, OnLine, Heard
    <3>2. CASE p # t.prop
      <4>1. state'[p] = state[p] /\ UnderWay(p)' = UnderWay(p)
        BY <1>2, <2>1, <2>2, <3>2, Chosen
      <4> QED BY <1>1, <3>0, <4>1 DEF Placed
    <3> QED BY <3>1, <3>2
  <2>6. AsPicked'
    <3>1. /\ pick'[t.prop] = t.choice
          /\ \A j \in DOMAIN line : line[j].kind = "say" => pick'[line[j].prop] = pick[line[j].prop]
          /\ \A j \in DOMAIN heard : heard[j].kind = "say" => pick'[heard[j].prop] = pick[heard[j].prop]
          /\ InHand /\ msg.kind = "say" => pick'[msg.prop] = pick[msg.prop]
          /\ \A u \in taps : u.step # "choose" => u.choice = pick'[u.prop]
      BY <1>2, <2>1, Chosen
    <3>2. \A u \in taps' : u.step # "choose" => u.choice = pick'[u.prop]
      BY <2>2, <3>1
    <3> QED BY <1>3, <3>1, <3>2 DEF Still, ChoicesInv, AsPicked
  <2>7. Ended'
    <3>1. \A q \in Props : state'[q] = "open" => state[q] = "open"
      BY <1>2, <2>1 DEF ChoicesInv, ChoiceTypes
    <3> QED BY <1>1, <3>1, EndedShrinks DEF ChoicesInv
  <2> QED BY <1>4, <2>4, <2>5, <2>6, <2>7 DEF ChoicesInv
<1>6. CASE ~Choice!Chose(t.prop)
  <2>1. /\ UNCHANGED <<state, pick>> /\ taps' = taps \ {t}
        /\ look' = IF state[t.prop] = "closed" THEN [look EXCEPT ![t.prop] = "expired"] ELSE look
    BY <1>1, <1>2, <1>6, Chooses DEF Choice!TapChoose, ChoicesInv
  <2>2. ChoiceTypes'
    <3>1. look' \in [Props -> {"none", "buttons", "chosen", "expired", "plain"}]
      BY <1>2, <2>1 DEF ChoicesInv, ChoiceTypes
    <3> QED BY <1>1, <2>1, <3>1 DEF ChoicesInv, ChoiceTypes
  <2>3. \A q \in Props : UnderWay(q)' = UnderWay(q) /\ (state'[q] = "chosen" <=> state[q] = "chosen")
    BY <1>1, <2>1 DEF UnderWay
  <2>4. Ended'
    BY <1>1, <2>1, EndedShrinks DEF ChoicesInv
  <2>5. AsPicked'
    BY <1>3, <2>1, StillPicked DEF ChoicesInv
  <2>6. \A p \in Props : Placed(p)'
    BY <1>3, <2>3, StillPlaced DEF ChoicesInv
  <2> QED BY <1>4, <2>2, <2>4, <2>5, <2>6 DEF ChoicesInv
<1> QED BY <1>5, <1>6

LEMMA TapShowKeeps ==
  ASSUME ChoicesInv, NEW t, Choice!TapShow(t)
  PROVE  ChoicesInv'
<1>1. /\ t \in taps /\ t.step = "show" /\ look' = [look EXCEPT ![t.prop] = "chosen"] /\ taps' = Choice!To(t, "say")
      /\ UNCHANGED <<elsewhere, state, pick, line, step, msg, found, before, removing, typed, tapped, heard>>
  BY DEF Choice!TapShow, Choice!here, Choice!rows
<1>2. t \in TapType /\ t.prop \in Props /\ t.choice \in Buttons
  BY <1>1 DEF ChoicesInv, ChoiceTypes, TapType
<1>3. Still
  BY <1>1 DEF Still, InHand
<1>4. /\ \A p \in Props \ {t.prop} : UnderWay(p)' = UnderWay(p)
      /\ UnderWay(t.prop) \subseteq {t} => UnderWay(t.prop)' = {[t EXCEPT !.step = "say"]}
      /\ \A u \in taps' : u.step # "choose" => u \in taps \/ (u.prop = t.prop /\ u.choice = t.choice)
      /\ taps' \in SUBSET TapType
  BY <1>1, GoesOn DEF ChoicesInv
<1>5. ChoiceTypes'
  <2>1. look' \in [Props -> {"none", "buttons", "chosen", "expired", "plain"}]
    BY <1>1, <1>2 DEF ChoicesInv, ChoiceTypes
  <2> QED BY <1>1, <1>4, <2>1 DEF ChoicesInv, ChoiceTypes
<1>6. ASSUME NEW p \in Props PROVE Placed(p)'
  <2>1. /\ (Held(p)' <=> Held(p)) /\ (OnLine(p)' <=> OnLine(p)) /\ (Heard(p)' <=> Heard(p))
        /\ Placed(p) /\ state'[p] = state[p]
    BY <1>1, <1>3 DEF Still, Held, OnLine, Heard, ChoicesInv
  <2>2. CASE p = t.prop
    <3>1. t \in UnderWay(p)
      BY <1>1, <2>2 DEF UnderWay
    <3>2. UnderWay(p) \subseteq {t}
      BY <2>1, <3>1 DEF Placed
    <3>3. UnderWay(p)' = {[t EXCEPT !.step = "say"]}
      BY <1>4, <2>2, <3>2
    <3> QED BY <1>1, <2>1, <3>1, <3>3 DEF Placed
  <2>3. CASE p # t.prop
    <3>1. UnderWay(p)' = UnderWay(p)
      BY <1>4, <2>3
    <3> QED BY <1>1, <2>1, <3>1 DEF Placed
  <2> QED BY <2>2, <2>3
<1>7. AsPicked'
  <2>1. t.choice = pick[t.prop]
    BY <1>1 DEF ChoicesInv, AsPicked
  <2> QED BY <1>1, <1>3, <1>4, <2>1, StillPicked DEF ChoicesInv
<1>8. Ended'
  BY <1>1, EndedShrinks DEF ChoicesInv
<1>9. Written' /\ Doing'
  BY <1>1, <1>3, StillWritten DEF ChoicesInv, Doing, InHand
<1> QED BY <1>5, <1>6, <1>7, <1>8, <1>9 DEF ChoicesInv

LEMMA TapSayKeeps ==
  ASSUME ChoicesInv, NEW t, Choice!TapSay(t)
  PROVE  ChoicesInv'
<1> DEFINE m == Choice!Say(t.prop, t.choice, Choice!None)
<1>1. /\ t \in taps /\ t.step = "say" /\ line' = Append(line, m) /\ taps' = taps \ {t}
      /\ UNCHANGED <<elsewhere, state, pick, look, step, msg, found, before, removing, typed, tapped, heard>>
  BY DEF Choice!TapSay, Choice!here, Choice!rows
<1>2. t \in TapType /\ t.prop \in Props /\ t.choice \in Buttons
  BY <1>1 DEF ChoicesInv, ChoiceTypes, TapType
<1>3. m \in Msgs /\ m.kind = "say" /\ m.prop = t.prop /\ m.choice = t.choice /\ m.at = 0
  <2>1. Choice!None \in 0 .. MaxTyped /\ Choice!None = 0
    BY ChoiceNumbers
  <2> QED BY <1>2, <2>1, Sentences
<1> HIDE DEF m
<1>4. InHand' <=> InHand
  BY <1>1 DEF InHand
<1>5. line' \in Seq(Msgs)
  BY <1>1, <1>3, <1>4, Joins DEF ChoicesInv
<1>6. PICK n : Joined(n, m)
  BY <1>1, <1>3, <1>4, Joins DEF ChoicesInv
<1>7. ChoiceTypes'
  BY <1>1, <1>5 DEF ChoicesInv, ChoiceTypes
<1>8. ASSUME NEW p \in Props PROVE Placed(p)'
  <2>1. (Held(p)' <=> Held(p)) /\ Placed(p) /\ state'[p] = state[p]
    BY <1>1, <1>4 DEF Held, ChoicesInv
  <2>2. CASE p = t.prop
    <3>1. t \in UnderWay(p)
      BY <1>1, <2>2 DEF UnderWay
    <3>2. UnderWay(p)' = {}
      BY <1>1, <2>1, <3>1 DEF Placed, UnderWay
    <3>3. /\ state[p] = "chosen" /\ ~Held(p)
          /\ \A i \in DOMAIN line : ~IsSay(line[i], p)
          /\ \A i \in DOMAIN heard : ~IsSay(heard[i], p)
      BY <2>1, <3>1 DEF Placed, OnLine, Heard
    <3>4. IsSay(m, p)
      BY <1>3, <2>2 DEF IsSay
    <3> QED BY <1>6, <2>1, <3>2, <3>3, <3>4, JoinedAlone
  <2>3. CASE p # t.prop
    <3>1. UnderWay(p)' = UnderWay(p)
      BY <1>1, <2>3 DEF UnderWay
    <3>2. ~IsSay(m, p)
      BY <1>3, <2>3 DEF IsSay
    <3> QED BY <1>6, <2>1, <3>1, <3>2, JoinedOthers
  <2> QED BY <2>2, <2>3
<1>9. AsPicked'
  <2>1. t.choice = pick[t.prop] /\ \A u \in taps' : u.step # "choose" => u.choice = pick'[u.prop]
    BY <1>1 DEF ChoicesInv, AsPicked
  <2> QED BY <1>1, <1>3, <1>6, <2>1, JoinedPicked DEF ChoicesInv
<1>10. Written'
  <2>1. Written /\ typed \in Nat
    BY ChoiceNumbers DEF ChoicesInv, ChoiceTypes
  <2>2. /\ m.at <= typed'
        /\ \A i \in DOMAIN line : line[i].at <= typed'
        /\ \A i \in DOMAIN heard : heard[i].at <= typed'
        /\ InHand => msg.at <= typed'
    BY <1>1, <1>3, <2>1 DEF Written
  <2> QED BY <1>3, <1>4, <1>6, <2>1, <2>2, JoinedWritten
<1>11. Ended' /\ Doing'
  BY <1>1, EndedShrinks DEF ChoicesInv, Doing, InHand
<1> QED BY <1>7, <1>8, <1>9, <1>10, <1>11 DEF ChoicesInv

LEMMA ChoicesStep == ChoicesInv /\ [Choice!Next]_(Choice!vars) => ChoicesInv'
<1> SUFFICES ASSUME ChoicesInv, [Choice!Next]_(Choice!vars) PROVE ChoicesInv'
  OBVIOUS
<1>1. CASE Choice!Type
  BY <1>1, TypeKeeps
<1>2. CASE Choice!Works
  BY <1>2, TakeKeeps, ChooseTypedKeeps, RetireLookKeeps, RetireKeeps, TurnKeeps, AttachKeeps DEF Choice!Works
<1>3. ASSUME NEW p \in Props, Choice!Expire(p) \/ Choice!Offer(p) \/ Choice!RemoveButtons(p) PROVE ChoicesInv'
  BY <1>3, ExpireKeeps, OfferKeeps, RemoveButtonsKeeps
<1>4. ASSUME NEW p \in Props, NEW i \in Buttons, Choice!Tap(p, i) PROVE ChoicesInv'
  BY <1>4, TapKeeps
<1>5. ASSUME NEW t \in taps, Choice!Taps(t) PROVE ChoicesInv'
  BY <1>5, TapChooseKeeps, TapShowKeeps, TapSayKeeps DEF Choice!Taps
<1>6. CASE UNCHANGED Choice!vars
  <2>1. UNCHANGED <<elsewhere, state, pick, look, line, step, msg, found, before, taps, removing, typed, tapped, heard>>
    BY <1>6 DEF Choice!vars
  <2>2. ChoiceTypes' /\ AsPicked' /\ Written' /\ Doing'
    BY <2>1 DEF ChoicesInv, ChoiceTypes, AsPicked, Written, Doing, InHand
  <2>3. Ended'
    BY <2>1, EndedShrinks DEF ChoicesInv
  <2>4. \A p \in Props : Placed(p)'
    <3>1. Still /\ \A p \in Props : UnderWay(p)' = UnderWay(p) /\ (state'[p] = "chosen" <=> state[p] = "chosen")
      BY <2>1 DEF Still, InHand, UnderWay
    <3> QED BY <3>1, StillPlaced DEF ChoicesInv
  <2> QED BY <2>2, <2>3, <2>4 DEF ChoicesInv
<1> QED BY <1>1, <1>2, <1>3, <1>4, <1>5, <1>6 DEF Choice!Next, Props

LEMMA ChoicesInvariance == Spec => []ChoicesInv
<1>1. Init => ChoicesInv
  BY ChoicesInit DEF Init
<1>2. ChoicesInv /\ [Next]_vars => ChoicesInv'
  <2> SUFFICES ASSUME ChoicesInv, [Next]_vars PROVE ChoicesInv'
    OBVIOUS
  <2>1. [Choice!Next]_(Choice!vars)
    BY DEF Next, vars, choicesVars, Choice!vars
  <2> QED BY <2>1, ChoicesStep
<1> QED BY <1>1, <1>2, PTL DEF Spec

\* A set of one at most has one element or none.
LEMMA OneOrNone ==
  ASSUME NEW S, \A v, w \in S : v = w
  PROVE  Choice!Cardinality(S) = IF S = {} THEN 0 ELSE 1
<1>0. Choice!Cardinality(S) = Cardinality(S)
  BY DEF Choice!Cardinality, Cardinality
<1>1. CASE S = {}
  BY <1>0, <1>1, FS_EmptySet
<1>2. CASE S # {}
  <2>1. PICK w \in S : TRUE
    BY <1>2
  <2>2. S = {w}
    BY <2>1
  <2> QED BY <1>0, <1>2, <2>2, FS_Singleton
<1> QED BY <1>1, <1>2

\* Of any number of taps and typed words one chooses, and its sentence is said once; what a person writes is heard once and
\* ends the choices of the reply before (ChooseProposal, handleChoice, takeTypedChoice, retireChoices).
THEOREM ChoicesHold == Spec => []ProposalsInv
<1>1. ChoicesInv => ProposalsInv
  <2> SUFFICES ASSUME ChoicesInv PROVE Choice!ProposalsInv
    BY DEF ProposalsInv
  <2>1. Choice!TypeOK
    <3>1. /\ \A i \in DOMAIN line : line[i] \in Msgs
          /\ \A i \in DOMAIN heard : heard[i] \in Msgs
      BY DEF ChoicesInv, ChoiceTypes
    <3> QED BY <3>1 DEF Choice!TypeOK, ChoicesInv, ChoiceTypes, TapType, Props, Msgs
  <2>2. Choice!EndsThoseBefore
    BY DEF Choice!EndsThoseBefore, ChoicesInv, Ended
  <2>3. Choice!HeardOnce
    BY ChoiceNumbers DEF Choice!HeardOnce, ChoicesInv, Written
  <2>4. ASSUME NEW p \in Props
        PROVE  LET on == Choice!Says(line, p)  was == Choice!Says(heard, p)
                   held == step # "idle" /\ msg.kind = "say" /\ msg.prop = p /\ step # "attach" IN
               /\ Choice!Cardinality(on) + Choice!Cardinality(was) + (IF held THEN 1 ELSE 0)
                    + Choice!Cardinality({t \in taps : t.prop = p /\ t.step # "choose"})
                    = IF state[p] = "chosen" THEN 1 ELSE 0
               /\ \A i \in on : line[i].choice = pick[p]
               /\ \A i \in was : heard[i].choice = pick[p]
    <3>1. Placed(p)
      BY DEF ChoicesInv
    <3>2. Choice!Cardinality(Choice!Says(line, p)) = IF OnLine(p) THEN 1 ELSE 0
      <4>1. \A i, j \in Choice!Says(line, p) : i = j
        BY <3>1 DEF Choice!Says, Placed, IsSay
      <4>2. Choice!Says(line, p) = {} <=> ~OnLine(p)
        BY DEF Choice!Says, OnLine, IsSay
      <4> QED BY <4>1, <4>2, OneOrNone
    <3>3. Choice!Cardinality(Choice!Says(heard, p)) = IF Heard(p) THEN 1 ELSE 0
      <4>1. \A i, j \in Choice!Says(heard, p) : i = j
        BY <3>1 DEF Choice!Says, Placed, IsSay
      <4>2. Choice!Says(heard, p) = {} <=> ~Heard(p)
        BY DEF Choice!Says, Heard, IsSay
      <4> QED BY <4>1, <4>2, OneOrNone
    <3>4. Choice!Cardinality(UnderWay(p)) = IF UnderWay(p) # {} THEN 1 ELSE 0
      <4>1. \A t, u \in UnderWay(p) : t = u
        BY <3>1 DEF Placed
      <4> QED BY <4>1, OneOrNone
    <3>5. (step # "idle" /\ msg.kind = "say" /\ msg.prop = p /\ step # "attach") <=> Held(p)
      BY DEF Held, InHand, IsSay
    <3>6. (IF OnLine(p) THEN 1 ELSE 0) + (IF Heard(p) THEN 1 ELSE 0) + (IF Held(p) THEN 1 ELSE 0)
            + (IF UnderWay(p) # {} THEN 1 ELSE 0) = IF state[p] = "chosen" THEN 1 ELSE 0
      BY <3>1 DEF Placed
    <3>7. {t \in taps : t.prop = p /\ t.step # "choose"} = UnderWay(p)
      BY DEF UnderWay
    <3>8. /\ \A i \in Choice!Says(line, p) : line[i].choice = pick[p]
          /\ \A i \in Choice!Says(heard, p) : heard[i].choice = pick[p]
      BY DEF Choice!Says, ChoicesInv, AsPicked
    <3> QED BY <3>2, <3>3, <3>4, <3>5, <3>6, <3>7, <3>8
  <2>5. Choice!ChosenOnce
    BY <2>4 DEF Choice!ChosenOnce, Props
  <2> QED BY <2>1, <2>2, <2>3, <2>5 DEF Choice!ProposalsInv
<1> QED BY <1>1, ChoicesInvariance, PTL

(***************************************************************************)
(* Gates: the inductive invariant.                                         *)
(***************************************************************************)
GatesPc == {"over", "model", "approve", "own", "signin", "send"}
IsSequence(s) == s \in Seq({s[i] : i \in DOMAIN s})

\* What is stored was accepted, the agent's rules and each capability's on their own.
Accepted(d) ==
  /\ d \in Drafts /\ Gates!NormalizeRules(d.agentRules)
  /\ \A c \in DOMAIN d.caps : Gates!NormalizeRules(d.caps[c].rules) /\ Gates!NormalizePrerequisites(d.caps[c])

\* A reply has what its capabilities grant, and nothing ran while there is none.
Replying ==
  /\ reply = [pc |-> reply.pc, with |-> reply.with, bound |-> reply.bound, call |-> reply.call]
  /\ reply.pc \in GatesPc
  /\ reply.pc # "over" =>
       /\ reply.with \in Settings
       /\ \A i \in DOMAIN reply.with.picks : reply.with.picks[i] \in DOMAIN defs.caps
       /\ reply.bound = Gates!Merge(defs, reply.with)
  /\ reply.pc = "over" => sent = <<>> /\ journal = {}

\* What is sent, or is about to be: it keeps the rules, and waited as long as it had to.
KeepsRules(copy, in) ==
  /\ ~Gates!Breaks(Gates!Rules(copy), in)
  /\ \A r \in Gates!Rules(copy) : Gates!InForce(copy, r) => Gates!ValueIn(r.values, in[r.input])
Ran(s, n, first, same, in) ==
  \E j \in 1 .. n : s[j].tool = first /\ s[j].ran /\ \A d \in same : Gates!SameValue(s[j].input[d], in[d])
IsFree(copy, t, p) ==
  \A d \in p.same :
    /\ d \notin Def[t].prepares
    /\ ~\E r \in Gates!Rules(copy) : r.kind \in {"fixed", "default"} /\ r.input = d
Waited(b, w, s, n, t, in) ==
  /\ \A p \in b[t].waits : IsFree(b[t], t, p) => Ran(s, n, p.first, p.same, in)
  /\ b[t].oneOf # {} /\ ~w.unattended => \E f \in b[t].oneOf : Ran(s, n, f, {}, in)
IsAgreed(w, t) == w.unattended /\ t \in w.allowed
Asked(w, t, in, approved) ==
  ~IsAgreed(w, t) =>
    /\ Def[t].approves => <<"approve", in>> \in approved
    /\ t \in w.flagged /\ ~Def[t].readOnly => <<"own", in>> \in approved

\* The i-th thing that reached a service.
GoneOut(b, w, s, i) ==
  /\ s[i].tool \in DOMAIN b
  /\ KeepsRules(b[s[i].tool], s[i].input)
  /\ Waited(b, w, s, i - 1, s[i].tool, s[i].input)
  /\ Asked(w, s[i].tool, s[i].input, s[i].approved)
Once(s) ==
  \A i, j \in DOMAIN s :
    i # j /\ s[i].tool = s[j].tool /\ Def[s[i].tool].approves /\ s[i].ran /\ s[j].ran
      => \E d \in Def[s[i].tool].onceFor : ~Gates!SameValue(s[i].input[d], s[j].input[d])
Noted(s, k) ==
  \A i \in DOMAIN s : Def[s[i].tool].approves /\ s[i].ran => <<s[i].tool, Gates!OnceKey(s[i].tool, s[i].input)>> \in k
WasSent(s, e) == \E i \in DOMAIN s : s[i].tool = e.tool /\ s[i].input = e.input /\ s[i].ran

\* The call on its way to a service.
UnderCall(c) ==
  /\ c = [tool |-> c.tool, raw |-> c.raw, input |-> c.input, passed |-> c.passed, approved |-> c.approved]
  /\ c.tool \in DOMAIN reply.bound
  /\ reply.pc = Gates!Gate(c.tool, c.passed)
  /\ \A g \in {"approve", "own"} : g \in c.passed => <<g, c.input>> \in c.approved
  /\ KeepsRules(reply.bound[c.tool], c.input)
  /\ Waited(reply.bound, reply.with, sent, Len(sent), c.tool, c.input)
  /\ ~Gates!AlreadyDone(c.tool, c.input)
  /\ Len(sent) < bounds.calls

GatesIInv ==
  /\ bounds = [calls |-> bounds.calls, replies |-> bounds.replies, saves |-> bounds.saves]
  /\ bounds.calls \in Nat
  /\ defs = Gates!Nothing \/ Accepted(defs)
  /\ Replying
  /\ IsSequence(sent) /\ Len(sent) <= bounds.calls
  /\ \A i \in DOMAIN sent : GoneOut(reply.bound, reply.with, sent, i)
  /\ Once(sent) /\ Noted(sent, done)
  /\ \A e \in journal : WasSent(sent, e)
  /\ reply.pc \notin {"over", "model"} => UnderCall(reply.call)

(***************************************************************************)
(* Gates: values.                                                          *)
(***************************************************************************)
\* What is the same as given is the same when checked; checking twice changes no more.
LEMMA SameChecked ==
  ASSUME NEW a, NEW b, NEW d, Gates!SameInput(a, b)
  PROVE  Gates!SameValue(a, Gates!Checked(d, b)) /\ Gates!SameValue(a, b)
<1> USE DEF Gates!SameInput, Gates!SameValue, Gates!Checked, Gates!IsNum, Gates!Num, Gates!Numbers, Gates!Fold,
            Gates!AsNumber, Gates!AsText, Gates!Numeric
<1>1. CASE a = b
  <2>1. CASE b \in {"1", "2", "3", "1t", "2t", "3t"}
    BY <1>1, <2>1
  <2>2. CASE b \notin {"1", "2", "3", "1t", "2t", "3t"}
    BY <1>1, <2>2
  <2> QED BY <2>1, <2>2
<1>2. CASE a # b
  <2>1. a \in {"a", "A"} /\ b \in {"a", "A"}
    BY <1>2
  <2> QED BY <2>1
<1> QED BY <1>1, <1>2

LEMMA CheckedTwice ==
  ASSUME NEW v, NEW d, NEW e
  PROVE  Gates!SameValue(v, Gates!Checked(d, v)) /\ Gates!SameValue(v, Gates!Checked(e, Gates!Checked(d, v)))
         /\ (v # "none" => Gates!Checked(d, v) # "none")
<1> USE DEF Gates!SameValue, Gates!Checked, Gates!IsNum, Gates!Num, Gates!Numbers, Gates!Fold,
            Gates!AsNumber, Gates!AsText, Gates!Numeric
<1>1. CASE v \in {"1", "2", "3", "1t", "2t", "3t"}
  BY <1>1
<1>2. CASE v \notin {"1", "2", "3", "1t", "2t", "3t"}
  BY <1>2
<1> QED BY <1>1, <1>2

\* Two values a person would call the same are written the same.
LEMMA SameWritten ==
  ASSUME NEW a, NEW b, Gates!SameValue(a, b)
  PROVE  Gates!AsText(Gates!Fold(a)) = Gates!AsText(Gates!Fold(b))
<1> USE DEF Gates!SameValue, Gates!IsNum, Gates!Num, Gates!Numbers, Gates!Fold, Gates!AsText
<1>1. CASE Gates!IsNum(a) /\ Gates!IsNum(b)
  <2>1. a \in {"1", "2", "3", "1t", "2t", "3t"} /\ b \in {"1", "2", "3", "1t", "2t", "3t"}
    BY <1>1
  <2> QED BY <2>1
<1>2. CASE ~(Gates!IsNum(a) /\ Gates!IsNum(b))
  BY <1>2
<1> QED BY <1>1, <1>2

(***************************************************************************)
(* Gates: what a call carries.                                             *)
(***************************************************************************)
LEMMA GateFacts ==
  /\ IsFiniteSet(Gates!Tools)
  /\ \A t \in Gates!Tools : Def[t].details \subseteq Gates!Details /\ Def[t].prepares \subseteq Gates!Numeric
  /\ \A d \in Drafts : \A c \in DOMAIN d.caps : IsFiniteSet(d.caps[c].prereqs)
  /\ \A s \in Settings : s.known \subseteq Gates!Tools /\ s.picks \in Seq({s.picks[i] : i \in DOMAIN s.picks})
<1>1. Gates!IsFiniteSet(Gates!Tools) <=> IsFiniteSet(Gates!Tools)
  BY DEF Gates!IsFiniteSet, IsFiniteSet
<1>2. \A S : Gates!IsFiniteSet(S) <=> IsFiniteSet(S)
  BY DEF Gates!IsFiniteSet, IsFiniteSet
<1> QED BY <1>1, <1>2, TurnsConstants DEF Gates!GateConstants

LEMMA GateCount == ASSUME NEW S PROVE Gates!Cardinality(S) = Cardinality(S)
BY DEF Gates!Cardinality, Cardinality

\* The executor adds only to what it prepares and was not given; the input check only writes values another way.
LEMMA WholeInput ==
  ASSUME NEW t \in Gates!Tools, NEW raw, NEW in \in Gates!Whole(t, raw), NEW d \in Gates!Details
  PROVE  LET pinned == Gates!ApplyPins(Gates!Held(t), raw)[d] IN
         d \notin Def[t].prepares \/ pinned # "none" => in[d] \in {pinned, Gates!Checked(d, pinned)}
<1> DEFINE pins == Gates!ApplyPins(Gates!Held(t), raw)
           checked == Gates!CheckInput(t, pins)
<1>1. in \in Gates!Prepared(t, checked)
  BY DEF Gates!Whole
<1>2. checked[d] = IF d \in Def[t].details /\ pins[d] # "none" THEN Gates!Checked(d, pins[d]) ELSE pins[d]
  BY DEF Gates!CheckInput
<1>3. pins[d] # "none" => checked[d] # "none"
  BY <1>2, CheckedTwice
<1>4. d \notin Def[t].prepares \/ checked[d] # "none" => in[d] = checked[d]
  BY <1>1, GateFacts DEF Gates!Prepared
<1> QED BY <1>2, <1>3, <1>4

\* A detail no rule of the ability fixes or fills in stays as the model gave it.
LEMMA NotPinned ==
  ASSUME NEW copy, NEW raw, NEW d \in Gates!Details,
         ~\E r \in Gates!Rules(copy) : r.kind \in {"fixed", "default"} /\ r.input = d
  PROVE  Gates!ApplyPins(copy, raw)[d] = raw[d]
<1>1. \A kind \in {"fixed", "default"} : Gates!Pins(copy.own, kind, d) = {} /\ Gates!Pins(copy.agents, kind, d) = {}
  BY DEF Gates!Pins, Gates!Rules
<1>2. Gates!ApplyPins(copy, raw)[d] = IF raw[d] # "none" THEN raw[d] ELSE "none"
  BY <1>1 DEF Gates!ApplyPins, Gates!FirstOf
<1> QED BY <1>2

\* Of an accepted set of rules at most one fixes a detail of an ability, to one value.
LEMMA OneFixed ==
  ASSUME NEW rules, Gates!NormalizeRules(rules), NEW t, NEW r \in Gates!RulesOf(rules, t), r.kind = "fixed"
  PROVE  /\ t \in Gates!Tools /\ r.input \in Def[t].details \cup Def[t].prepares
         /\ Gates!Only(r.values) \in r.values /\ Gates!CanCheck(r.input, Gates!Only(r.values))
         /\ Gates!Pins(Gates!RulesOf(rules, t), "fixed", r.input) = {Gates!Checked(r.input, Gates!Only(r.values))}
<1>1. r \in rules /\ r.tool = t /\ Gates!RuleOK(r)
  BY DEF Gates!RulesOf, Gates!NormalizeRules
<1>2. /\ t \in Gates!Tools /\ r.input \in Def[t].details \cup Def[t].prepares
      /\ Gates!Cardinality(r.values) = 1 /\ \A v \in r.values : Gates!CanCheck(r.input, v)
  BY <1>1 DEF Gates!RuleOK
<1>3. r.values # {}
  BY <1>2, GateCount, FS_EmptySet
<1>4. Gates!Only(r.values) \in r.values
  BY <1>3 DEF Gates!Only
<1>5. \A q \in Gates!RulesOf(rules, t) : q.kind = "fixed" /\ q.input = r.input => q = r
  BY <1>1 DEF Gates!RulesOf, Gates!NormalizeRules
<1>6. {q \in Gates!RulesOf(rules, t) : q.kind = "fixed" /\ q.input = r.input} = {r}
  BY <1>5
<1>7. Gates!Pins(Gates!RulesOf(rules, t), "fixed", r.input) = {Gates!Checked(r.input, Gates!Only(q.values)) : q \in {r}}
  BY <1>6 DEF Gates!Pins
<1> QED BY <1>2, <1>4, <1>7

\* What a rule in force fixed is what the call carries.
LEMMA FixedStays ==
  ASSUME NEW agents, NEW own, Gates!NormalizeRules(agents), Gates!NormalizeRules(own),
         NEW t \in Gates!Tools, Gates!Held(t).agents = Gates!RulesOf(agents, t), Gates!Held(t).own = Gates!RulesOf(own, t),
         NEW raw, NEW in \in Gates!Whole(t, raw), NEW r \in Gates!Rules(Gates!Held(t)), Gates!InForce(Gates!Held(t), r)
  PROVE  Gates!ValueIn(r.values, in[r.input])
<1> DEFINE copy == Gates!Held(t)  w == Gates!Only(r.values)  pin == Gates!Checked(r.input, w)
<1>0. r.kind = "fixed" /\ (r \in copy.own \/ ~\E q \in copy.own : q.kind = "fixed" /\ q.input = r.input)
  BY DEF Gates!InForce
<1>1. r \in copy.own \/ r \in copy.agents
  BY DEF Gates!Rules
<1>2. /\ r.input \in Def[t].details \cup Def[t].prepares
      /\ w \in r.values /\ Gates!CanCheck(r.input, w)
  BY <1>0, <1>1, OneFixed
<1>3. r.input \in Gates!Details
  BY <1>2, GateFacts DEF Gates!Details, Gates!Numeric
<1>4. Gates!ApplyPins(copy, raw)[r.input] = pin
  <2>1. \A x : Gates!Only({x}) = x
    BY DEF Gates!Only
  <2>2. CASE r \in copy.own
    <3>1. Gates!Pins(copy.own, "fixed", r.input) = {pin}
      BY <1>0, <2>2, OneFixed
    <3> QED BY <1>3, <3>1, <2>1 DEF Gates!ApplyPins, Gates!FirstOf
  <2>3. CASE r \notin copy.own
    <3>1. Gates!Pins(copy.own, "fixed", r.input) = {}
      BY <1>0, <2>3 DEF Gates!Pins
    <3>2. Gates!Pins(copy.agents, "fixed", r.input) = {pin}
      BY <1>0, <1>1, <2>3, OneFixed
    <3> QED BY <1>3, <3>1, <3>2, <2>1 DEF Gates!ApplyPins, Gates!FirstOf
  <2> QED BY <2>2, <2>3
<1>5. r.input \in Def[t].prepares => pin # "none"
  <2>1. r.input \in Def[t].prepares => w # "none"
    BY <1>2, GateFacts DEF Gates!CanCheck, Gates!IsNum, Gates!Num, Gates!Numbers
  <2> QED BY <2>1, CheckedTwice
<1>6. in[r.input] \in {pin, Gates!Checked(r.input, pin)}
  <2> HIDE DEF pin
  <2> QED BY <1>3, <1>4, <1>5, WholeInput
<1>7. Gates!SameValue(w, pin) /\ Gates!SameValue(w, Gates!Checked(r.input, pin))
  BY CheckedTwice
<1> QED BY <1>2, <1>6, <1>7 DEF Gates!ValueIn

(***************************************************************************)
(* Gates: the abilities of a reply.                                        *)
(***************************************************************************)
\* What a copy is held to is counted, and is nothing only when the count is nought.
LEMMA GuardCount ==
  ASSUME NEW d, Accepted(d), NEW s \in Settings, NEW t \in Gates!Tools,
         NEW i \in DOMAIN s.picks, s.picks[i] \in DOMAIN d.caps
  PROVE  LET copy == Gates!CopyAt(d, s, t, i) IN
         Gates!Guards(copy) \in Nat /\ (Gates!Guarded(copy) <=> Gates!Guards(copy) > 0)
<1> DEFINE cap == d.caps[s.picks[i]]
           has == Gates!BoundBy(cap, s)
           asked == {p \in cap.prereqs : p.before = t}
           own == {[before |-> t, first |-> f, same |-> {}] : f \in (Def[t].first \cap has) \ {t}}
           copy == Gates!CopyAt(d, s, t, i)
<1>1. copy.waits = asked \cup own /\ copy.oneOf = (Def[t].firstAny \cap has) \ {t}
  BY DEF Gates!CopyAt, Gates!Copy
<1>2. IsFiniteSet(has)
  <2>1. has \subseteq Gates!Tools
    BY GateFacts DEF Gates!BoundBy
  <2> QED BY <2>1, GateFacts, FS_Subset
<1>3. IsFiniteSet(asked)
  <2>1. IsFiniteSet(cap.prereqs)
    BY GateFacts DEF Accepted
  <2> QED BY <2>1, FS_Subset
<1>4. IsFiniteSet(own)
  <2> HIDE DEF has
  <2>1. IsFiniteSet((Def[t].first \cap has) \ {t})
    BY <1>2, FS_Subset
  <2> DEFINE F == (Def[t].first \cap has) \ {t}
             wait == [f \in F |-> [before |-> t, first |-> f, same |-> {}]]
  <2>2. wait \in Surjection(F, own)
    BY DEF Surjection
  <2> QED BY <2>1, <2>2, FS_Surjection
<1>5. IsFiniteSet(copy.waits)
  <2> HIDE DEF asked, own, copy
  <2>1. IsFiniteSet(asked \cup own)
    BY <1>3, <1>4, FS_Union
  <2> QED BY <1>1, <2>1
<1>6. IsFiniteSet(copy.oneOf)
  <2> HIDE DEF has
  <2> QED BY <1>1, <1>2, FS_Subset
<1>7. /\ Cardinality(copy.waits) \in Nat /\ Cardinality(copy.oneOf) \in Nat
      /\ Cardinality(copy.waits) = 0 <=> copy.waits = {}
      /\ Cardinality(copy.oneOf) = 0 <=> copy.oneOf = {}
  BY <1>5, <1>6, FS_CardinalityType, FS_EmptySet
<1>8. ASSUME NEW c, Cardinality(c.waits) \in Nat, Cardinality(c.oneOf) \in Nat,
             Cardinality(c.waits) = 0 <=> c.waits = {}, Cardinality(c.oneOf) = 0 <=> c.oneOf = {}
      PROVE  Gates!Guards(c) \in Nat /\ (Gates!Guarded(c) <=> Gates!Guards(c) > 0)
  <2>1. Gates!Guards(c) = Cardinality(c.waits) + Cardinality(c.oneOf) + (IF c.own # {} THEN 1 ELSE 0)
    BY GateCount DEF Gates!Guards
  <2> QED BY <1>8, <2>1 DEF Gates!Guarded
<1> QED BY <1>7, <1>8

\* Of the picks that grant an ability one is kept first.
LEMMA OneKept ==
  ASSUME NEW d, NEW s, s.picks \in Seq({s.picks[i] : i \in DOMAIN s.picks}), NEW t,
         \A i \in Gates!Grants(d, s, t) : Gates!Guards(Gates!CopyAt(d, s, t, i)) \in Nat,
         Gates!Grants(d, s, t) # {}
  PROVE  \E i \in Gates!Grants(d, s, t) : \A j \in Gates!Grants(d, s, t) : Gates!KeptFirst(d, s, t, i, j)
<1> DEFINE G == Gates!Grants(d, s, t)
           g(i) == Gates!Guards(Gates!CopyAt(d, s, t, i))
           Beats(i, j) == g(i) > g(j) \/ (g(i) = g(j) /\ i <= j)
           Best(n) == \E i \in G : i <= n /\ \A j \in G : j <= n => Beats(i, j)
           bad == {n \in Nat : (\E i \in G : i <= n) /\ ~Best(n)}
<1>0. \A i, j : Gates!KeptFirst(d, s, t, i, j) <=> Beats(i, j)
  BY DEF Gates!KeptFirst
<1>1. /\ Len(s.picks) \in Nat
      /\ \A i \in G : i \in Nat /\ i >= 1 /\ i <= Len(s.picks)
  BY DEF Gates!Grants
<1>2. \A i \in G : g(i) \in Nat
  OBVIOUS
<1> HIDE DEF G, g
<1>3. bad = {}
  <2> SUFFICES ASSUME bad # {} PROVE FALSE
    OBVIOUS
  <2>1. PICK n \in bad : \A m \in bad : ~(<<m, n>> \in OpToRel(<, Nat))
    BY WFMin, NatLessThanWellFounded
  <2>2. n \in Nat /\ (\E i \in G : i <= n) /\ ~Best(n)
    OBVIOUS
  <2>3. \A m \in Nat : m < n => m \notin bad
    BY <2>1, <2>2 DEF OpToRel
  <2>4. n # 0
    BY <2>2, <1>1
  <2>5. n - 1 \in Nat /\ ((\E i \in G : i <= n - 1) => Best(n - 1))
    BY <2>2, <2>3, <2>4
  <2> HIDE DEF bad
  <2>6. CASE n \notin G
    <3>1. ASSUME NEW i \in G PROVE i <= n <=> i <= n - 1
      <4>1. i \in Nat /\ i # n
        BY <1>1, <2>6
      <4> QED BY <4>1, <2>2
    <3>2. \E i \in G : i <= n - 1
      BY <2>2, <3>1
    <3>3. Best(n - 1)
      BY <2>5, <3>2
    <3>4. Best(n)
      BY <3>1, <3>3
    <3> QED BY <2>2, <3>4
  <2>7. CASE n \in G /\ \E i \in G : i <= n - 1
    <3>1. PICK i \in G : i <= n - 1 /\ \A j \in G : j <= n - 1 => Beats(i, j)
      BY <2>5, <2>7
    <3>2. i \in Nat /\ i < n /\ g(i) \in Nat /\ g(n) \in Nat
      BY <1>1, <1>2, <2>2, <2>7, <3>1
    <3>3. CASE g(i) >= g(n)
      <4>1. Beats(i, n)
        <5>1. g(i) > g(n) \/ g(i) = g(n)
          BY <3>2, <3>3
        <5>2. i <= n
          BY <3>2, <2>2
        <5> QED BY <5>1, <5>2
      <4>2. \A j \in G : j <= n => j <= n - 1 \/ j = n
        BY <1>1, <2>2
      <4>3. Best(n)
        <5> HIDE DEF Beats
        <5>1. \A j \in G : j <= n => Beats(i, j)
          BY <3>1, <4>1, <4>2
        <5>2. i <= n
          BY <3>2, <2>2
        <5> QED BY <5>1, <5>2
      <4> QED BY <2>2, <4>3
    <3>4. CASE g(i) < g(n)
      <4>1. ASSUME NEW j \in G, j <= n PROVE Beats(n, j)
        <5>1. g(j) \in Nat /\ j \in Nat
          BY <1>1, <1>2
        <5>2. CASE j = n
          BY <5>1, <5>2
        <5>3. CASE j <= n - 1
          <6>1. Beats(i, j)
            BY <3>1, <5>3
          <6>2. g(i) > g(j) \/ g(i) = g(j)
            BY <6>1
          <6>3. g(n) > g(j)
            BY <6>2, <5>1, <3>2, <3>4
          <6> QED BY <6>3
        <5> QED BY <4>1, <5>1, <5>2, <5>3, <2>2
      <4>2. n <= n
        BY <2>2
      <4> QED BY <2>2, <2>7, <4>1, <4>2
    <3> QED BY <3>2, <3>3, <3>4
  <2>8. CASE n \in G /\ ~\E i \in G : i <= n - 1
    <3>1. ASSUME NEW j \in G, j <= n PROVE Beats(n, j)
      <4>1. j = n
        BY <1>1, <2>2, <2>8, <3>1
      <4>2. g(n) \in Nat
        BY <1>2, <2>8
      <4> QED BY <4>1, <4>2, <2>2
    <3>2. n <= n
      BY <2>2
    <3> QED BY <2>2, <2>8, <3>1, <3>2
  <2> QED BY <2>6, <2>7, <2>8
<1>4. (\E i \in G : i <= Len(s.picks)) /\ Len(s.picks) \in Nat
  <2>1. G # {}
    BY DEF G
  <2> QED BY <1>1, <2>1
<1>5. Best(Len(s.picks))
  BY <1>3, <1>4
<1>6. PICK i \in G : \A j \in G : Beats(i, j)
  BY <1>1, <1>5
<1> HIDE DEF Beats
<1> QED BY <1>0, <1>6 DEF G

\* Each ability of a reply is one a pick grants, held to as much as any pick holds it to.
LEMMA BoundAsKept ==
  ASSUME NEW d, d = Gates!Nothing \/ Accepted(d), NEW s \in Settings,
         \A i \in DOMAIN s.picks : s.picks[i] \in DOMAIN d.caps,
         NEW t \in DOMAIN Gates!Merge(d, s)
  PROVE  /\ t \in Gates!Tools /\ Accepted(d)
         /\ \E i \in Gates!Grants(d, s, t) :
              /\ i \in DOMAIN s.picks
              /\ Gates!Merge(d, s)[t] = Gates!CopyAt(d, s, t, i)
              /\ \A j \in Gates!Grants(d, s, t) : Gates!Guarded(Gates!CopyAt(d, s, t, j)) => Gates!Guarded(Gates!CopyAt(d, s, t, i))
<1> DEFINE G == Gates!Grants(d, s, t)
           at == CHOOSE i \in G : \A j \in G : Gates!KeptFirst(d, s, t, i, j)
<1>1. t \in Gates!Tools /\ G # {} /\ Gates!Merge(d, s)[t] = Gates!CopyAt(d, s, t, at)
  BY DEF Gates!Merge
<1>2. \A i \in G : i \in DOMAIN s.picks
  BY DEF Gates!Grants
<1>3. Accepted(d)
  <2>1. \E i \in DOMAIN s.picks : s.picks[i] \in DOMAIN d.caps
    BY <1>1, <1>2
  <2>2. DOMAIN Gates!Nothing.caps = {}
    BY DEF Gates!Nothing
  <2> QED BY <2>1, <2>2
<1>4. \A i \in G : Gates!Guards(Gates!CopyAt(d, s, t, i)) \in Nat
                   /\ (Gates!Guarded(Gates!CopyAt(d, s, t, i)) <=> Gates!Guards(Gates!CopyAt(d, s, t, i)) > 0)
  BY <1>1, <1>2, <1>3, GuardCount
<1>5. at \in G /\ \A j \in G : Gates!KeptFirst(d, s, t, at, j)
  <2>1. s.picks \in Seq({s.picks[i] : i \in DOMAIN s.picks})
    BY GateFacts
  <2>2. \E i \in G : \A j \in G : Gates!KeptFirst(d, s, t, i, j)
    BY <1>1, <1>4, <2>1, OneKept
  <2> QED BY <2>2
<1> HIDE DEF at
<1>6. ASSUME NEW j \in G, Gates!Guarded(Gates!CopyAt(d, s, t, j)) PROVE Gates!Guarded(Gates!CopyAt(d, s, t, at))
  <2>1. Gates!KeptFirst(d, s, t, at, j)
    BY <1>5
  <2>2. Gates!Guards(Gates!CopyAt(d, s, t, at)) >= Gates!Guards(Gates!CopyAt(d, s, t, j))
    BY <2>1, <1>4, <1>5 DEF Gates!KeptFirst
  <2> QED BY <2>2, <1>4, <1>5, <1>6
<1> QED BY <1>1, <1>2, <1>3, <1>5, <1>6

(***************************************************************************)
(* Gates: one step.                                                        *)
(***************************************************************************)
LEMMA GatesInit == Gates!Init => GatesIInv
<1> SUFFICES ASSUME Gates!Init PROVE GatesIInv
  OBVIOUS
<1>1. /\ reply = [pc |-> "over", with |-> "none", bound |-> <<>>, call |-> Gates!NoCall]
      /\ defs = Gates!Nothing /\ journal = {} /\ sent = <<>>
      /\ bounds = [calls |-> 0, replies |-> 0, saves |-> 0]
  BY DEF Gates!Init, Gates!Over
<1>2. Replying
  BY <1>1 DEF Replying, GatesPc
<1>3. IsSequence(sent) /\ Len(sent) = 0 /\ DOMAIN sent = {}
  BY <1>1 DEF IsSequence
<1>4. reply.pc = "over"
  BY <1>1
<1> QED BY <1>1, <1>2, <1>3, <1>4 DEF GatesIInv, Once, Noted

LEMMA OneMore ==
  ASSUME NEW s, IsSequence(s), NEW e
  PROVE  /\ IsSequence(Append(s, e)) /\ Len(s) \in Nat /\ Len(Append(s, e)) = Len(s) + 1
         /\ DOMAIN s = 1 .. Len(s) /\ DOMAIN Append(s, e) = 1 .. (Len(s) + 1)
         /\ \A i \in 1 .. Len(s) : Append(s, e)[i] = s[i]
         /\ Append(s, e)[Len(s) + 1] = e
<1> DEFINE S == {s[i] : i \in DOMAIN s} \cup {e}
           a == Append(s, e)
<1>1. s \in Seq(S) /\ e \in S
  BY DEF IsSequence
<1> HIDE DEF S
<1>2. /\ a \in Seq(S) /\ Len(s) \in Nat /\ Len(a) = Len(s) + 1
      /\ DOMAIN s = 1 .. Len(s) /\ DOMAIN a = 1 .. (Len(s) + 1)
      /\ \A i \in 1 .. Len(s) : a[i] = s[i]
      /\ a[Len(s) + 1] = e
  BY <1>1
<1> HIDE DEF a
<1>3. a \in Seq({a[i] : i \in DOMAIN a})
  BY <1>2
<1> QED BY <1>2, <1>3 DEF IsSequence, a

LEMMA WaitedOn ==
  ASSUME NEW b, NEW w, NEW s, NEW s2, NEW n, NEW t, NEW in,
         \A j \in 1 .. n : s2[j] = s[j], Waited(b, w, s, n, t, in)
  PROVE  Waited(b, w, s2, n, t, in)
<1>1. ASSUME NEW first, NEW same, Ran(s, n, first, same, in) PROVE Ran(s2, n, first, same, in)
  BY <1>1 DEF Ran
<1> QED BY <1>1 DEF Waited

\* What an ability of the reply is held to is what the agent and one capability, as accepted, hold it to.
LEMMA HeldAsStored ==
  ASSUME GatesIInv, reply.pc # "over", NEW t \in DOMAIN reply.bound
  PROVE  /\ t \in Gates!Tools
         /\ \A p \in Gates!Held(t).waits : p.same \subseteq Gates!Details
         /\ \E rules : Gates!NormalizeRules(rules) /\ Gates!Held(t).own = Gates!RulesOf(rules, t)
         /\ Gates!NormalizeRules(defs.agentRules) /\ Gates!Held(t).agents = Gates!RulesOf(defs.agentRules, t)
<1>1. /\ reply.with \in Settings /\ reply.bound = Gates!Merge(defs, reply.with)
      /\ defs = Gates!Nothing \/ Accepted(defs)
      /\ \A i \in DOMAIN reply.with.picks : reply.with.picks[i] \in DOMAIN defs.caps
  BY DEF GatesIInv, Replying
<1>2. t \in DOMAIN Gates!Merge(defs, reply.with)
  BY <1>1
<1>3. /\ t \in Gates!Tools /\ Accepted(defs)
      /\ \E i \in Gates!Grants(defs, reply.with, t) :
           i \in DOMAIN reply.with.picks /\ Gates!Merge(defs, reply.with)[t] = Gates!CopyAt(defs, reply.with, t, i)
  BY <1>1, <1>2, BoundAsKept
<1>4. PICK i \in DOMAIN reply.with.picks : Gates!Held(t) = Gates!Copy(defs, reply.with.picks[i], t, reply.with)
  BY <1>1, <1>3 DEF Gates!Held, Gates!CopyAt
<1> DEFINE cap == defs.caps[reply.with.picks[i]]
<1>5. /\ Gates!Held(t).agents = Gates!RulesOf(defs.agentRules, t) /\ Gates!Held(t).own = Gates!RulesOf(cap.rules, t)
      /\ \A p \in Gates!Held(t).waits : (p \in cap.prereqs /\ p.before = t) \/ p.same = {}
  BY <1>4 DEF Gates!Copy
<1>6. Gates!NormalizeRules(defs.agentRules) /\ Gates!NormalizeRules(cap.rules) /\ Gates!NormalizePrerequisites(cap)
  BY <1>1, <1>3 DEF Accepted
<1>7. \A p \in cap.prereqs : p.same \subseteq Def[p.before].details
  BY <1>6 DEF Gates!NormalizePrerequisites
<1>8. \A p \in Gates!Held(t).waits : p.same \subseteq Gates!Details
  BY <1>3, <1>5, <1>7, GateFacts
<1> QED BY <1>3, <1>5, <1>6, <1>8

\* What ran for the values the model gives ran for the values that are sent, where nothing else fills them in.
LEMMA RanForTheSame ==
  ASSUME GatesIInv, reply.pc # "over", NEW t \in DOMAIN reply.bound, NEW raw, NEW in \in Gates!Whole(t, raw),
         ~Gates!MustWait(t, raw)
  PROVE  Waited(reply.bound, reply.with, sent, Len(sent), t, in)
<1>0. Gates!Held(t) = reply.bound[t] /\ Gates!With = reply.with /\ DOMAIN sent = 1 .. Len(sent)
  BY OneMore DEF Gates!Held, Gates!With, GatesIInv
<1>1. t \in Gates!Tools /\ \A p \in Gates!Held(t).waits : p.same \subseteq Gates!Details
  BY HeldAsStored
<1>2. ASSUME NEW p \in reply.bound[t].waits, IsFree(reply.bound[t], t, p)
      PROVE  Ran(sent, Len(sent), p.first, p.same, in)
  <2>1. Gates!Has(p.first, p.same, raw)
    BY <1>0, <1>2 DEF Gates!MustWait
  <2>2. PICK e \in journal : e.tool = p.first /\ \A d \in p.same : Gates!SameInput(e.input[d], raw[d])
    BY <2>1 DEF Gates!Has
  <2>3. PICK j \in 1 .. Len(sent) : sent[j].tool = p.first /\ sent[j].input = e.input /\ sent[j].ran
    BY <1>0, <2>2 DEF GatesIInv, WasSent
  <2>4. ASSUME NEW d \in p.same PROVE Gates!SameValue(sent[j].input[d], in[d])
    <3>1. /\ d \in Gates!Details /\ d \notin Def[t].prepares
          /\ ~\E r \in Gates!Rules(Gates!Held(t)) : r.kind \in {"fixed", "default"} /\ r.input = d
      BY <1>0, <1>1, <1>2 DEF IsFree
    <3>2. Gates!ApplyPins(Gates!Held(t), raw)[d] = raw[d]
      BY <3>1, NotPinned
    <3>3. in[d] \in {raw[d], Gates!Checked(d, raw[d])}
      BY <1>1, <3>1, <3>2, WholeInput
    <3>4. Gates!SameInput(sent[j].input[d], raw[d])
      BY <2>2, <2>3
    <3> QED BY <3>3, <3>4, SameChecked
  <2> QED BY <2>3, <2>4 DEF Ran
<1>3. ASSUME reply.bound[t].oneOf # {}, ~reply.with.unattended
      PROVE  \E f \in reply.bound[t].oneOf : Ran(sent, Len(sent), f, {}, in)
  <2>1. PICK f \in reply.bound[t].oneOf : Gates!Has(f, {}, raw)
    BY <1>0, <1>3 DEF Gates!MustWait
  <2>2. PICK e \in journal : e.tool = f
    BY <2>1 DEF Gates!Has
  <2>3. PICK j \in 1 .. Len(sent) : sent[j].tool = f /\ sent[j].ran
    BY <1>0, <2>2 DEF GatesIInv, WasSent
  <2> QED BY <2>3 DEF Ran
<1> QED BY <1>2, <1>3 DEF Waited

\* What a call reaches a gate with keeps the rules it was bound with.
LEMMA RulesAreKept ==
  ASSUME GatesIInv, reply.pc # "over", NEW t \in DOMAIN reply.bound, NEW raw, NEW in \in Gates!Whole(t, raw),
         ~Gates!Breaks(Gates!Rules(Gates!Held(t)), in)
  PROVE  KeepsRules(reply.bound[t], in)
<1>0. Gates!Held(t) = reply.bound[t]
  BY DEF Gates!Held
<1>1. t \in Gates!Tools /\ Gates!NormalizeRules(defs.agentRules) /\ Gates!Held(t).agents = Gates!RulesOf(defs.agentRules, t)
  BY HeldAsStored
<1>2. PICK rules : Gates!NormalizeRules(rules) /\ Gates!Held(t).own = Gates!RulesOf(rules, t)
  BY HeldAsStored
<1>3. ASSUME NEW r \in Gates!Rules(Gates!Held(t)), Gates!InForce(Gates!Held(t), r)
      PROVE  Gates!ValueIn(r.values, in[r.input])
  BY <1>1, <1>2, <1>3, FixedStays
<1> QED BY <1>0, <1>3 DEF KeepsRules

\* The counters, one of which goes up with a call.
LEMMA CountedCalls ==
  ASSUME GatesIInv, bounds' = [bounds EXCEPT !.calls = @ + 1]
  PROVE  /\ bounds' = [calls |-> bounds.calls + 1, replies |-> bounds.replies, saves |-> bounds.saves]
         /\ bounds'.calls = bounds.calls + 1 /\ bounds'.calls \in Nat
         /\ bounds' = [calls |-> bounds'.calls, replies |-> bounds'.replies, saves |-> bounds'.saves]
<1>1. bounds = [calls |-> bounds.calls, replies |-> bounds.replies, saves |-> bounds.saves] /\ bounds.calls \in Nat
  BY DEF GatesIInv
<1>2. bounds' = [calls |-> bounds.calls + 1, replies |-> bounds.replies, saves |-> bounds.saves]
  BY <1>1
<1> QED BY <1>1, <1>2

\* A step within a reply that sends nothing and only takes the call further.
LEMMA OnTheWay ==
  ASSUME GatesIInv, reply.pc # "over", UNCHANGED <<defs, journal, done, sent>>,
         bounds' = [calls |-> bounds'.calls, replies |-> bounds'.replies, saves |-> bounds'.saves],
         bounds'.calls \in Nat, bounds'.calls >= bounds.calls,
         reply' = [pc |-> reply'.pc, with |-> reply.with, bound |-> reply.bound, call |-> reply'.call],
         reply'.pc \in GatesPc \ {"over"}, reply'.pc # "model" => UnderCall(reply.call)'
  PROVE  GatesIInv'
<1>1. reply'.with = reply.with /\ reply'.bound = reply.bound
  OBVIOUS
<1>2. Replying'
  BY <1>1 DEF GatesIInv, Replying
<1>3. IsSequence(sent)' /\ Len(sent') <= bounds'.calls
  <2>1. Len(sent) \in Nat /\ Len(sent) <= bounds.calls /\ bounds.calls \in Nat /\ IsSequence(sent)
    BY OneMore DEF GatesIInv
  <2> QED BY <2>1 DEF IsSequence
<1>4. \A i \in DOMAIN sent' : GoneOut(reply'.bound, reply'.with, sent', i)
  BY <1>1 DEF GatesIInv
<1>5. Once(sent') /\ Noted(sent', done') /\ \A e \in journal' : WasSent(sent', e)
  <2>1. Once(sent) /\ Noted(sent, done) /\ \A e \in journal : WasSent(sent, e)
    BY DEF GatesIInv
  <2> QED BY <2>1 DEF Once, Noted, WasSent, Gates!OnceKey
<1>6. defs' = Gates!Nothing \/ Accepted(defs')
  <2>1. defs = Gates!Nothing \/ Accepted(defs)
    BY DEF GatesIInv
  <2> QED BY <2>1
<1> QED BY <1>2, <1>3, <1>4, <1>5, <1>6 DEF GatesIInv

LEMMA ReachesKeeps ==
  ASSUME GatesIInv, NEW t, NEW raw, NEW in, Gates!Reaches(t, raw, in)
  PROVE  GatesIInv'
<1>1. /\ reply.pc = "model" /\ t \in DOMAIN reply.bound /\ in \in Gates!Whole(t, raw)
      /\ ~Gates!MustWait(t, raw) /\ ~Gates!Breaks(Gates!Rules(Gates!Held(t)), in) /\ ~Gates!AlreadyDone(t, in)
      /\ UNCHANGED <<defs, journal, done, sent>> /\ bounds' = [bounds EXCEPT !.calls = @ + 1]
      /\ reply' = [reply EXCEPT !.pc = Gates!Gate(t, {}),
                                !.call = [tool |-> t, raw |-> raw, input |-> in, passed |-> {}, approved |-> {}]]
  BY DEF Gates!Reaches, Gates!Calls, Gates!Counted
<1>2. reply = [pc |-> reply.pc, with |-> reply.with, bound |-> reply.bound, call |-> reply.call]
  BY DEF GatesIInv, Replying
<1>3. /\ reply'.pc = Gates!Gate(t, {}) /\ reply'.with = reply.with /\ reply'.bound = reply.bound
      /\ reply'.call = [tool |-> t, raw |-> raw, input |-> in, passed |-> {}, approved |-> {}]
      /\ reply' = [pc |-> reply'.pc, with |-> reply.with, bound |-> reply.bound, call |-> reply'.call]
  BY <1>1, <1>2
<1>4. reply'.pc \in {"approve", "own", "signin", "send"}
  BY <1>3 DEF Gates!Gate
<1>5. Waited(reply.bound, reply.with, sent, Len(sent), t, in) /\ KeepsRules(reply.bound[t], in)
  BY <1>1, RanForTheSame, RulesAreKept
<1>6. Len(sent) \in Nat /\ Len(sent) <= bounds.calls /\ bounds.calls \in Nat
  BY OneMore DEF GatesIInv
<1>7. bounds'.calls = bounds.calls + 1 /\ bounds'.calls \in Nat
      /\ bounds' = [calls |-> bounds'.calls, replies |-> bounds'.replies, saves |-> bounds'.saves]
  BY <1>1, CountedCalls
<1>8. UnderCall(reply.call)'
  <2>1. /\ reply'.call.tool = t /\ reply'.call.input = in /\ reply'.call.passed = {} /\ reply'.call.approved = {}
        /\ reply'.call.raw = raw
    BY <1>3
  <2>2. reply'.pc = Gates!Gate(reply.call.tool, reply.call.passed)'
    BY <1>3, <2>1 DEF Gates!Gate, Gates!Needed, Gates!Agreed, Gates!With
  <2>3. ~Gates!AlreadyDone(reply.call.tool, reply.call.input)'
    BY <1>1, <2>1 DEF Gates!AlreadyDone, Gates!OnceKey
  <2>4. Waited(reply'.bound, reply'.with, sent', Len(sent'), reply'.call.tool, reply'.call.input)
        /\ KeepsRules(reply'.bound[reply'.call.tool], reply'.call.input)
    BY <1>1, <1>3, <1>5, <2>1
  <2>5. Len(sent') < bounds'.calls
    BY <1>1, <1>6, <1>7
  <2>6. reply'.call = [tool |-> reply'.call.tool, raw |-> reply'.call.raw, input |-> reply'.call.input,
                       passed |-> reply'.call.passed, approved |-> reply'.call.approved]
    BY <1>3
  <2> QED BY <1>1, <1>3, <2>1, <2>2, <2>3, <2>4, <2>5, <2>6 DEF UnderCall
<1>9. reply'.pc \in GatesPc \ {"over"} /\ bounds'.calls >= bounds.calls
  BY <1>4, <1>6, <1>7 DEF GatesPc
<1> QED BY <1>1, <1>3, <1>7, <1>8, <1>9, OnTheWay

\* The same call further on: agreed to, or with the account.
LEMMA PassesKeeps ==
  ASSUME GatesIInv, UnderCall(reply.call), NEW passed, NEW approved,
         UNCHANGED <<defs, journal, done, sent, bounds>>,
         reply' = [pc |-> Gates!Gate(reply.call.tool, passed), with |-> reply.with, bound |-> reply.bound,
                   call |-> [tool |-> reply.call.tool, raw |-> reply.call.raw, input |-> reply.call.input,
                             passed |-> passed, approved |-> approved]],
         reply.pc # "over", \A g \in {"approve", "own"} : g \in passed => <<g, reply.call.input>> \in approved
  PROVE  GatesIInv'
<1>1. /\ reply'.pc = Gates!Gate(reply.call.tool, passed) /\ reply'.with = reply.with /\ reply'.bound = reply.bound
      /\ reply'.call.tool = reply.call.tool /\ reply'.call.input = reply.call.input
      /\ reply'.call.passed = passed /\ reply'.call.approved = approved
      /\ reply' = [pc |-> reply'.pc, with |-> reply.with, bound |-> reply.bound, call |-> reply'.call]
  OBVIOUS
<1>2. reply'.pc \in GatesPc \ {"over"}
  BY <1>1 DEF Gates!Gate, GatesPc
<1>3. UnderCall(reply.call)'
  <2>1. reply'.pc = Gates!Gate(reply.call.tool, reply.call.passed)'
    BY <1>1 DEF Gates!Gate, Gates!Needed, Gates!Agreed, Gates!With
  <2>2. ~Gates!AlreadyDone(reply.call.tool, reply.call.input)'
    <3>1. ~Gates!AlreadyDone(reply.call.tool, reply.call.input)
      BY DEF UnderCall
    <3> QED BY <1>1, <3>1 DEF Gates!AlreadyDone, Gates!OnceKey
  <2>3. reply'.call = [tool |-> reply'.call.tool, raw |-> reply'.call.raw, input |-> reply'.call.input,
                       passed |-> reply'.call.passed, approved |-> reply'.call.approved]
    OBVIOUS
  <2> QED BY <1>1, <2>1, <2>2, <2>3 DEF UnderCall
<1>4. /\ bounds' = [calls |-> bounds'.calls, replies |-> bounds'.replies, saves |-> bounds'.saves]
      /\ bounds'.calls \in Nat /\ bounds'.calls >= bounds.calls
  BY DEF GatesIInv
<1> QED BY <1>1, <1>2, <1>3, <1>4, OnTheWay

LEMMA BackKeeps ==
  ASSUME GatesIInv, reply.pc # "over", UNCHANGED <<defs, journal, done, sent, bounds>>, Gates!Back
  PROVE  GatesIInv'
<1>1. reply = [pc |-> reply.pc, with |-> reply.with, bound |-> reply.bound, call |-> reply.call]
  BY DEF GatesIInv, Replying
<1>2. /\ reply' = [pc |-> "model", with |-> reply.with, bound |-> reply.bound, call |-> Gates!NoCall]
      /\ reply' = [pc |-> reply'.pc, with |-> reply.with, bound |-> reply.bound, call |-> reply'.call]
      /\ reply'.pc = "model"
  BY <1>1 DEF Gates!Back
<1>3. /\ bounds' = [calls |-> bounds'.calls, replies |-> bounds'.replies, saves |-> bounds'.saves]
      /\ bounds'.calls \in Nat /\ bounds'.calls >= bounds.calls
  BY DEF GatesIInv
<1> QED BY <1>2, <1>3, OnTheWay DEF GatesPc

LEMMA ApprovesKeeps == ASSUME GatesIInv, Gates!Approves PROVE GatesIInv'
<1> DEFINE c == reply.call
           passed == c.passed \cup {reply.pc}
           approved == c.approved \cup {<<reply.pc, c.input>>}
<1>1. /\ reply.pc \in {"approve", "own"} /\ UNCHANGED <<defs, journal, done, sent, bounds>>
      /\ reply' = [reply EXCEPT !.pc = Gates!Gate(c.tool, passed), !.call.passed = passed,
                                !.call.approved = @ \cup {<<reply.pc, c.input>>}]
  BY DEF Gates!Approves
<1>2. UnderCall(c) /\ reply = [pc |-> reply.pc, with |-> reply.with, bound |-> reply.bound, call |-> c]
  BY <1>1 DEF GatesIInv, Replying
<1>3. /\ c = [tool |-> c.tool, raw |-> c.raw, input |-> c.input, passed |-> c.passed, approved |-> c.approved]
      /\ \A g \in {"approve", "own"} : g \in c.passed => <<g, c.input>> \in c.approved
  BY <1>2 DEF UnderCall
<1>4. reply' = [pc |-> Gates!Gate(c.tool, passed), with |-> reply.with, bound |-> reply.bound,
                call |-> [tool |-> c.tool, raw |-> c.raw, input |-> c.input, passed |-> passed, approved |-> approved]]
  BY <1>1, <1>2, <1>3
<1>5. \A g \in {"approve", "own"} : g \in passed => <<g, c.input>> \in approved
  BY <1>3
<1> QED BY <1>1, <1>2, <1>4, <1>5, PassesKeeps

LEMMA SignInKeeps == ASSUME GatesIInv, NEW has \in BOOLEAN, Gates!SignIn(has) PROVE GatesIInv'
<1> DEFINE c == reply.call  passed == c.passed \cup {"signin"}
<1>1. reply.pc = "signin" /\ UNCHANGED <<defs, journal, done, sent, bounds>>
  BY DEF Gates!SignIn
<1>2. CASE ~has
  BY <1>1, <1>2, BackKeeps DEF Gates!SignIn
<1>3. CASE has
  <2>1. reply' = [reply EXCEPT !.pc = "send", !.call.passed = @ \cup {"signin"}]
    BY <1>3 DEF Gates!SignIn
  <2>2. UnderCall(c) /\ reply = [pc |-> reply.pc, with |-> reply.with, bound |-> reply.bound, call |-> c]
    BY <1>1 DEF GatesIInv, Replying
  <2>3. /\ c = [tool |-> c.tool, raw |-> c.raw, input |-> c.input, passed |-> c.passed, approved |-> c.approved]
        /\ \A g \in {"approve", "own"} : g \in c.passed => <<g, c.input>> \in c.approved
        /\ Gates!Gate(c.tool, c.passed) = "signin"
    BY <1>1, <2>2 DEF UnderCall
  <2>4. Gates!Gate(c.tool, passed) = "send"
    BY <2>3 DEF Gates!Gate
  <2>5. reply' = [pc |-> Gates!Gate(c.tool, passed), with |-> reply.with, bound |-> reply.bound,
                  call |-> [tool |-> c.tool, raw |-> c.raw, input |-> c.input, passed |-> passed, approved |-> c.approved]]
    BY <2>1, <2>2, <2>3, <2>4
  <2>6. \A g \in {"approve", "own"} : g \in passed => <<g, c.input>> \in c.approved
    BY <2>3
  <2> QED BY <1>1, <2>2, <2>5, <2>6, PassesKeeps
<1> QED BY <1>2, <1>3

\* What is sent: agreed to, at the end of its way, and once.
LEMMA ExecuteKeeps == ASSUME GatesIInv, NEW out \in Gates!Outcomes, Gates!Execute(out) PROVE GatesIInv'
<1> DEFINE c == reply.call  t == c.tool  in == c.input  n == Len(sent)
           e == [tool |-> t, input |-> in, ran |-> (out = "ok"), approved |-> c.approved]
<1>1. /\ reply.pc = "send" /\ Gates!Back /\ UNCHANGED <<defs, bounds>>
      /\ sent' = Append(sent, e)
      /\ journal' = IF Gates!JournalNotes(out) THEN Gates!Note(t, in) ELSE journal
      /\ done' = IF Def[t].approves /\ Gates!OutcomeDone(out) THEN done \cup {<<t, Gates!OnceKey(t, in)>>} ELSE done
  BY DEF Gates!Execute
<1>2. UnderCall(c) /\ reply = [pc |-> reply.pc, with |-> reply.with, bound |-> reply.bound, call |-> c]
  BY <1>1 DEF GatesIInv, Replying
<1>3. /\ reply'.pc = "model" /\ reply'.with = reply.with /\ reply'.bound = reply.bound
      /\ reply' = [pc |-> reply'.pc, with |-> reply'.with, bound |-> reply'.bound, call |-> reply'.call]
  BY <1>1, <1>2 DEF Gates!Back
<1>4. /\ IsSequence(sent') /\ n \in Nat /\ Len(sent') = n + 1
      /\ DOMAIN sent = 1 .. n /\ DOMAIN sent' = 1 .. (n + 1)
      /\ \A i \in 1 .. n : sent'[i] = sent[i]
      /\ sent'[n + 1] = e
  <2>1. IsSequence(sent)
    BY DEF GatesIInv
  <2> HIDE DEF e
  <2> QED BY <1>1, <2>1, OneMore
<1>5. e.tool = t /\ e.input = in /\ e.ran = (out = "ok") /\ e.approved = c.approved
  OBVIOUS
<1> HIDE DEF e
<1>6. Replying'
  <2>1. /\ reply.with \in Settings
        /\ \A i \in DOMAIN reply.with.picks : reply.with.picks[i] \in DOMAIN defs.caps
        /\ reply.bound = Gates!Merge(defs, reply.with)
    BY <1>1 DEF GatesIInv, Replying
  <2> QED BY <1>1, <1>3, <2>1 DEF Replying, GatesPc
<1>7. Asked(reply.with, t, in, c.approved)
  <2>1. Gates!Gate(t, c.passed) = "send" /\ \A g \in {"approve", "own"} : g \in c.passed => <<g, in>> \in c.approved
    BY <1>1, <1>2 DEF UnderCall
  <2>2. "approve" \notin Gates!Needed(t) \ c.passed /\ "own" \notin Gates!Needed(t) \ c.passed
    BY <2>1 DEF Gates!Gate
  <2>3. ~IsAgreed(reply.with, t) /\ Def[t].approves => "approve" \in Gates!Needed(t)
    BY DEF Gates!Needed, Gates!Agreed, Gates!With, IsAgreed
  <2>4. ~IsAgreed(reply.with, t) /\ t \in reply.with.flagged /\ ~Def[t].readOnly => "own" \in Gates!Needed(t)
    BY DEF Gates!Needed, Gates!Agreed, Gates!With, IsAgreed
  <2> QED BY <2>1, <2>2, <2>3, <2>4 DEF Asked
<1>8. ASSUME NEW i \in 1 .. (n + 1) PROVE GoneOut(reply.bound, reply.with, sent', i)
  <2>1. CASE i \in 1 .. n
    <3>1. GoneOut(reply.bound, reply.with, sent, i)
      BY <1>4, <2>1 DEF GatesIInv
    <3>2. sent'[i] = sent[i] /\ \A j \in 1 .. (i - 1) : sent'[j] = sent[j]
      BY <1>4, <2>1
    <3>3. Waited(reply.bound, reply.with, sent', i - 1, sent[i].tool, sent[i].input)
      <4>1. Waited(reply.bound, reply.with, sent, i - 1, sent[i].tool, sent[i].input)
        BY <3>1 DEF GoneOut
      <4> QED BY <3>2, <4>1, WaitedOn
    <3> QED BY <3>1, <3>2, <3>3 DEF GoneOut
  <2>2. CASE i = n + 1
    <3>1. Waited(reply.bound, reply.with, sent', n, t, in)
      <4>1. Waited(reply.bound, reply.with, sent, n, t, in)
        BY <1>2 DEF UnderCall
      <4> QED BY <1>4, <4>1, WaitedOn
    <3>2. t \in DOMAIN reply.bound /\ KeepsRules(reply.bound[t], in)
      BY <1>2 DEF UnderCall
    <3>3. i - 1 = n /\ sent'[i].tool = t /\ sent'[i].input = in /\ sent'[i].approved = c.approved
      BY <1>4, <1>5, <2>2
    <3> HIDE DEF t, in, c, n
    <3> QED BY <1>7, <3>1, <3>2, <3>3 DEF GoneOut
  <2> QED BY <1>4, <2>1, <2>2
<1>9. Noted(sent', done')
  <2>1. Noted(sent, done) /\ done \subseteq done'
    BY <1>1 DEF GatesIInv
  <2>2. ASSUME NEW i \in 1 .. (n + 1), Def[sent'[i].tool].approves, sent'[i].ran
        PROVE  <<sent'[i].tool, Gates!OnceKey(sent'[i].tool, sent'[i].input)>> \in done'
    <3>1. CASE i \in 1 .. n
      BY <1>4, <2>1, <2>2, <3>1 DEF Noted
    <3>2. CASE i = n + 1
      <4>1. sent'[i].tool = t /\ sent'[i].input = in /\ out = "ok"
        BY <1>4, <1>5, <2>2, <3>2
      <4> QED BY <1>1, <2>2, <4>1 DEF Gates!OutcomeDone
    <3> QED BY <1>4, <3>1, <3>2
  <2> QED BY <1>4, <2>2 DEF Noted
<1>10. Once(sent')
  <2>1. Once(sent) /\ Noted(sent, done)
    BY DEF GatesIInv
  <2>2. ~(Def[t].approves /\ <<t, Gates!OnceKey(t, in)>> \in done)
    BY <1>2 DEF UnderCall, Gates!AlreadyDone
  <2>3. ASSUME NEW i \in 1 .. n, sent[i].tool = t, Def[t].approves, sent[i].ran
        PROVE  \E d \in Def[t].onceFor : ~Gates!SameValue(sent[i].input[d], in[d]) /\ ~Gates!SameValue(in[d], sent[i].input[d])
    <3>1. <<t, Gates!OnceKey(t, sent[i].input)>> \in done
      BY <1>4, <2>1, <2>3 DEF Noted
    <3>2. Gates!OnceKey(t, sent[i].input) # Gates!OnceKey(t, in)
      BY <2>2, <2>3, <3>1
    <3>3. PICK d \in Def[t].onceFor : Gates!AsText(Gates!Fold(sent[i].input[d])) # Gates!AsText(Gates!Fold(in[d]))
      BY <3>2 DEF Gates!OnceKey
    <3> QED BY <3>3, SameWritten
  <2>4. ASSUME NEW i \in 1 .. (n + 1), NEW j \in 1 .. (n + 1), i # j, sent'[i].tool = sent'[j].tool,
               Def[sent'[i].tool].approves, sent'[i].ran, sent'[j].ran
        PROVE  \E d \in Def[sent'[i].tool].onceFor : ~Gates!SameValue(sent'[i].input[d], sent'[j].input[d])
    <3>1. CASE i \in 1 .. n /\ j \in 1 .. n
      <4>1. sent'[i] = sent[i] /\ sent'[j] = sent[j] /\ i \in DOMAIN sent /\ j \in DOMAIN sent
        BY <1>4, <3>1
      <4> QED BY <2>1, <2>4, <4>1 DEF Once
    <3>2. CASE i \in 1 .. n /\ j = n + 1
      <4>1. sent'[i] = sent[i] /\ sent'[j] = e
        BY <1>4, <3>2
      <4> QED BY <1>5, <2>3, <2>4, <3>2, <4>1
    <3>3. CASE i = n + 1 /\ j \in 1 .. n
      <4>1. sent'[i] = e /\ sent'[j] = sent[j]
        BY <1>4, <3>3
      <4> QED BY <1>5, <2>3, <2>4, <3>3, <4>1
    <3> QED BY <1>4, <2>4, <3>1, <3>2, <3>3
  <2> QED BY <1>4, <2>4 DEF Once
<1>11. ASSUME NEW k \in journal' PROVE WasSent(sent', k)
  <2>1. CASE k \in journal
    <3>1. PICK i \in 1 .. n : sent[i].tool = k.tool /\ sent[i].input = k.input /\ sent[i].ran
      BY <1>4, <2>1 DEF GatesIInv, WasSent
    <3>2. i \in DOMAIN sent' /\ sent'[i] = sent[i]
      BY <1>4
    <3> QED BY <3>1, <3>2 DEF WasSent
  <2>2. CASE k \notin journal
    <3>1. Gates!JournalNotes(out) /\ k = [tool |-> t, input |-> in]
      BY <1>1, <1>11, <2>2 DEF Gates!Note
    <3>2. k.tool = e.tool /\ k.input = e.input /\ e.ran
      BY <1>5, <3>1 DEF Gates!JournalNotes, Gates!OutcomeDone
    <3>3. n + 1 \in DOMAIN sent'
      BY <1>4
    <3> QED BY <1>4, <3>2, <3>3 DEF WasSent
  <2> QED BY <2>1, <2>2
<1>12. Len(sent') <= bounds'.calls
  <2>1. n < bounds.calls /\ bounds.calls \in Nat
    BY <1>2 DEF UnderCall, GatesIInv
  <2> QED BY <1>1, <1>4, <2>1
<1>13. /\ bounds' = [calls |-> bounds'.calls, replies |-> bounds'.replies, saves |-> bounds'.saves]
       /\ bounds'.calls \in Nat
       /\ defs' = Gates!Nothing \/ Accepted(defs')
  BY <1>1 DEF GatesIInv
<1>14. \A i \in DOMAIN sent' : GoneOut(reply'.bound, reply'.with, sent', i)
  BY <1>3, <1>4, <1>8
<1> QED BY <1>3, <1>4, <1>6, <1>9, <1>10, <1>11, <1>12, <1>13, <1>14 DEF GatesIInv

LEMMA BetweenReplies ==
  ASSUME GatesIInv, sent' = <<>>, journal' = {}, done' = {}, bounds'.calls \in Nat,
         bounds' = [calls |-> bounds'.calls, replies |-> bounds'.replies, saves |-> bounds'.saves],
         defs' = Gates!Nothing \/ Accepted(defs'), Replying', reply'.pc \in {"over", "model"}
  PROVE  GatesIInv'
<1>1. IsSequence(sent') /\ Len(sent') = 0 /\ DOMAIN sent' = {}
  BY DEF IsSequence
<1> QED BY <1>1 DEF GatesIInv, Once, Noted

LEMMA GatesStep == GatesIInv /\ [Gates!Next]_(Gates!vars) => GatesIInv'
<1> SUFFICES ASSUME GatesIInv, [Gates!Next]_(Gates!vars) PROVE GatesIInv'
  OBVIOUS
<1>0. /\ reply = [pc |-> reply.pc, with |-> reply.with, bound |-> reply.bound, call |-> reply.call]
      /\ bounds = [calls |-> bounds.calls, replies |-> bounds.replies, saves |-> bounds.saves] /\ bounds.calls \in Nat
      /\ defs = Gates!Nothing \/ Accepted(defs)
  BY DEF GatesIInv, Replying
<1>1. CASE Gates!CreatorStores
  <2>1. /\ reply.pc = "over" /\ UNCHANGED <<reply, journal, done, sent>>
        /\ bounds' = [bounds EXCEPT !.saves = @ + 1]
        /\ \E d \in Drafts :
             /\ Gates!NormalizeRules(d.agentRules)
             /\ \A c \in DOMAIN d.caps : Gates!NormalizeRules(d.caps[c].rules) /\ Gates!NormalizePrerequisites(d.caps[c])
             /\ defs' = d
    BY <1>1 DEF Gates!CreatorStores
  <2>2. Accepted(defs')
    BY <2>1 DEF Accepted
  <2>3. Replying'
    BY <2>1 DEF GatesIInv, Replying
  <2>4. sent = <<>> /\ journal = {}
    BY <2>1 DEF GatesIInv, Replying
  <2>5. bounds'.calls = bounds.calls
        /\ bounds' = [calls |-> bounds'.calls, replies |-> bounds'.replies, saves |-> bounds'.saves]
    BY <1>0, <2>1
  <2>6. IsSequence(sent') /\ Len(sent') = 0 /\ DOMAIN sent' = {}
    BY <2>1, <2>4 DEF IsSequence
  <2> QED BY <1>0, <2>1, <2>2, <2>3, <2>4, <2>5, <2>6 DEF GatesIInv, Once, Noted
<1>2. ASSUME NEW s \in Settings, Gates!BeginReply(s) PROVE GatesIInv'
  <2>1. /\ \A i \in DOMAIN s.picks : s.picks[i] \in DOMAIN defs.caps
        /\ reply' = [pc |-> "model", with |-> s, bound |-> Gates!Merge(defs, s), call |-> Gates!NoCall]
        /\ journal' = {} /\ done' = {} /\ sent' = <<>> /\ defs' = defs
        /\ bounds' = [bounds EXCEPT !.replies = @ + 1, !.calls = 0]
    BY <1>2 DEF Gates!BeginReply
  <2>2. Replying'
    <3>1. /\ reply'.pc = "model" /\ reply'.with = s /\ reply'.bound = Gates!Merge(defs, s)
          /\ reply' = [pc |-> reply'.pc, with |-> reply'.with, bound |-> reply'.bound, call |-> reply'.call]
      BY <2>1
    <3> QED BY <2>1, <3>1 DEF Replying, GatesPc
  <2>3. reply'.pc = "model"
    BY <2>1
  <2>4. bounds'.calls = 0
        /\ bounds' = [calls |-> bounds'.calls, replies |-> bounds'.replies, saves |-> bounds'.saves]
    BY <1>0, <2>1
  <2>5. bounds'.calls \in Nat /\ (defs' = Gates!Nothing \/ Accepted(defs'))
    BY <1>0, <2>1, <2>4
  <2> QED BY <2>1, <2>2, <2>3, <2>4, <2>5, BetweenReplies
<1>3. CASE Gates!EndReply
  <2>1. /\ reply' = Gates!Over /\ journal' = {} /\ done' = {} /\ sent' = <<>> /\ UNCHANGED <<defs, bounds>>
    BY <1>3 DEF Gates!EndReply
  <2>2. Replying'
    BY <2>1 DEF Replying, GatesPc, Gates!Over
  <2>3. reply'.pc = "over"
    BY <2>1 DEF Gates!Over
  <2> QED BY <1>0, <2>1, <2>2, <2>3, BetweenReplies
<1>4. ASSUME NEW t, NEW raw, Gates!TurnedBack(t, raw) PROVE GatesIInv'
  <2>1. /\ reply.pc = "model" /\ UNCHANGED <<defs, reply, journal, done, sent>> /\ bounds' = [bounds EXCEPT !.calls = @ + 1]
    BY <1>4 DEF Gates!TurnedBack, Gates!Calls, Gates!Counted
  <2>2. bounds'.calls = bounds.calls + 1 /\ bounds'.calls \in Nat
        /\ bounds' = [calls |-> bounds'.calls, replies |-> bounds'.replies, saves |-> bounds'.saves]
    BY <2>1, CountedCalls
  <2>3. bounds'.calls >= bounds.calls
    BY <1>0, <2>2
  <2> QED BY <1>0, <2>1, <2>2, <2>3, OnTheWay DEF GatesPc
<1>5. ASSUME NEW t, NEW raw, NEW in, Gates!Reaches(t, raw, in) PROVE GatesIInv'
  BY <1>5, ReachesKeeps
<1>6. CASE Gates!Approves
  BY <1>6, ApprovesKeeps
<1>7. CASE Gates!Declines
  <2>1. reply.pc # "over" /\ UNCHANGED <<defs, journal, done, sent, bounds>> /\ Gates!Back
    BY <1>7 DEF Gates!Declines
  <2> QED BY <2>1, BackKeeps
<1>8. ASSUME NEW has \in BOOLEAN, Gates!SignIn(has) PROVE GatesIInv'
  BY <1>8, SignInKeeps
<1>9. ASSUME NEW out \in Gates!Outcomes, Gates!Execute(out) PROVE GatesIInv'
  BY <1>9, ExecuteKeeps
<1>10. CASE UNCHANGED Gates!vars
  <2>1. UNCHANGED <<defs, reply, journal, done, sent, bounds>>
    BY <1>10 DEF Gates!vars
  <2> QED BY <2>1 DEF GatesIInv, Replying, Once, Noted, WasSent, UnderCall, Gates!AlreadyDone, Gates!OnceKey, Gates!Gate,
       Gates!Needed, Gates!Agreed, Gates!With
<1> QED BY <1>1, <1>2, <1>3, <1>4, <1>5, <1>6, <1>7, <1>8, <1>9, <1>10 DEF Gates!Next

LEMMA GatesInvariance == Spec => []GatesIInv
<1>1. Init => GatesIInv
  BY GatesInit DEF Init
<1>2. GatesIInv /\ [Next]_vars => GatesIInv'
  <2> SUFFICES ASSUME GatesIInv, [Next]_vars PROVE GatesIInv'
    OBVIOUS
  <2>1. [Gates!Next]_(Gates!vars)
    BY DEF Next, vars, gatesVars, Gates!vars
  <2> QED BY <2>1, GatesStep
<1> QED BY <1>1, <1>2, PTL DEF Spec

\* What a person approves is what is sent: a change that asks first, or that its person flagged, reaches its service with
\* the very inputs approved in this call, unless it was agreed to in advance (withApprovalGate, withUserApprovalGate, prepare.go).
THEOREM ApprovalsHold == Spec => []ApprovedAsSent
<1>1. GatesIInv => ApprovedAsSent
  <2> SUFFICES ASSUME GatesIInv PROVE Gates!ApprovedAsSent
    BY DEF ApprovedAsSent
  <2>1. ASSUME NEW i \in DOMAIN sent
        PROVE  Asked(reply.with, sent[i].tool, sent[i].input, sent[i].approved)
    BY DEF GatesIInv, GoneOut
  <2> QED BY <2>1 DEF Gates!ApprovedAsSent, Gates!Sent, Gates!With, Gates!Changes, Asked, IsAgreed
<1> QED BY <1>1, GatesInvariance, PTL

\* What waits for a look-up reaches its service only after that look-up ran in the same reply, for the same values
\* (WrapPrerequisites, RunJournal.Has).
THEOREM LooksFirst == Spec => []LookedFirst
<1>1. GatesIInv => LookedFirst
  <2> SUFFICES ASSUME GatesIInv PROVE Gates!LookedFirst
    BY DEF LookedFirst
  <2>1. ASSUME NEW i \in DOMAIN sent
        PROVE  Waited(reply.bound, reply.with, sent, i - 1, sent[i].tool, sent[i].input)
    BY DEF GatesIInv, GoneOut
  <2>2. ASSUME NEW i, NEW first, NEW same, Ran(sent, i - 1, first, same, sent[i].input)
        PROVE  Gates!RanBefore(i, first, same)
    BY <2>2 DEF Ran, Gates!RanBefore, Gates!Sent
  <2>3. ASSUME NEW i \in DOMAIN sent
        PROVE  LET t == sent[i].tool IN
               /\ \A p \in Gates!Held(t).waits : Gates!Free(t, p) => Gates!RanBefore(i, p.first, p.same)
               /\ Gates!Held(t).oneOf # {} /\ ~Gates!With.unattended => \E f \in Gates!Held(t).oneOf : Gates!RanBefore(i, f, {})
    BY <2>1, <2>2 DEF Waited, IsFree, Gates!Free, Gates!Held, Gates!With
  <2> QED BY <2>3 DEF Gates!LookedFirst, Gates!Sent
<1> QED BY <1>1, GatesInvariance, PTL

\* A reply gets what was granted, held to as much as any picked capability holds it to.
LEMMA OfferedGranted == ASSUME GatesIInv PROVE Gates!OfferedAsGranted
<1> SUFFICES ASSUME reply.pc # "over" PROVE Gates!OfferedAsGranted
  BY DEF Gates!OfferedAsGranted
<1> DEFINE w == reply.with
           by == {w.picks[i] : i \in DOMAIN w.picks}
<1>1. /\ w \in Settings /\ reply.bound = Gates!Merge(defs, w)
      /\ defs = Gates!Nothing \/ Accepted(defs)
      /\ \A i \in DOMAIN w.picks : w.picks[i] \in DOMAIN defs.caps
  BY DEF GatesIInv, Replying
<1>2. w.known \subseteq Gates!Tools
  BY <1>1, GateFacts
<1> HIDE DEF w
<1>3. ASSUME NEW t \in DOMAIN reply.bound
      PROVE  /\ \E c \in by : t \in Gates!Granted(defs.caps[c], w.known, w.off)
             /\ Gates!Changes(t) => \E c \in by : t \in defs.caps[c].tools \/ Def[t].app \notin defs.caps[c].limited
             /\ (\E i \in Gates!Grants(defs, w, t) : Gates!Guarded(Gates!CopyAt(defs, w, t, i))) => Gates!Guarded(Gates!Held(t))
  <2>1. PICK i \in Gates!Grants(defs, w, t) :
          /\ i \in DOMAIN w.picks /\ Gates!Merge(defs, w)[t] = Gates!CopyAt(defs, w, t, i)
          /\ \A j \in Gates!Grants(defs, w, t) : Gates!Guarded(Gates!CopyAt(defs, w, t, j)) => Gates!Guarded(Gates!CopyAt(defs, w, t, i))
    BY <1>1, BoundAsKept
  <2>2. t \in Gates!BoundBy(defs.caps[w.picks[i]], w)
    BY <2>1 DEF Gates!Grants
  <2>3. w.picks[i] \in by
    BY <2>1
  <2>4. t \in Gates!Granted(defs.caps[w.picks[i]], w.known, w.off)
    BY <2>2 DEF Gates!BoundBy, Gates!Granted
  <2>5. Gates!Changes(t) => t \in defs.caps[w.picks[i]].tools \/ Def[t].app \notin defs.caps[w.picks[i]].limited
    BY <2>2 DEF Gates!BoundBy, Gates!Changes
  <2>6. Gates!Held(t) = Gates!CopyAt(defs, w, t, i)
    BY <1>1, <2>1 DEF Gates!Held
  <2> QED BY <2>1, <2>3, <2>4, <2>5, <2>6
<1>4. ASSUME NEW i \in DOMAIN w.picks, ~Gates!HydrateFails(defs.caps[w.picks[i]], w),
             w.running = {Def[t].app : t \in Gates!Tools}
      PROVE  Gates!Granted(defs.caps[w.picks[i]], w.known, w.off) \subseteq DOMAIN reply.bound
  <2> SUFFICES ASSUME NEW t \in Gates!Granted(defs.caps[w.picks[i]], w.known, w.off) PROVE t \in DOMAIN reply.bound
    OBVIOUS
  <2>1. t \in Gates!Tools /\ Def[t].app \in w.running
    BY <1>2, <1>4 DEF Gates!Granted
  <2>2. t \in Gates!BoundBy(defs.caps[w.picks[i]], w)
    BY <2>1 DEF Gates!Granted, Gates!BoundBy
  <2>3. i \in Gates!Grants(defs, w, t)
    BY <1>4, <2>2 DEF Gates!Grants
  <2>4. t \in DOMAIN Gates!Merge(defs, w)
    BY <2>1, <2>3 DEF Gates!Merge
  <2> QED BY <1>1, <2>4
<1> QED BY <1>3, <1>4 DEF Gates!OfferedAsGranted, Gates!With, w

\* A reply gets only what its creator granted; what reaches a service keeps the rules it was bound with, and a change that
\* asks first goes through once for each thing it acts on (HydrateSkillTools, withRules, withOneShotGuard).
THEOREM GatesHold == Spec => []GatesInv
<1>1. GatesIInv => GatesInv
  <2> SUFFICES ASSUME GatesIInv PROVE Gates!GatesInv
    BY DEF GatesInv
  <2>1. Gates!WellFormed
    <3>1. reply.pc \in {"over", "model", "approve", "own", "signin", "send"} /\ Len(sent) <= bounds.calls
      BY DEF GatesIInv, Replying, GatesPc
    <3>2. reply.pc \notin {"over", "model"} => reply.call.tool \in DOMAIN reply.bound
      BY DEF GatesIInv, UnderCall
    <3>3. reply.pc = "signin" => Gates!With.asker /\ ~Gates!With.connected
      <4>1. reply.pc = "signin" => reply.pc = Gates!Gate(reply.call.tool, reply.call.passed)
        BY DEF GatesIInv, UnderCall
      <4>2. reply.pc = "signin" => "signin" \in Gates!Needed(reply.call.tool)
        BY <4>1 DEF Gates!Gate
      <4> QED BY <4>2 DEF Gates!Needed
    <3>4. \A e \in journal : \E i \in DOMAIN sent : sent[i].tool = e.tool /\ sent[i].input = e.input /\ sent[i].ran
      BY DEF GatesIInv, WasSent
    <3> QED BY <3>1, <3>2, <3>3, <3>4 DEF Gates!WellFormed
  <2>2. Gates!RulesKept
    <3>1. ASSUME NEW i \in DOMAIN sent PROVE KeepsRules(reply.bound[sent[i].tool], sent[i].input)
      BY DEF GatesIInv, GoneOut
    <3> QED BY <3>1 DEF Gates!RulesKept, KeepsRules, Gates!Sent, Gates!Held
  <2>3. Gates!OncePerThing
    BY DEF Gates!OncePerThing, Gates!Sent, GatesIInv, Once
  <2> QED BY <2>1, <2>2, <2>3, OfferedGranted DEF Gates!GatesInv
<1> QED BY <1>1, GatesInvariance, PTL

(***************************************************************************)
(* Turns: the inductive invariant.                                         *)
(***************************************************************************)
TurnPc == {"idle", "classify", "pick", "follow", "handle", "offer", "loop", "end"}

\* What the chosen capabilities bring, for a turn with nobody there only look-ups and what was agreed.
Brought(p, t) ==
  LET all == UNION {Skill[s] : s \in t.skills}
  IN  IF Turns!Task(p) THEN Turns!Read(all) \cup (all \cap t.allowed) ELSE all

\* Where routing has settled what the message is, a task sets nothing up and an edit only looks things up.
Settled(p, t) ==
  /\ Turns!Task(p) => t.intent # "schedule"
  /\ t.lookUps => t.intent \in {"chat", "recommend"}

\* Short of what learned skills add, an ability comes with what must run first; for a question, with the look-ups of that.
BringsNeeded(a, in, all, ts) ==
  \A u \in ts \ a.learned : Tool[u].needs \cap (IF in = "recommend" THEN Turns!Read(all) ELSE all) \subseteq ts

\* What a turn that routing narrowed is offered: of the changes only those it may make, and whatever they need.
OfferHolds(a, p, t) ==
  /\ t.required \subseteq t.offered /\ t.used \subseteq t.offered
  /\ t.routed =>
       /\ Turns!Task(p) => Turns!Change(t.offered) \subseteq t.allowed
       /\ t.lookUps /\ t.intent # "chat" /\ a.learned = {} => Turns!Change(t.offered) \subseteq Platform
  /\ t.skills # {} => BringsNeeded(a, t.intent, Brought(p, t), t.offered)

TurnFields == {"pc", "short", "lookUps", "allowed", "window", "classified", "intent", "skills",
               "offered", "required", "routed", "used", "asked"}
IsTurn(t) == t = [f \in TurnFields |-> t[f]]

UnderTurn(a, p, t) ==
  /\ IsTurn(t)
  /\ Turns!Task(p) => ~t.lookUps
  /\ t.pc # "loop" => t.used = {}
  /\ t.pc \in {"classify", "pick"} => t.skills = {} /\ t.required = {}
  /\ t.pc \in {"follow", "handle", "offer"} => Settled(p, t)
  /\ t.pc = "loop" => OfferHolds(a, p, t)

EndedTurn(p, t) ==
  /\ t = [pc |-> "end", used |-> t.used, scheduled |-> t.scheduled]
  /\ Turns!Task(p) => ~t.scheduled

\* The turns that are under way.
TurnsHold ==
  /\ turn = [p \in Turns!Procs |-> turn[p]]
  /\ \A p \in Turns!Procs :
       /\ turn[p].pc \in TurnPc
       /\ turn[p].pc \notin {"idle", "end"} => UnderTurn(agent, p, turn[p])
       /\ turn[p].pc = "end" => EndedTurn(p, turn[p])

\* Until a task is routed, what is stored is what the person was doing last; and so every follow-up found it.
Remembered ==
  /\ turnPast = [turns |-> turnPast.turns, lulls |-> turnPast.lulls, doing |-> turnPast.doing,
                 taskSince |-> turnPast.taskSince, follows |-> turnPast.follows]
  /\ turnPast.doing = [skills |-> turnPast.doing.skills, fresh |-> turnPast.doing.fresh]
  /\ store = [skills |-> store.skills, fresh |-> store.fresh]
  /\ ~turnPast.taskSince => store = turnPast.doing
  /\ Turns!FollowsOn

TurnIInv == TurnsHold /\ Remembered

(***************************************************************************)
(* Turns: what is offered.                                                 *)
(***************************************************************************)
\* What is put back is of what there was, brings what it needs first, and loses nothing (keepNeeded).
LEMMA NeededKept ==
  ASSUME NEW ts, NEW all, NEW picked
  PROVE  /\ ts \subseteq Turns!KeepNeeded(ts, all, picked)
         /\ Turns!KeepNeeded(ts, all, picked) \subseteq ts \cup all
         /\ \A t \in Turns!KeepNeeded(ts, all, picked) : Tool[t].needs \cap all \subseteq Turns!KeepNeeded(ts, all, picked)
<1> DEFINE Wants(t) == Tool[t].needs \cup IF t \in picked
                         THEN Tool[t].with \cup (IF Tool[t].app = "none" \/ Tool[t].declared THEN {}
                                                 ELSE {r \in Turns!Read(all) : Tool[r].app = Tool[t].app})
                         ELSE {}
           Whole == {S \in {ts \cup more : more \in SUBSET (all \ ts)} : \A t \in S : all \cap Wants(t) \subseteq S}
           kept == Turns!KeepNeeded(ts, all, picked)
<1>1. kept = {t \in ts \cup all : \A S \in Whole : t \in S}
  BY DEF Turns!KeepNeeded
<1>2. \A t : Tool[t].needs \subseteq Wants(t)
  OBVIOUS
<1>3. \A S \in Whole : ts \subseteq S /\ \A t \in S : all \cap Wants(t) \subseteq S
  OBVIOUS
<1> HIDE DEF Whole, Wants, kept
<1>4. ASSUME NEW t \in kept, NEW r \in Tool[t].needs \cap all PROVE r \in kept
  <2>1. \A S \in Whole : t \in S
    BY <1>1, <1>4
  <2>2. \A S \in Whole : r \in S
    BY <1>2, <1>3, <1>4, <2>1
  <2> QED BY <1>1, <1>4, <2>2
<1>5. ts \subseteq kept /\ kept \subseteq ts \cup all
  BY <1>1, <1>3
<1> QED BY <1>4, <1>5 DEF kept

\* What is left of the capabilities chosen after trimming is theirs, what is required included, and brings what it needs.
LEMMA TrimmedKept ==
  ASSUME NEW p, NEW all, NEW filtered \in SUBSET all, NEW required \in SUBSET all
  PROVE  /\ required \subseteq Turns!Trimmed(p, all, filtered, required)
         /\ Turns!Trimmed(p, all, filtered, required) \subseteq all
         /\ \A t \in Turns!Trimmed(p, all, filtered, required) :
              Tool[t].needs \cap all \subseteq Turns!Trimmed(p, all, filtered, required)
<1> DEFINE trimmed == Turns!Trimmed(p, all, filtered, required)
           Good(K) == required \subseteq K /\ K \subseteq all /\ \A t \in K : Tool[t].needs \cap all \subseteq K
<1>1. Good(Turns!KeepNeeded(all, all, all))
  BY NeededKept
<1>2. ASSUME NEW kept \in SUBSET all, NEW picked PROVE Good(Turns!KeepNeeded(kept \cup required, all, picked))
  <2>1. kept \cup required \subseteq all
    OBVIOUS
  <2> QED BY <2>1, NeededKept
<1>3. Turns!WithChanges(filtered, all, filtered \cup required) \subseteq all
  BY DEF Turns!WithChanges, Turns!Change
<1>4. \/ trimmed = Turns!KeepNeeded(all, all, all)
      \/ trimmed = Turns!KeepNeeded(Turns!WithChanges(filtered, all, filtered \cup required) \cup required, all, filtered \cup required)
      \/ trimmed = Turns!KeepNeeded(filtered \cup required, all, filtered \cup required)
  BY DEF Turns!Trimmed
<1> HIDE DEF trimmed, Good
<1>5. Good(trimmed)
  BY <1>1, <1>2, <1>3, <1>4
<1> QED BY <1>5 DEF trimmed, Good

LEMMA BroughtIs == ASSUME NEW p PROVE Turns!Limited(p, UNION {Skill[s] : s \in turn[p].skills}) = Brought(p, turn[p])
BY DEF Turns!Limited, Brought

\* What a turn is offered of its capabilities: what it must do, only changes it may make, and what those need.
LEMMA OfferedKept ==
  ASSUME NEW p, NEW all, NEW filtered \in SUBSET all, NEW required \in SUBSET Turns!Change(all),
         required # {} => Turns!CanRequire(p, all),
         NEW ts, ts = Turns!Offered(p, Turns!Trimmed(p, all, filtered, required), all)
  PROVE  /\ required \subseteq ts /\ ts \subseteq all
         /\ turn[p].intent = "recommend" => Turns!Change(ts) \subseteq Turns!Learned(p)
         /\ BringsNeeded(agent, turn[p].intent, all, ts)
<1> DEFINE trimmed == Turns!Trimmed(p, all, filtered, required)
<1>1. required \subseteq all
  BY DEF Turns!Change
<1>2. /\ required \subseteq trimmed /\ trimmed \subseteq all
      /\ \A t \in trimmed : Tool[t].needs \cap all \subseteq trimmed
  BY <1>1, TrimmedKept
<1> HIDE DEF trimmed
<1>3. CASE turn[p].intent # "recommend"
  <2>1. ts = trimmed
    BY <1>3 DEF Turns!Offered, trimmed
  <2> QED BY <1>2, <1>3, <2>1 DEF BringsNeeded
<1>4. CASE turn[p].intent = "recommend"
  <2>1. ts = Turns!Read(trimmed) \cup (all \cap Turns!Learned(p))
    BY <1>4 DEF Turns!Offered, trimmed
  <2>2. required = {}
    BY <1>4 DEF Turns!CanRequire
  <2>3. Turns!Learned(p) \subseteq agent.learned
    BY DEF Turns!Learned
  <2>4. Turns!Change(ts) \subseteq Turns!Learned(p)
    BY <2>1 DEF Turns!Change, Turns!Read
  <2>5. ts \subseteq all
    BY <1>2, <2>1 DEF Turns!Read
  <2>6. ASSUME NEW u \in ts \ agent.learned, NEW r \in Tool[u].needs \cap Turns!Read(all) PROVE r \in ts
    <3>1. u \in trimmed
      BY <2>1, <2>3, <2>6 DEF Turns!Read
    <3>2. r \in trimmed /\ r \in Turns!Read(all)
      BY <1>2, <2>6, <3>1 DEF Turns!Read
    <3> QED BY <2>1, <3>2 DEF Turns!Read
  <2> QED BY <1>4, <2>2, <2>4, <2>5, <2>6 DEF BringsNeeded
<1> QED BY <1>3, <1>4

(***************************************************************************)
(* Turns: every step keeps the invariant.                                  *)
(***************************************************************************)
LEMMA NoTaskChat == "task" \notin Chats /\ \A u \in Platform : Tool[u].needs = {}
BY TurnsConstants DEF Turns!TurnConstants

LEMMA TurnsInit == ASSUME Turns!Init PROVE TurnIInv
<1>1. turn = [p \in Turns!Procs |-> [pc |-> "idle"]]
  BY DEF Turns!Init, Turns!Idle
<1>2. TurnsHold
  BY <1>1 DEF TurnsHold, TurnPc
<1>3. Remembered
  BY DEF Turns!Init, Remembered, Turns!FollowsOn
<1> QED BY <1>2, <1>3 DEF TurnIInv

\* One turn goes on, the others as before.
LEMMA TurnSet ==
  ASSUME TurnsHold, NEW p \in Turns!Procs, NEW t, Turns!Set(p, t), agent' = agent, t.pc \in TurnPc,
         t.pc \notin {"idle", "end"} => UnderTurn(agent, p, t), t.pc = "end" => EndedTurn(p, t)
  PROVE  TurnsHold'
<1>1. turn' = [turn EXCEPT ![p] = t]
  BY DEF Turns!Set
<1>2. turn' = [q \in Turns!Procs |-> turn'[q]]
  BY <1>1 DEF TurnsHold
<1>3. turn'[p] = t
  BY <1>1 DEF TurnsHold
<1>4. \A q \in Turns!Procs \ {p} : turn'[q] = turn[q]
  BY <1>1 DEF TurnsHold
<1>5. ASSUME NEW q \in Turns!Procs
      PROVE  /\ turn'[q].pc \in TurnPc
             /\ turn'[q].pc \notin {"idle", "end"} => UnderTurn(agent', q, turn'[q])
             /\ turn'[q].pc = "end" => EndedTurn(q, turn'[q])
  <2>1. CASE q = p
    BY <1>3, <2>1
  <2>2. CASE q # p
    BY <1>4, <2>2 DEF TurnsHold
  <2> QED BY <2>1, <2>2
<1> QED BY <1>2, <1>5 DEF TurnsHold

\* Into the loop, with these abilities.
LEMMA Looped ==
  ASSUME TurnsHold, NEW p \in Turns!Procs, turn[p].pc \notin {"idle", "end", "loop"}, agent' = agent,
         NEW offered, NEW required, NEW routed, Turns!LoopWith(p, offered, required, routed), required \subseteq offered,
         routed => /\ Turns!Task(p) => Turns!Change(offered) \subseteq turn[p].allowed
                   /\ turn[p].lookUps /\ turn[p].intent # "chat" /\ agent.learned = {} => Turns!Change(offered) \subseteq Platform,
         turn[p].skills # {} => BringsNeeded(agent, turn[p].intent, Brought(p, turn[p]), offered)
  PROVE  TurnsHold'
<1> DEFINE t == [turn[p] EXCEPT !.pc = "loop", !.offered = offered, !.required = required, !.routed = routed,
                                !.classified = FALSE, !.short = FALSE, !.window = <<{}, {}>>]
<1>1. Turns!Set(p, t)
  BY DEF Turns!LoopWith
<1>2. UnderTurn(agent, p, turn[p])
  BY DEF TurnsHold
<1>3. /\ IsTurn(t) /\ t.pc = "loop" /\ t.lookUps = turn[p].lookUps /\ t.allowed = turn[p].allowed
      /\ t.intent = turn[p].intent /\ t.skills = turn[p].skills /\ t.offered = offered /\ t.required = required
      /\ t.routed = routed /\ t.used = {}
  BY <1>2 DEF UnderTurn, IsTurn, TurnFields
<1> HIDE DEF t
<1>4. Brought(p, t) = Brought(p, turn[p])
  BY <1>3 DEF Brought
<1>5. OfferHolds(agent, p, t)
  BY <1>3, <1>4 DEF OfferHolds
<1>6. UnderTurn(agent, p, t) /\ t.pc = "loop"
  BY <1>2, <1>3, <1>5 DEF UnderTurn
<1> QED BY <1>1, <1>6, TurnSet DEF TurnPc

\* With no tools, or before anything was chosen.
LEMMA LoopedWithNone ==
  ASSUME TurnsHold, NEW p \in Turns!Procs, turn[p].pc \notin {"idle", "end", "loop"}, agent' = agent, Turns!Loop(p, {})
  PROVE  TurnsHold'
<1>1. Turns!LoopWith(p, {}, {}, TRUE) /\ Turns!Change({}) = {}
  BY DEF Turns!Loop, Turns!Change
<1> QED BY <1>1, Looped DEF BringsNeeded

LEMMA TurnOver ==
  ASSUME TurnsHold, NEW p \in Turns!Procs, agent' = agent, NEW scheduled, Turns!Over(p, scheduled),
         Turns!Task(p) => ~scheduled
  PROVE  TurnsHold'
<1> DEFINE t == [pc |-> "end", used |-> turn[p].used, scheduled |-> scheduled]
<1>1. Turns!Set(p, t) /\ t.pc = "end" /\ EndedTurn(p, t)
  BY DEF Turns!Over, EndedTurn
<1> HIDE DEF t
<1> QED BY <1>1, TurnSet DEF TurnPc

LEMMA TurnIdle ==
  ASSUME TurnsHold, NEW p \in Turns!Procs, agent' = agent, Turns!Set(p, Turns!Idle)
  PROVE  TurnsHold'
<1>1. Turns!Idle.pc = "idle"
  BY DEF Turns!Idle
<1> QED BY <1>1, TurnSet DEF TurnPc

LEMMA BeginKeeps ==
  ASSUME TurnsHold, NEW p \in Turns!Procs, NEW m, Turns!Begin(p, m), Turns!Task(p) => ~m.lookUps
  PROVE  TurnsHold'
<1> DEFINE t == Turns!Fresh(p, m)
<1>1. /\ Turns!Set(p, t) /\ agent' = agent
      /\ IsTurn(t)
      /\ t.pc \in {"loop", "classify"} /\ t.lookUps = m.lookUps
      /\ t.skills = {} /\ t.required = {} /\ t.used = {}
      /\ t.routed => t.offered = {} \/ t.pc # "loop"
  BY DEF Turns!Begin, Turns!Fresh, IsTurn, TurnFields
<1> HIDE DEF t
<1>2. t.pc = "loop" => OfferHolds(agent, p, t)
  BY <1>1 DEF OfferHolds, Turns!Change
<1>3. UnderTurn(agent, p, t)
  BY <1>1, <1>2 DEF UnderTurn
<1> QED BY <1>1, <1>3, TurnSet DEF TurnPc

\* A change of these fields only, before the loop.
LEMMA UnclassifiedKeeps == ASSUME TurnsHold, NEW p \in Turns!Procs, Turns!Unclassified(p) PROVE TurnsHold'
<1> DEFINE t == [turn[p] EXCEPT !.pc = "pick"]
<1>1. Turns!Set(p, t) /\ agent' = agent /\ turn[p].pc = "classify"
  BY DEF Turns!Unclassified, Turns!At
<1>2. UnderTurn(agent, p, turn[p])
  BY <1>1 DEF TurnsHold
<1>3. /\ IsTurn(t) /\ t.pc = "pick" /\ t.lookUps = turn[p].lookUps /\ t.skills = turn[p].skills
      /\ t.required = turn[p].required /\ t.used = turn[p].used
  BY <1>2 DEF UnderTurn, IsTurn, TurnFields
<1> HIDE DEF t
<1>4. UnderTurn(agent, p, t)
  BY <1>1, <1>2, <1>3 DEF UnderTurn
<1> QED BY <1>1, <1>3, <1>4, TurnSet DEF TurnPc

LEMMA ClassifyKeeps == ASSUME TurnsHold, NEW p \in Turns!Procs, NEW in, Turns!Classify(p, in) PROVE TurnsHold'
<1> DEFINE t == [turn[p] EXCEPT !.pc = "pick", !.classified = TRUE, !.intent = IF in = "chat" THEN "recommend" ELSE in]
<1>1. agent' = agent /\ turn[p].pc = "classify"
  BY DEF Turns!Classify, Turns!At
<1>2. Turns!Loop(p, {}) \/ Turns!Over(p, FALSE) \/ Turns!Set(p, t)
  BY DEF Turns!Classify
<1>3. UnderTurn(agent, p, turn[p])
  BY <1>1 DEF TurnsHold
<1>4. /\ IsTurn(t) /\ t.pc = "pick" /\ t.lookUps = turn[p].lookUps /\ t.skills = turn[p].skills
      /\ t.required = turn[p].required /\ t.used = turn[p].used
  BY <1>3 DEF UnderTurn, IsTurn, TurnFields
<1> HIDE DEF t
<1>5. UnderTurn(agent, p, t)
  BY <1>1, <1>3, <1>4 DEF UnderTurn
<1>6. CASE Turns!Set(p, t)
  BY <1>1, <1>4, <1>5, <1>6, TurnSet DEF TurnPc
<1>7. CASE Turns!Over(p, FALSE)
  BY <1>1, <1>7, TurnOver
<1>8. CASE Turns!Loop(p, {})
  BY <1>1, <1>8, LoopedWithNone
<1> QED BY <1>2, <1>6, <1>7, <1>8

\* An unattended turn is settled to doing only what was agreed, an edit to looking up.
LEMMA PickKeeps ==
  ASSUME TurnsHold, NEW p \in Turns!Procs, NEW skills, NEW read, Turns!Pick(p, skills, read)
  PROVE  TurnsHold'
<1> DEFINE in == Turns!Held(p, read)
           t == [turn[p] EXCEPT !.pc = "follow", !.intent = in, !.skills = skills]
<1>1. agent' = agent /\ turn[p].pc = "pick"
  BY DEF Turns!Pick, Turns!At
<1>2. Turns!Loop(p, {}) \/ Turns!Set(p, t)
  BY DEF Turns!Pick
<1>3. UnderTurn(agent, p, turn[p])
  BY <1>1 DEF TurnsHold
<1>4. /\ IsTurn(t) /\ t.pc = "follow" /\ t.intent = in /\ t.lookUps = turn[p].lookUps /\ t.used = turn[p].used
  BY <1>3 DEF UnderTurn, IsTurn, TurnFields
<1>5. Turns!Task(p) => in # "schedule"
  BY DEF Turns!Held
<1>6. turn[p].lookUps => in \in {"chat", "recommend"}
  BY <1>3 DEF Turns!Held, UnderTurn
<1> HIDE DEF t, in
<1>7. Settled(p, t)
  BY <1>4, <1>5, <1>6 DEF Settled
<1>8. UnderTurn(agent, p, t)
  BY <1>1, <1>3, <1>4, <1>7 DEF UnderTurn
<1>9. CASE Turns!Set(p, t)
  BY <1>1, <1>4, <1>8, <1>9, TurnSet DEF TurnPc
<1>10. CASE Turns!Loop(p, {})
  BY <1>1, <1>10, LoopedWithNone
<1> QED BY <1>2, <1>9, <1>10

LEMMA PickFailsKeeps == ASSUME TurnsHold, NEW p \in Turns!Procs, Turns!PickFails(p) PROVE TurnsHold'
<1>1. agent' = agent /\ turn[p].pc = "pick" /\ Turns!LoopWith(p, Turns!Everything(p), {}, FALSE)
  BY DEF Turns!PickFails, Turns!At
<1>2. UnderTurn(agent, p, turn[p])
  BY <1>1 DEF TurnsHold
<1>3. turn[p].skills = {}
  BY <1>1, <1>2 DEF UnderTurn
<1> QED BY <1>1, <1>3, Looped

LEMMA FollowKeeps == ASSUME TurnsHold, NEW p \in Turns!Procs, Turns!Follow(p) PROVE TurnsHold'
<1> DEFINE skills == Turns!Followed(p)
           t == [turn[p] EXCEPT !.pc = "handle", !.skills = skills]
<1>1. agent' = agent /\ turn[p].pc = "follow" /\ Turns!Set(p, t)
  BY DEF Turns!Follow, Turns!At
<1>2. UnderTurn(agent, p, turn[p])
  BY <1>1 DEF TurnsHold
<1> HIDE DEF skills
<1>3. /\ IsTurn(t) /\ t.pc = "handle" /\ t.lookUps = turn[p].lookUps /\ t.intent = turn[p].intent /\ t.used = turn[p].used
  BY <1>2 DEF UnderTurn, IsTurn, TurnFields
<1> HIDE DEF t
<1>4. UnderTurn(agent, p, t)
  BY <1>1, <1>2, <1>3 DEF UnderTurn, Settled
<1> QED BY <1>1, <1>3, <1>4, TurnSet DEF TurnPc

LEMMA HandleKeeps == ASSUME TurnsHold, NEW p \in Turns!Procs, Turns!Handle(p) \/ Turns!NotHandled(p) PROVE TurnsHold'
<1> DEFINE t == [turn[p] EXCEPT !.pc = "offer"]
<1>1. agent' = agent /\ turn[p].pc = "handle"
  BY DEF Turns!Handle, Turns!NotHandled, Turns!At
<1>2. UnderTurn(agent, p, turn[p])
  BY <1>1 DEF TurnsHold
<1>3. CASE Turns!Handle(p)
  <2>1. Turns!Over(p, TRUE) /\ turn[p].intent = "schedule"
    BY <1>3 DEF Turns!Handle, Turns!Handled
  <2>2. ~Turns!Task(p)
    BY <1>1, <1>2, <2>1 DEF UnderTurn, Settled
  <2> QED BY <1>1, <2>1, <2>2, TurnOver
<1>4. CASE Turns!NotHandled(p)
  <2>1. Turns!Set(p, t)
    BY <1>4 DEF Turns!NotHandled
  <2>2. IsTurn(t) /\ t.pc = "offer" /\ t.lookUps = turn[p].lookUps /\ t.intent = turn[p].intent /\ t.used = turn[p].used
    BY <1>2 DEF UnderTurn, IsTurn, TurnFields
  <2> HIDE DEF t
  <2>3. UnderTurn(agent, p, t)
    BY <1>1, <1>2, <2>2 DEF UnderTurn, Settled
  <2> QED BY <1>1, <2>1, <2>2, <2>3, TurnSet DEF TurnPc
<1> QED BY <1>3, <1>4

\* Where nothing matched there is nothing to offer, or the platform's actions alone.
LEMMA NothingMatchedKeeps ==
  ASSUME TurnsHold, NEW p \in Turns!Procs, NEW inScope, NEW declines, Turns!NothingMatched(p, inScope, declines)
  PROVE  TurnsHold'
<1>1. agent' = agent /\ turn[p].pc = "offer" /\ turn[p].skills = {}
  BY DEF Turns!NothingMatched, Turns!At
<1>2. \/ Turns!Loop(p, {})
      \/ Turns!Over(p, FALSE)
      \/ DOMAIN Skill = {} /\ Turns!Loop(p, Turns!Everything(p))
  BY DEF Turns!NothingMatched
<1>3. CASE Turns!Loop(p, {})
  BY <1>1, <1>3, LoopedWithNone
<1>4. CASE Turns!Over(p, FALSE)
  BY <1>1, <1>4, TurnOver
<1>5. CASE DOMAIN Skill = {} /\ Turns!Loop(p, Turns!Everything(p))
  <2>1. Turns!LoopWith(p, Turns!Everything(p), {}, TRUE)
    BY <1>5 DEF Turns!Loop
  <2>2. Turns!Own = {}
    BY <1>5 DEF Turns!Own
  <2>3. Turns!Change(Turns!Everything(p)) \subseteq Platform /\ (Turns!Task(p) => Turns!Change(Turns!Everything(p)) = {})
    BY <2>2 DEF Turns!Everything, Turns!Change
  <2> QED BY <1>1, <2>1, <2>3, Looped
<1> QED BY <1>2, <1>3, <1>4, <1>5

\* What is offered of the chosen capabilities is what the turn may use, and what that needs.
LEMMA TurnOfferKeeps ==
  ASSUME TurnsHold, NEW p \in Turns!Procs, NEW filtered, NEW required, Turns!Offer(p, filtered, required)
  PROVE  TurnsHold'
<1> DEFINE all == Turns!Limited(p, UNION {Skill[s] : s \in turn[p].skills})
           ts == Turns!Offered(p, Turns!Trimmed(p, all, filtered, required), all)
           offered == IF ts = {} THEN {} ELSE ts \cup Turns!ConvActions(p)
<1>1. /\ agent' = agent /\ turn[p].pc = "offer"
      /\ filtered \subseteq all /\ required \subseteq Turns!Change(all)
      /\ required # {} => Turns!CanRequire(p, all)
      /\ Turns!LoopWith(p, offered, required, TRUE)
  BY DEF Turns!Offer, Turns!At
<1>2. all = Brought(p, turn[p])
  BY BroughtIs
<1>3. UnderTurn(agent, p, turn[p]) /\ Settled(p, turn[p])
  BY <1>1 DEF TurnsHold, UnderTurn
<1> HIDE DEF all
<1>4. /\ required \subseteq ts /\ ts \subseteq all
      /\ turn[p].intent = "recommend" => Turns!Change(ts) \subseteq Turns!Learned(p)
      /\ BringsNeeded(agent, turn[p].intent, all, ts)
  <2>1. filtered \in SUBSET all /\ required \in SUBSET Turns!Change(all)
    BY <1>1
  <2>2. ts = Turns!Offered(p, Turns!Trimmed(p, all, filtered, required), all)
    OBVIOUS
  <2> HIDE DEF ts
  <2> QED BY <1>1, <2>1, <2>2, OfferedKept
<1>5. offered \subseteq ts \cup Turns!ConvActions(p) /\ (ts # {} => ts \subseteq offered) /\ (ts = {} => offered = {})
  OBVIOUS
<1>6. Turns!ConvActions(p) \subseteq Platform /\ (Turns!Task(p) => Turns!ConvActions(p) = {})
  BY DEF Turns!ConvActions
<1> HIDE DEF ts, offered
<1>7. required \subseteq offered
  BY <1>4, <1>5
<1>8. ASSUME Turns!Task(p) PROVE Turns!Change(offered) \subseteq turn[p].allowed
  <2>1. offered \subseteq Brought(p, turn[p])
    BY <1>2, <1>4, <1>5, <1>6, <1>8
  <2> QED BY <1>8, <2>1 DEF Turns!Change, Turns!Read, Brought
<1>9. ASSUME turn[p].lookUps, turn[p].intent # "chat", agent.learned = {} PROVE Turns!Change(offered) \subseteq Platform
  <2>1. turn[p].intent = "recommend"
    BY <1>3, <1>9 DEF Settled
  <2>2. Turns!Change(ts) = {}
    BY <1>4, <1>9, <2>1 DEF Turns!Learned
  <2> QED BY <1>5, <1>6, <2>2 DEF Turns!Change, Turns!Read
<1>10. BringsNeeded(agent, turn[p].intent, all, offered)
  <2>1. \A u \in offered : u \in ts \/ Tool[u].needs = {}
    BY <1>5, <1>6, NoTaskChat
  <2> QED BY <1>4, <1>5, <2>1 DEF BringsNeeded
<1> QED BY <1>1, <1>2, <1>7, <1>8, <1>9, <1>10, Looped

LEMMA UseKeeps == ASSUME TurnsHold, NEW p \in Turns!Procs, NEW u, Turns!Use(p, u) PROVE TurnsHold'
<1> DEFINE t == [turn[p] EXCEPT !.used = @ \cup {u}, !.asked = IF Tool[u].approves THEN @ \cup {u} ELSE @]
<1>1. agent' = agent /\ turn[p].pc = "loop" /\ u \in turn[p].offered /\ Turns!Set(p, t)
  BY DEF Turns!Use, Turns!At
<1>2. UnderTurn(agent, p, turn[p])
  BY <1>1 DEF TurnsHold
<1>3. /\ IsTurn(t) /\ t.pc = "loop" /\ t.lookUps = turn[p].lookUps /\ t.allowed = turn[p].allowed
      /\ t.intent = turn[p].intent /\ t.skills = turn[p].skills /\ t.offered = turn[p].offered
      /\ t.required = turn[p].required /\ t.routed = turn[p].routed /\ t.used = turn[p].used \cup {u}
  BY <1>1, <1>2 DEF UnderTurn, IsTurn, TurnFields
<1> HIDE DEF t
<1>4. OfferHolds(agent, p, turn[p])
  BY <1>1, <1>2 DEF UnderTurn
<1>5. Brought(p, t) = Brought(p, turn[p])
  BY <1>3 DEF Brought
<1>6. OfferHolds(agent, p, t)
  BY <1>1, <1>3, <1>4, <1>5 DEF OfferHolds
<1>7. UnderTurn(agent, p, t)
  BY <1>2, <1>3, <1>6 DEF UnderTurn
<1> QED BY <1>1, <1>3, <1>7, TurnSet DEF TurnPc

\* One step of one turn.
LEMMA TurnsKeep == ASSUME TurnsHold, Turns!Next PROVE TurnsHold'
<1>1. ASSUME NEW p \in Chats, NEW m \in Messages, Turns!Write(p, m) PROVE TurnsHold'
  <2>1. p \in Turns!Procs /\ ~Turns!Task(p)
    BY NoTaskChat DEF Turns!Procs, Turns!Task
  <2> QED BY <1>1, <2>1, BeginKeeps DEF Turns!Write
<1>2. ASSUME NEW allowed \in Allowed, NEW writeOnly \in BOOLEAN, Turns!RunTask(allowed, writeOnly) PROVE TurnsHold'
  <2>1. "task" \in Turns!Procs
    BY DEF Turns!Procs
  <2> QED BY <1>2, <2>1, BeginKeeps DEF Turns!RunTask
<1>3. ASSUME NEW p \in Turns!Procs, Turns!Step(p) PROVE TurnsHold'
  <2>1. ASSUME Turns!Reply(p) PROVE TurnsHold'
    BY <2>1, TurnOver DEF Turns!Reply
  <2>2. ASSUME Turns!Edited(p) \/ Turns!End(p) PROVE TurnsHold'
    BY <2>2, TurnIdle DEF Turns!Edited, Turns!End
  <2> QED BY <1>3, <2>1, <2>2, UnclassifiedKeeps, ClassifyKeeps, PickKeeps, PickFailsKeeps, FollowKeeps, HandleKeeps,
             NothingMatchedKeeps, TurnOfferKeeps, UseKeeps DEF Turns!Step
<1>4. ASSUME Turns!Lull PROVE TurnsHold'
  BY <1>4 DEF Turns!Lull, TurnsHold
<1> QED BY <1>1, <1>2, <1>3, <1>4 DEF Turns!Next

\* A follow-up that finds what is stored finds what the person was doing.
LEMMA FollowedIsKept == ASSUME Remembered, NEW p, Turns!Follow(p) PROVE Remembered'
<1> DEFINE skills == Turns!Followed(p)
           follow == [doing |-> turnPast.doing, got |-> skills, task |-> turnPast.taskSince,
                      used |-> Turns!LastUsed(turn[p].window)]
<1>1. /\ Turns!SetLastSkills(skills)
      /\ turnPast' = [turnPast EXCEPT
                        !.doing = IF Turns!Task(p) \/ skills = {} THEN @ ELSE [skills |-> skills, fresh |-> TRUE],
                        !.taskSince = IF skills = {} THEN @ ELSE Turns!Task(p),
                        !.follows = IF turn[p].skills = {} /\ turn[p].short THEN {follow} ELSE {}]
  BY DEF Turns!Follow
<1>2. ASSUME turn[p].skills = {}, turn[p].short, ~turnPast.taskSince
      PROVE  skills = IF turnPast.doing.fresh /\ turnPast.doing.skills # {} THEN turnPast.doing.skills
                      ELSE Turns!LastUsed(turn[p].window)
  BY <1>2 DEF Turns!Followed, Turns!LastSkills, Remembered
<1> HIDE DEF skills
<1>3. store' = IF skills = {} THEN store ELSE [skills |-> skills, fresh |-> TRUE]
  BY <1>1 DEF Turns!SetLastSkills
<1>4. /\ turnPast'.doing = IF Turns!Task(p) \/ skills = {} THEN turnPast.doing ELSE [skills |-> skills, fresh |-> TRUE]
      /\ turnPast'.taskSince = IF skills = {} THEN turnPast.taskSince ELSE Turns!Task(p)
      /\ turnPast'.follows = IF turn[p].skills = {} /\ turn[p].short THEN {follow} ELSE {}
      /\ turnPast' = [turns |-> turnPast'.turns, lulls |-> turnPast'.lulls, doing |-> turnPast'.doing,
                      taskSince |-> turnPast'.taskSince, follows |-> turnPast'.follows]
  BY <1>1 DEF Remembered
<1>5. turnPast'.doing = [skills |-> turnPast'.doing.skills, fresh |-> turnPast'.doing.fresh]
  <2>1. CASE turnPast'.doing = turnPast.doing
    BY <2>1 DEF Remembered
  <2>2. CASE turnPast'.doing = [skills |-> skills, fresh |-> TRUE]
    BY <2>2
  <2> QED BY <1>4, <2>1, <2>2
<1>6. store' = [skills |-> store'.skills, fresh |-> store'.fresh]
  BY <1>3 DEF Remembered
<1>7. ~turnPast'.taskSince => store' = turnPast'.doing
  BY <1>3, <1>4 DEF Remembered
<1>8. Turns!FollowsOn'
  BY <1>2, <1>4 DEF Turns!FollowsOn
<1> QED BY <1>4, <1>5, <1>6, <1>7, <1>8 DEF Remembered

\* Nothing but following a capability, a new turn, an end and a long silence touches what is remembered.
LEMMA RememberedKeeps == ASSUME Remembered, Turns!Next PROVE Remembered'
<1>1. ASSUME store' = store, turnPast' = turnPast PROVE Remembered'
  BY <1>1 DEF Remembered, Turns!FollowsOn
<1>2. ASSUME NEW p, NEW m, Turns!Begin(p, m) PROVE Remembered'
  BY <1>2 DEF Turns!Begin, Remembered, Turns!FollowsOn
<1>3. ASSUME NEW p, Turns!Edited(p) \/ Turns!End(p) PROVE Remembered'
  <2>1. store' = store /\ turnPast' = [turnPast EXCEPT !.follows = {}]
    BY <1>3 DEF Turns!Edited, Turns!End
  <2> QED BY <2>1 DEF Remembered, Turns!FollowsOn
<1>4. ASSUME Turns!Lull PROVE Remembered'
  <2>1. /\ store' = [store EXCEPT !.fresh = FALSE]
        /\ turnPast' = [turnPast EXCEPT !.lulls = @ + 1, !.doing.fresh = FALSE, !.follows = {}]
    BY <1>4 DEF Turns!Lull
  <2>2. store' = [skills |-> store.skills, fresh |-> FALSE]
    BY <2>1 DEF Remembered
  <2>3. /\ turnPast'.doing = [skills |-> turnPast.doing.skills, fresh |-> FALSE]
        /\ turnPast'.taskSince = turnPast.taskSince /\ turnPast'.follows = {}
        /\ turnPast' = [turns |-> turnPast'.turns, lulls |-> turnPast'.lulls, doing |-> turnPast'.doing,
                        taskSince |-> turnPast'.taskSince, follows |-> turnPast'.follows]
    BY <2>1 DEF Remembered
  <2> QED BY <2>2, <2>3 DEF Remembered, Turns!FollowsOn
<1>5. ASSUME NEW p, Turns!Step(p) PROVE Remembered'
  <2>1. \/ store' = store /\ turnPast' = turnPast
        \/ Turns!Follow(p) \/ Turns!Edited(p) \/ Turns!End(p)
    BY <1>5 DEF Turns!Step, Turns!Unclassified, Turns!Classify, Turns!Pick, Turns!PickFails, Turns!Handle, Turns!NotHandled,
                Turns!NothingMatched, Turns!Offer, Turns!Use, Turns!Reply
  <2> QED BY <1>1, <1>3, <2>1, FollowedIsKept
<1> QED BY <1>2, <1>4, <1>5 DEF Turns!Next, Turns!Write, Turns!RunTask

LEMMA TurnsStep == ASSUME TurnIInv, [Turns!Next]_(Turns!vars) PROVE TurnIInv'
<1>1. CASE Turns!Next
  BY <1>1, TurnsKeep, RememberedKeeps DEF TurnIInv
<1>2. CASE UNCHANGED Turns!vars
  BY <1>2 DEF Turns!vars, TurnIInv, TurnsHold, Remembered, Turns!FollowsOn
<1> QED BY <1>1, <1>2

LEMMA TurnInvariance == Spec => []TurnIInv
<1>1. Init => TurnIInv
  BY TurnsInit DEF Init
<1>2. TurnIInv /\ [Next]_vars => TurnIInv'
  <2> SUFFICES ASSUME TurnIInv, [Next]_vars PROVE TurnIInv'
    OBVIOUS
  <2>1. [Turns!Next]_(Turns!vars)
    BY DEF Next, vars, turnsVars, Turns!vars
  <2> QED BY <2>1, TurnsStep
<1> QED BY <1>1, <1>2, PTL DEF Spec

\* A task that routing narrowed changes only what the person agreed to and sets up no other task; an edit answered with
\* look-ups changes nothing (limitUnattended, WithUnattendedAllowing, WithLookUpsOnly).
THEOREM AgreedOnly == Spec => []OnlyAgreed
<1>1. TurnIInv => OnlyAgreed
  <2> SUFFICES ASSUME TurnIInv PROVE Turns!OnlyAgreed
    BY DEF OnlyAgreed
  <2>1. Turns!At("task", "end") => ~turn["task"].scheduled
    BY DEF TurnIInv, TurnsHold, EndedTurn, Turns!At, Turns!Procs, Turns!Task
  <2>2. ASSUME NEW p \in Turns!Procs, Turns!Narrowed(p)
        PROVE  /\ Turns!Task(p) => Turns!Change(turn[p].used) \subseteq turn[p].allowed
               /\ turn[p].lookUps /\ turn[p].intent # "chat" /\ agent.learned = {} =>
                    Turns!Change(turn[p].used) \subseteq turn[p].asked \cup Platform
    <3>1. OfferHolds(agent, p, turn[p]) /\ turn[p].routed
      BY <2>2 DEF TurnIInv, TurnsHold, UnderTurn, Turns!Narrowed, Turns!InLoop, Turns!At
    <3>2. Turns!Change(turn[p].used) \subseteq Turns!Change(turn[p].offered)
      BY <3>1 DEF OfferHolds, Turns!Change, Turns!Read
    <3> QED BY <3>1, <3>2 DEF OfferHolds
  <2> QED BY <2>1, <2>2 DEF Turns!OnlyAgreed
<1> QED BY <1>1, TurnInvariance, PTL

\* What a turn is held to do it is offered, and whatever it is offered comes with what that needs first (keepRequired,
\* keepNeeded); a short follow-up stays with what the person was doing (LastSkills, skillsLastUsed).
THEOREM TurnsAreWhole == Spec => []TurnInv
<1>1. TurnIInv => TurnInv
  <2> SUFFICES ASSUME TurnIInv PROVE Turns!TurnInv
    BY DEF TurnInv
  <2>1. ASSUME NEW p \in Turns!Procs
        PROVE  /\ turn[p].pc \in TurnPc
               /\ Turns!InLoop(p) =>
                    /\ turn[p].required \subseteq turn[p].offered
                    /\ turn[p].skills # {} => BringsNeeded(agent, turn[p].intent, Brought(p, turn[p]), turn[p].offered)
    BY DEF TurnIInv, TurnsHold, UnderTurn, OfferHolds, Turns!InLoop, Turns!At
  <2>2. Turns!HeldToOffered
    BY <2>1, BroughtIs DEF Turns!HeldToOffered, BringsNeeded, TurnPc
  <2> QED BY <2>2 DEF TurnIInv, Remembered, Turns!TurnInv
<1> QED BY <1>1, TurnInvariance, PTL
=============================================================================

------------------------------ MODULE WakePlan ------------------------------
(***************************************************************************)
(* A task whose time cannot be written as a clock (runtime/wake_plan.go):  *)
(* the agent looks up when it should happen, is woken then, confirms with  *)
(* fresh facts, and sets when it wakes next.  The model that plans calls   *)
(* its tools in any order, with any time, and stops whenever it likes; the *)
(* scheduler that keeps the task and wakes it is outside this repository.  *)
(* Also the plan of what a task may change (runtime/task_plan.go).         *)
(***************************************************************************)
EXTENDS Integers, FiniteSets

CONSTANTS MinActAhead, MinCheckAhead, MaxWakeAhead, LateWake, \* in steps of the clock
          MaxSets,   \* MaxCalls of set_next_wake
          Actions,   \* the agent's actions that change things
          Asking,    \* those its creator set to ask for approval
          MaxTime    \* bound: the clock

WakeConstants ==
  /\ {MinActAhead, MinCheckAhead, MaxWakeAhead, LateWake, MaxSets, MaxTime} \subseteq Nat
  /\ 0 < MinActAhead /\ MinActAhead <= MinCheckAhead /\ MinCheckAhead <= MaxWakeAhead
  /\ Asking \subseteq Actions

VARIABLES
  now,     \* the clock
  task,    \* the scheduler's: [next, leave]: the wake-up planned, as a set, and what may be changed
  flags,   \* the person's own approval settings: actions that ask
  st,      \* wakeState and where PlanWake is
  past     \* history: [worked, done (when last), close (two were), kept, agreed]

vars == <<now, task, flags, st, past>>

Never == -1

Wake(at, kind) == [at |-> at, kind |-> kind]
Idle == [step |-> "idle", now |-> 0, last |-> {}, due |-> FALSE, lookups |-> FALSE,
         plan |-> {}, say |-> FALSE, doNow |-> FALSE, runs |-> 0, sets |-> 0]

(***************************************************************************)
(* PlanWake                                                                *)
(***************************************************************************)
\* The first plan, one asked for in between, or the wake-up itself; Now is read once.
PlanWake(due) ==
  /\ st.step = "idle"
  /\ due => \E w \in task.next : w.at <= now
  /\ st' = [Idle EXCEPT !.step = "planning", !.now = now, !.last = task.next, !.due = due, !.runs = 1]
  /\ past' = [past EXCEPT !.worked = FALSE]
  /\ UNCHANGED <<now, task, flags>>

\* Nothing the agent could look things up with: it says so.
Unconnected ==
  /\ st.step = "planning" /\ st.runs = 1 /\ ~st.lookups /\ st.sets = 0
  /\ st' = [st EXCEPT !.step = "ended", !.say = TRUE]
  /\ UNCHANGED <<now, task, flags, past>>

\* A mistake: a look-up counts whether it worked or not.
Tried(worked) == TRUE
\* countLookups: only one that was really done.
Counted(worked) == worked

LooksUp(worked) ==
  /\ st.step = "planning"
  /\ st' = [st EXCEPT !.lookups = @ \/ Counted(worked)]
  /\ past' = [past EXCEPT !.worked = @ \/ worked]
  /\ UNCHANGED <<now, task, flags>>

MayActNow == st.due /\ \E w \in st.last : w.kind = "act" /\ st.now - w.at <= LateWake

ConfirmMoment ==
  /\ st.step = "planning" /\ MayActNow /\ st.lookups
  /\ st' = [st EXCEPT !.doNow = TRUE]
  /\ UNCHANGED <<now, task, flags, past>>

\* validate, after a look-up.
Valid(w) ==
  /\ w.at >= st.now + (IF w.kind = "check" THEN MinCheckAhead ELSE MinActAhead)
  /\ w.at <= st.now + MaxWakeAhead

\* The last time that is taken counts; a call that is refused counts against MaxCalls.
SetNextWake(w) ==
  /\ st.step = "planning" /\ st.sets < MaxSets
  /\ st' = [st EXCEPT !.sets = @ + 1, !.plan = IF st.lookups /\ Valid(w) THEN {w} ELSE @]
  /\ UNCHANGED <<now, task, flags, past>>

CannotPlan ==
  /\ st.step = "planning"
  /\ st' = [st EXCEPT !.say = TRUE]
  /\ UNCHANGED <<now, task, flags, past>>

\* The loop finishes, or runs out of turns: once it is reminded of what is needed.
LoopEnds ==
  /\ st.step = "planning"
  /\ st' = IF st.plan = {} /\ ~st.say /\ st.runs = 1 THEN [st EXCEPT !.runs = 2, !.sets = 0]
           ELSE [st EXCEPT !.step = "ended"]
  /\ UNCHANGED <<now, task, flags, past>>

\* The loop fails; if it was the first, whatever it decided is left.
LoopFails ==
  /\ st.step = "planning"
  /\ st' = IF st.runs = 1 THEN Idle ELSE [st EXCEPT !.step = "ended"]
  /\ past' = [past EXCEPT !.kept = @ /\ (st.runs = 1 => ~st.doNow)]
  /\ UNCHANGED <<now, task, flags>>

\* A plan, or words for the person, or ErrNoWakePlan.  With a plan, the scheduler has the task done
\* when it is to be done now, and keeps the wake-up; without one, it keeps what it has, or stops.
Returns ==
  /\ st.step = "ended"
  /\ \/ /\ st.plan # {}
        /\ task' = [task EXCEPT !.next = st.plan]
        /\ past' = IF st.doNow /\ MayActNow THEN [past EXCEPT !.done = st.now,
                     !.close = @ \/ (past.done # Never /\ st.now - past.done < MinActAhead)] ELSE past
     \/ /\ st.plan = {}
        /\ past' = [past EXCEPT !.kept = @ /\ ~st.doNow]
        /\ \/ UNCHANGED task
           \/ st.say /\ task' = [task EXCEPT !.next = {}]
  /\ st' = Idle
  /\ UNCHANGED <<now, flags>>

(***************************************************************************)
(* PlanTaskChanges, and the person, who agrees to exactly what is allowed. *)
(***************************************************************************)
\* A mistake: the person's own settings are left out of it.
AsksByCreator(a) == a \in Asking
Asks(a) == a \in Asking \cup flags

PlanTaskChanges(fits) ==
  /\ st.step = "idle"
  /\ LET allowed == {a \in fits : ~Asks(a)}
     IN  task' = [task EXCEPT !.leave = allowed]
  /\ past' = [past EXCEPT !.agreed = flags]
  /\ UNCHANGED <<now, flags, st>>

SetsApproval(a, on) ==
  /\ (a \in flags) # on
  /\ flags' = IF on THEN flags \cup {a} ELSE flags \ {a}
  /\ UNCHANGED <<now, task, st, past>>

Tick ==
  /\ now < MaxTime
  /\ now' = now + 1
  /\ UNCHANGED <<task, flags, st, past>>

(***************************************************************************)
(* Specification                                                           *)
(***************************************************************************)
Init ==
  /\ now = 0
  /\ task = [next |-> {}, leave |-> {}]
  /\ flags = {}
  /\ st = Idle
  /\ past = [worked |-> FALSE, done |-> Never, close |-> FALSE, kept |-> TRUE, agreed |-> {}]

Planning ==
  \/ Unconnected \/ ConfirmMoment \/ CannotPlan \/ LoopEnds \/ LoopFails \/ Returns
  \/ \E due \in BOOLEAN : PlanWake(due)
  \/ \E worked \in BOOLEAN : LooksUp(worked)
  \/ \E at \in 0..(MaxTime + 1), kind \in {"act", "check"} : SetNextWake(Wake(at, kind))

Next ==
  \/ Planning
  \/ \E fits \in SUBSET Actions : PlanTaskChanges(fits)
  \/ \E a \in Actions, on \in BOOLEAN : SetsApproval(a, on)
  \/ Tick

Spec == Init /\ [][Next]_vars

(***************************************************************************)
(* Properties                                                              *)
(***************************************************************************)
TypeOK ==
  /\ now \in 0..MaxTime
  /\ Cardinality(task.next) <= 1 /\ task.leave \subseteq Actions /\ flags \subseteq Actions
  /\ st.step \in {"idle", "planning", "ended"} /\ st.sets \in 0..MaxSets

\* A mistake of the agent's keeps the task out of sight for MaxWakeAhead at most (validate).
InSight == \A w \in task.next : w.at <= now + MaxWakeAhead

\* One moment never has the job done twice: MinActAhead passes between one doing and the next,
\* however often the agent plans, fails and is woken again (mayActNow, validate).
OncePerMoment == ~past.close

\* What a task may change with nobody there asks for no approval, by its creator's settings and by
\* the person's own as they were when the person agreed (PlanTaskChanges).
LeaveAsAgreed == task.leave \cap (Asking \cup past.agreed) = {}

WakeInv == TypeOK /\ InSight /\ OncePerMoment /\ LeaveAsAgreed

\* The job is done only on the wake-up of an act time, at most LateWake late, with a look-up that
\* worked in that very planning; and no wake-up is kept that no look-up went before
\* (confirm_moment, countLookups, validate).
DoneWhenMeant ==
  [][/\ st.step = "ended" /\ past'.done # past.done =>
          /\ past.worked
          /\ \E w \in task.next : w.kind = "act" /\ st.now - w.at \in 0..LateWake
     /\ task'.next \notin {{}, task.next} => past.worked]_vars

(***************************************************************************)
(* Said of this code and not kept (README, Disagreements).                 *)
(***************************************************************************)
\* confirm_moment's answer: "Noted: the job will be done now."
ConfirmedIsDone == past.kept
=============================================================================

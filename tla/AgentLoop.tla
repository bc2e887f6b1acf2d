------------------------------- MODULE AgentLoop -------------------------------
(***************************************************************************)
(* One reply: NativeLoop.Run (domain/loop.go), the model asked again and    *)
(* again until it finishes, with the finish check of domain/outcome.go and  *)
(* what the host tells the person of a reply that gave up (runtime/host.go).*)
(*                                                                         *)
(* The model may call anything, in any order, with any arguments, and may   *)
(* claim anything.  What its calls really did is in `times`, which the loop  *)
(* does not see: it sees what each call returned.  The loop is one          *)
(* goroutine; a call is one step of the model.                              *)
(***************************************************************************)
EXTENDS Integers, Sequences, FiniteSets

CONSTANTS
  Changers, Lookups, Others,  \* actions: Spec.Changes, Spec.ReadOnly, and neither
  Args,                       \* the exact arguments a call can have
  Requests,                   \* what may be asked of a reply: records of [held, required, lossy]
  MaxCalls,                   \* [actions -> Spec.MaxCalls, 0 for none]
  MaxIterations,              \* 0: no limit
  MaxFailures, MaxSameCalls, MaxCallsPerStep, MaxStale, MaxBounces

Names == Changers \cup Lookups \cup Others

ASSUME AgentLoopConstants ==
  /\ IsFiniteSet(Names) /\ IsFiniteSet(Args) /\ Args # {}
  /\ Changers \cap (Lookups \cup Others) = {} /\ Lookups \cap Others = {}
  /\ {"finish", "unknown"} \cap Names = {}    \* finish is looked at first; unknown is no name
  /\ Requests \subseteq [held : BOOLEAN, required : SUBSET Names, lossy : BOOLEAN]
  /\ MaxCalls \in [Names -> Nat] /\ MaxIterations \in Nat
  /\ {MaxFailures, MaxSameCalls, MaxCallsPerStep, MaxStale, MaxBounces} \subseteq Nat \ {0}

Outcomes == {"done", "cannot", "unsaid"}   \* need_details is as cannot
Action   == [name : Names, arg : Args]
Call     == Action \cup [name : {"finish"}, arg : Outcomes] \cup [name : {"unknown"}, arg : {"none"}]
Failures == {"error", "lost", "superseded"}     \* how a call can fail

VARIABLES
  request,     \* fixed: whether finish asks for an outcome the host checks, and what it
               \* requires (Requirements.Tools; {}: AnyChange); lossy: an outside service may
               \* make a change and its answer be lost
  pc,          \* "ask": callLLM is next; "run": the calls of a step; "wrap"; "ended"
  todo,        \* the step's calls that are still to be looked at
  owed,        \* calls of the history that have no answer in it
  iter, stale, failures, bounces, progressed,
  counts,      \* callCounts
  records,     \* what the loop thinks was done: {[name, done]}
  doneChanges, \* changes that went through
  lookedUp,    \* look-ups that were answered
  told,        \* what the person is told in the end
  times        \* what really was done: [Action -> how often]

vars == <<request, pc, todo, owed, iter, stale, failures, bounces, progressed, counts,
          records, doneChanges, lookedUp, told, times>>
limits == <<iter, stale, bounces, progressed>>
found  == <<request, records, doneChanges, lookedUp, times>>

Tellings ==
  {"", "quiet", "done", "own words", "partly", "nothing changed", "try again", "unavailable"}

TypeOK ==
  /\ request \in Requests
  /\ pc \in {"ask", "run", "wrap", "ended"}
  /\ Len(todo) <= MaxCallsPerStep /\ \A i \in DOMAIN todo : todo[i] \in Call
  /\ owed \in 0..MaxCallsPerStep
  /\ iter \in 0..MaxIterations /\ stale \in 0..MaxStale /\ failures \in 0..MaxFailures
  /\ bounces \in 0..(MaxBounces + 1) /\ progressed \in BOOLEAN
  /\ counts \in [Names -> Nat]
  /\ records \subseteq [name : Names, done : BOOLEAN]
  /\ doneChanges \subseteq [name : Changers, arg : Args]
  /\ lookedUp \subseteq [name : Lookups, arg : Args]
  /\ told \in Tellings /\ (told # "" <=> pc = "ended")
  /\ times \in [Action -> Nat]

Init ==
  /\ request \in Requests
  /\ pc = "ask" /\ todo = <<>> /\ owed = 0
  /\ iter = 0 /\ stale = 0 /\ failures = 0 /\ bounces = 0 /\ progressed = FALSE
  /\ counts = [n \in Names |-> 0] /\ records = {} /\ doneChanges = {} /\ lookedUp = {}
  /\ told = "" /\ times = [a \in Action |-> 0]

-----------------------------------------------------------------------------
(* Requirements and the finish check. *)

Changed == \E r \in records : r.done /\ r.name \in Changers          \* changedAnything

Satisfied ==
  IF request.required = {} THEN Changed ELSE \E r \in records : r.done /\ r.name \in request.required

Accepted(outcome) == ~request.held \/ outcome = "cannot" \/ (outcome = "done" /\ Satisfied)
Words(outcome)    == IF request.held /\ outcome = "done" THEN "done" ELSE "own words"

Facts == IF Changed THEN "partly" ELSE "nothing changed"             \* NothingChangedMessage

(* What the host says of a reply that gave up (ChangeFailed). *)
Apology ==
  IF (\E r \in records : r.name \in Changers) /\ ~Changed THEN "nothing changed" ELSE "try again"

-----------------------------------------------------------------------------
(* One call of the model. *)

Goes == (MaxIterations = 0 \/ iter < MaxIterations) /\ stale < MaxStale
NextIter == IF MaxIterations = 0 THEN 0 ELSE iter + 1

Asks(calls) ==
  /\ pc = "ask" /\ Goes
  /\ pc' = "run" /\ todo' = calls /\ owed' = owed + Len(calls) /\ progressed' = FALSE
  /\ UNCHANGED <<iter, stale, failures, bounces, counts, found, told>>

(* No calls at all, or more than MaxCallsPerStep: it is told so. *)
Nudged ==
  /\ pc = "ask" /\ Goes
  /\ failures' = failures + 1
  /\ IF failures' >= MaxFailures THEN pc' = "wrap" /\ UNCHANGED iter
                                 ELSE pc' = "ask" /\ iter' = NextIter
  /\ UNCHANGED <<todo, owed, stale, bounces, progressed, counts, found, told>>

ModelFails ==
  /\ pc = "ask" /\ Goes
  /\ pc' = "ended" /\ told' = "unavailable"
  /\ UNCHANGED <<todo, owed, limits, failures, counts, found>>

RunsOut ==
  /\ pc = "ask" /\ ~Goes
  /\ pc' = "wrap"
  /\ UNCHANGED <<todo, owed, limits, failures, counts, found, told>>

(* A mistake: a step that only repeated is not counted. *)
StepEndsFresh ==
  /\ pc = "run" /\ todo = <<>>
  /\ pc' = "ask" /\ iter' = NextIter /\ stale' = 0
  /\ UNCHANGED <<todo, owed, failures, bounces, progressed, counts, found, told>>
StepEnds ==
  /\ pc = "run" /\ todo = <<>>
  /\ pc' = "ask" /\ iter' = NextIter
  /\ stale' = IF progressed THEN 0 ELSE stale + 1
  /\ UNCHANGED <<todo, owed, failures, bounces, progressed, counts, found, told>>

-----------------------------------------------------------------------------
(* The calls of a step, in their order. *)

Calls(names) == pc = "run" /\ todo # <<>> /\ Head(todo).name \in names
This         == Head(todo)

Next1    == todo' = Tail(todo) /\ owed' = owed - 1       \* answered; on to the next
Break    == todo' = <<>> /\ owed' = owed - Len(todo)     \* "every call needs an answer"
Failure  == failures' = failures + 1 /\ pc' = IF failures' >= MaxFailures THEN "wrap" ELSE "run"

FinishAccepted ==
  /\ Calls({"finish"}) /\ Accepted(This.arg)
  /\ pc' = "ended" /\ told' = Words(This.arg)
  /\ Next1
  /\ UNCHANGED <<limits, failures, counts, found>>

FinishRefused ==
  /\ Calls({"finish"}) /\ ~Accepted(This.arg)
  /\ bounces' = bounces + 1
  /\ IF bounces' > MaxBounces THEN pc' = "ended" /\ told' = Facts /\ Next1
                              ELSE UNCHANGED <<pc, told>> /\ Break
  /\ UNCHANGED <<iter, stale, progressed, failures, counts, found>>

Unknown ==
  /\ Calls({"unknown"})
  /\ Failure /\ Next1
  /\ UNCHANGED <<limits, counts, found, told>>

LookedUpBefore ==
  /\ Calls(Lookups) /\ This \in lookedUp
  /\ Next1
  /\ UNCHANGED <<pc, limits, failures, counts, found, told>>

(* The call is counted. *)
Counted == counts' = [counts EXCEPT ![This.name] = @ + 1]

OverUsed ==
  /\ Calls(Names) /\ This \notin lookedUp /\ Counted /\ counts'[This.name] > MaxSameCalls
  /\ Failure /\ Break
  /\ UNCHANGED <<limits, found, told>>

OverCalled ==
  /\ Calls(Changers \cup Others)
  /\ Counted /\ counts'[This.name] <= MaxSameCalls
  /\ MaxCalls[This.name] > 0 /\ counts'[This.name] > MaxCalls[This.name]
  /\ Failure /\ Next1
  /\ UNCHANGED <<limits, found, told>>

Runs ==
  /\ Calls(Names) /\ This \notin lookedUp /\ Counted /\ counts'[This.name] <= MaxSameCalls
  /\ This.name \notin Lookups /\ MaxCalls[This.name] > 0 => counts'[This.name] <= MaxCalls[This.name]

ChangedBefore ==
  /\ Runs /\ This \in doneChanges
  /\ Next1
  /\ UNCHANGED <<pc, limits, failures, found, told>>

Really == times' = [times EXCEPT ![This] = @ + 1]
Note(d) == records' = records \cup {[name |-> This.name, done |-> d]}

(* A mistake: what a look-up found is not kept. *)
InvokeDoneForgetting ==
  /\ Runs /\ This \notin doneChanges
  /\ Really /\ Note(TRUE) /\ progressed' = TRUE /\ failures' = 0
  /\ doneChanges' = IF This.name \in Changers THEN doneChanges \cup {This} ELSE doneChanges
  /\ Next1
  /\ UNCHANGED <<request, pc, iter, stale, bounces, lookedUp, told>>
InvokeDone ==
  /\ Runs /\ This \notin doneChanges
  /\ Really /\ Note(TRUE) /\ progressed' = TRUE /\ failures' = 0
  /\ doneChanges' = IF This.name \in Changers THEN doneChanges \cup {This} ELSE doneChanges
  /\ lookedUp'    = IF This.name \in Lookups THEN lookedUp \cup {This} ELSE lookedUp
  /\ Next1
  /\ UNCHANGED <<request, pc, iter, stale, bounces, told>>

(* Declined, an account to connect first, or "changed": false (OutcomeOf). *)
InvokeNotDone ==
  /\ Runs /\ This \notin doneChanges
  /\ Note(FALSE) /\ progressed' = TRUE /\ failures' = 0
  /\ Next1
  /\ UNCHANGED <<request, pc, iter, stale, bounces, doneChanges, lookedUp, times, told>>

InvokeFails(ret) ==
  /\ Runs /\ This \notin doneChanges
  /\ ret = "lost" => This.name \in Changers /\ request.lossy
  /\ ret = "superseded" => This.name \in Others /\ Changed
  /\ IF ret = "lost" THEN Really ELSE UNCHANGED times
  /\ Note(FALSE) /\ progressed' = TRUE
  /\ Failure /\ Next1
  /\ UNCHANGED <<request, iter, stale, bounces, doneChanges, lookedUp, told>>

(* The person wrote instead of answering, and nothing was changed. *)

Superseded ==
  /\ Runs /\ This.name \in Others /\ ~Changed
  /\ Note(FALSE) /\ progressed' = TRUE
  /\ pc' = "ended" /\ told' = "quiet"
  /\ Break
  /\ UNCHANGED <<request, iter, stale, bounces, failures, doneChanges, lookedUp, times>>

-----------------------------------------------------------------------------
(* wrapUp: one more call, with only finish offered; or giveUp. *)

WrapUp(outcome) ==
  /\ pc = "wrap"
  /\ pc' = "ended" /\ todo' = <<>> /\ owed' = 0          \* answerOpenCalls
  /\ told' = IF Accepted(outcome) THEN Words(outcome) ELSE Facts
  /\ UNCHANGED <<limits, failures, counts, found>>

GiveUp ==
  /\ pc = "wrap"
  /\ pc' = "ended" /\ told' = Apology
  /\ UNCHANGED <<todo, owed, limits, failures, counts, found>>

Steps == UNION {[1..n -> Call] : n \in 1..MaxCallsPerStep}

Next ==
  \/ \E calls \in Steps : Asks(calls)
  \/ Nudged \/ ModelFails \/ RunsOut \/ StepEnds
  \/ FinishAccepted \/ FinishRefused \/ Unknown
  \/ LookedUpBefore \/ OverUsed \/ OverCalled \/ ChangedBefore
  \/ InvokeDone \/ InvokeNotDone \/ \E ret \in Failures : InvokeFails(ret)
  \/ Superseded
  \/ \E outcome \in Outcomes : WrapUp(outcome)
  \/ GiveUp

Spec == Init /\ [][Next]_vars

(* The model answers or fails, and calls return: callLLM and the calls are     *)
(* under the turn's deadline.                                                  *)
FairSpec == Spec /\ WF_vars(Next)

-----------------------------------------------------------------------------
(* Properties. *)

(* "The same change is never made twice in one turn, whatever makes the model *)
(* ask again" (loop.go), and the same look-up is asked once, unless a change's   *)
(* answer can be lost: then the loop takes it for one that failed.            *)
OnceEach == ~request.lossy => \A a \in Action : a.name \notin Others => times[a] <= 1

(* "done" is accepted only if something required really succeeded this turn   *)
(* (outcome.go): neither the model's words nor those of a reply that is        *)
(* wrapped up can claim otherwise.                                            *)
DoneIsDone ==
  told = "done" => \E a \in Action :
    times[a] > 0 /\ a.name \in (IF request.required = {} THEN Changers ELSE request.required)

(* A person who is told that nothing was changed, or nothing at all because   *)
(* they wrote something new, has had nothing changed (that could be known).   *)
NothingHidden ==
  ~request.lossy /\ told \in {"nothing changed", "quiet"} => \A a \in Action : a.name \in Changers => times[a] = 0

(* "Every call needs an answer" (loop.go): the history the model is asked     *)
(* with has none open.                                                        *)
AskedWithAnswers == pc = "ask" => owed = 0

(* And so has the history that a reply ends with, which is kept and is in     *)
(* front of the next message (superseded_test.go: "every call in the history  *)
(* has an answer, so the history stays valid").                               *)
FinishedWithAnswers == told \in {"done", "own words", "partly", "quiet"} => owed = 0

(* A reply ends, however often the model goes on and without a limit on its   *)
(* steps: what it can do is used up, and repeating it is not progress.        *)
Ends == <>(pc = "ended")

(* The loop's counters keep within their limits, it asks with a history that  *)
(* is complete, and does and says no more than it may (Run).                 *)
LoopInv == TypeOK /\ AskedWithAnswers /\ OnceEach /\ DoneIsDone /\ NothingHidden
=============================================================================

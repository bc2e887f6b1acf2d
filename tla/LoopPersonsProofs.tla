--------------------------- MODULE LoopPersonsProofs ---------------------------
(***************************************************************************)
(* Proofs about AgentLoop and about both parts of MCPersons: the logins      *)
(* (Accounts) and the people they belong to (People).                       *)
(*                                                                         *)
(* The loop, for any actions, arguments, requests and limits: whatever the  *)
(* model calls and claims, it keeps within its limits, makes no change      *)
(* twice, and says "done", or that nothing was changed, only when it is so. *)
(*                                                                         *)
(* The logins, for any logins, addresses, passwords and requests: however   *)
(* the requests' statements run between each other and wherever they break  *)
(* off, a confirmed address was proved, tries are bounded, a link works     *)
(* once, and a new password signs the others out.                           *)
(*                                                                         *)
(* The people, for any number of them, of chats, addresses and calls: from  *)
(* row lock to row lock, merges, links, first messages and sweeps lose and  *)
(* strand nothing but what the history admits, and no two merges wait for   *)
(* each other.                                                              *)
(***************************************************************************)
EXTENDS AgentLoop, MCPersons, SequenceTheorems, FiniteSetTheorems, WellFoundedInduction, TLAPS

-----------------------------------------------------------------------------
(* The inductive invariant. *)

(* The history owes an answer to just the calls still to be looked at.       *)
Owing ==
  /\ todo \in Seq(Call) /\ Len(todo) <= MaxCallsPerStep
  /\ owed = Len(todo) /\ (pc = "ask" => todo = <<>>)

(* Each counter is below its limit wherever another round can raise it.      *)
InLimits ==
  /\ iter \in Nat /\ stale \in Nat /\ failures \in Nat /\ bounces \in Nat /\ progressed \in BOOLEAN
  /\ IF MaxIterations = 0 THEN iter = 0
                          ELSE iter <= MaxIterations /\ (pc = "run" => iter < MaxIterations)
  /\ stale <= MaxStale /\ (pc = "run" => stale < MaxStale)
  /\ failures <= MaxFailures /\ (pc \in {"ask", "run"} => failures < MaxFailures)
  /\ bounces <= MaxBounces + 1 /\ (pc # "ended" => bounces <= MaxBounces)

FoundTypes ==
  /\ request \in Requests
  /\ records \subseteq [name : Names, done : BOOLEAN]
  /\ doneChanges \subseteq [name : Changers, arg : Args]
  /\ lookedUp \subseteq [name : Lookups, arg : Args]
  /\ counts \in [Names -> Nat] /\ times \in [Action -> Nat]

TellingTypes ==
  pc \in {"ask", "run", "wrap", "ended"} /\ told \in Tellings /\ (told # "" <=> pc = "ended")

(* What the loop believes was done is what was done: a record of success has *)
(* an action behind it, and, unless an answer may be lost, a change has its  *)
(* record, and a change or a look-up was made as often as it is remembered.  *)
Remembered(a) == IF a \in doneChanges \cup lookedUp THEN 1 ELSE 0

SuccessIsReal == \A r \in records : r.done => \E a \in Action : a.name = r.name /\ times[a] > 0

OnceNoted ==
  ~request.lossy => \A a \in Action : a.name \notin Others => times[a] = Remembered(a)

ChangesNoted ==
  ~request.lossy => \A a \in Action :
    a.name \in Changers /\ times[a] > 0 => [name |-> a.name, done |-> TRUE] \in records

IInv ==
  /\ Owing /\ InLimits /\ FoundTypes /\ TellingTypes
  /\ SuccessIsReal /\ OnceNoted /\ ChangesNoted
  /\ DoneIsDone /\ NothingHidden

-----------------------------------------------------------------------------
(* The calls of a step. *)

CallStep ==
  \/ FinishAccepted \/ FinishRefused \/ Unknown \/ LookedUpBefore \/ OverUsed \/ OverCalled
  \/ ChangedBefore \/ InvokeDone \/ InvokeNotDone \/ (\E ret \in Failures : InvokeFails(ret))
  \/ Superseded

LEMMA HeadIsCall ==
  ASSUME Owing, todo # <<>>
  PROVE  /\ This \in Call /\ Len(todo) \in Nat \ {0}
         /\ Tail(todo) \in Seq(Call) /\ Len(Tail(todo)) = Len(todo) - 1
BY HeadTailProperties, LenProperties, EmptySeq DEF Owing, This

LEMMA NamedIsAction == ASSUME Owing, Calls(Names) PROVE This \in Action /\ This.name \in Names
<1>1. This \in Call /\ This.name \in Names
  BY HeadIsCall DEF Calls, This
<1>2. This \notin [name : {"finish"}, arg : Outcomes] /\ This \notin [name : {"unknown"}, arg : {"none"}]
  BY <1>1, AgentLoopConstants
<1> QED BY <1>1, <1>2 DEF Call

LEMMA CallStepMoves ==
  CallStep => /\ pc = "run" /\ todo # <<>>
              /\ Next1 \/ Break
              /\ pc' \in {"run", "wrap", "ended"}
<1>1. Failure => pc' \in {"run", "wrap"}
  BY DEF Failure
<1>2. FinishAccepted \/ FinishRefused \/ Unknown \/ LookedUpBefore \/ OverUsed \/ OverCalled =>
        pc = "run" /\ todo # <<>> /\ (Next1 \/ Break) /\ pc' \in {"run", "wrap", "ended"}
  BY <1>1 DEF FinishAccepted, FinishRefused, Unknown, LookedUpBefore, OverUsed, OverCalled, Calls
<1>3. Runs => pc = "run" /\ todo # <<>>
  BY DEF Runs, Calls
<1>4. ChangedBefore \/ InvokeDone \/ InvokeNotDone \/ Superseded \/ (\E ret \in Failures : InvokeFails(ret)) =>
        pc = "run" /\ todo # <<>> /\ (Next1 \/ Break) /\ pc' \in {"run", "wrap", "ended"}
  BY <1>1, <1>3 DEF ChangedBefore, InvokeDone, InvokeNotDone, Superseded, InvokeFails
<1> QED BY <1>2, <1>4 DEF CallStep

LEMMA Moves ==
  [Next]_vars <=> \/ \E calls \in Steps : Asks(calls)
                  \/ Nudged \/ ModelFails \/ RunsOut \/ StepEnds
                  \/ CallStep
                  \/ (\E outcome \in Outcomes : WrapUp(outcome)) \/ GiveUp
                  \/ UNCHANGED vars
BY DEF Next, CallStep

LEMMA OwingStep == Owing /\ [Next]_vars => Owing'
<1> SUFFICES ASSUME Owing, [Next]_vars PROVE Owing'
  OBVIOUS
<1>0. /\ todo \in Seq(Call) /\ Len(todo) \in Nat /\ Len(todo) <= MaxCallsPerStep /\ owed = Len(todo)
      /\ MaxCallsPerStep \in Nat /\ (pc = "ask" => todo = <<>>)
      /\ <<>> \in Seq(Call) /\ Len(<<>>) = 0
  BY LenProperties, EmptySeq, AgentLoopConstants DEF Owing
<1>1. ASSUME NEW calls \in Steps, Asks(calls) PROVE Owing'
  <2>1. PICK n \in 1..MaxCallsPerStep : calls \in [1..n -> Call]
    BY <1>1 DEF Steps
  <2>2. calls \in Seq(Call) /\ Len(calls) = n
    BY <2>1, <1>0
  <2> QED BY <1>0, <1>1, <2>1, <2>2 DEF Asks, Owing
<1>2. CASE CallStep
  <2>1. todo # <<>> /\ (Next1 \/ Break) /\ pc' # "ask"
    BY <1>2, CallStepMoves
  <2>2. Tail(todo) \in Seq(Call) /\ Len(Tail(todo)) = Len(todo) - 1
    BY <2>1, HeadIsCall
  <2>3. CASE Next1
    BY <1>0, <2>1, <2>2, <2>3 DEF Next1, Owing
  <2>4. CASE Break
    <3>1. todo' = <<>> /\ owed' = 0
      BY <1>0, <2>4 DEF Break
    <3> QED BY <1>0, <2>1, <3>1 DEF Owing
  <2> QED BY <2>1, <2>3, <2>4
<1>3. CASE StepEnds
  BY <1>0, <1>3 DEF StepEnds, Owing
<1>4. ASSUME NEW o \in Outcomes, WrapUp(o) PROVE Owing'
  BY <1>0, <1>4 DEF WrapUp, Owing
<1>5. CASE Nudged \/ ModelFails \/ RunsOut \/ GiveUp \/ UNCHANGED vars
  <2>1. todo' = todo /\ owed' = owed /\ (pc' = "ask" => pc = "ask")
    BY <1>5 DEF Nudged, ModelFails, RunsOut, GiveUp, vars
  <2> QED BY <1>0, <2>1 DEF Owing
<1> QED BY <1>1, <1>2, <1>3, <1>4, <1>5, Moves

(* What a call does to the counters. *)
LEMMA CallStepCounts ==
  ASSUME CallStep, InLimits
  PROVE  /\ iter' = iter /\ stale' = stale /\ progressed' \in BOOLEAN
         /\ \/ failures' = failures \/ failures' = 0
            \/ failures' = failures + 1 /\ (failures + 1 >= MaxFailures => pc' # "run")
         /\ bounces' = bounces \/ (bounces' = bounces + 1 /\ (bounces + 1 > MaxBounces => pc' = "ended"))
<1> DEFINE F == failures' = failures + 1 /\ (failures + 1 >= MaxFailures => pc' # "run")
           B == bounces' = bounces + 1 /\ (bounces + 1 > MaxBounces => pc' = "ended")
<1>0. progressed \in BOOLEAN /\ pc = "run"
  BY CallStepMoves DEF InLimits
<1>1. Failure => F
  BY DEF Failure
<1>2. CASE FinishAccepted \/ LookedUpBefore \/ ChangedBefore
  BY <1>0, <1>2 DEF FinishAccepted, LookedUpBefore, ChangedBefore, limits
<1>3. CASE FinishRefused
  BY <1>0, <1>3 DEF FinishRefused
<1>4. CASE Unknown \/ OverUsed \/ OverCalled
  BY <1>0, <1>1, <1>4 DEF Unknown, OverUsed, OverCalled, limits
<1>5. CASE InvokeDone \/ InvokeNotDone \/ Superseded
  BY <1>5 DEF InvokeDone, InvokeNotDone, Superseded
<1>6. CASE \E ret \in Failures : InvokeFails(ret)
  BY <1>1, <1>6 DEF InvokeFails
<1> QED BY <1>2, <1>3, <1>4, <1>5, <1>6 DEF CallStep

LEMMA InLimitsStep == InLimits /\ TellingTypes /\ [Next]_vars => InLimits'
<1> SUFFICES ASSUME InLimits, TellingTypes, [Next]_vars PROVE InLimits'
  OBVIOUS
<1>0. MaxIterations \in Nat /\ {MaxFailures, MaxStale, MaxBounces} \subseteq Nat \ {0}
  BY AgentLoopConstants
<1>1. ASSUME NEW calls \in Steps, Asks(calls) PROVE InLimits'
  BY <1>0, <1>1 DEF Asks, Goes, InLimits
<1>2. CASE Nudged
  BY <1>0, <1>2 DEF Nudged, Goes, NextIter, InLimits
<1>3. CASE StepEnds
  BY <1>0, <1>3 DEF StepEnds, NextIter, InLimits
<1>4. CASE CallStep
  BY <1>0, <1>4, CallStepCounts, CallStepMoves DEF InLimits
<1>5. CASE ModelFails \/ RunsOut \/ GiveUp \/ (\E outcome \in Outcomes : WrapUp(outcome))
  BY <1>0, <1>5 DEF ModelFails, RunsOut, GiveUp, WrapUp, InLimits, limits
<1>6. CASE UNCHANGED vars
  BY <1>6 DEF vars, InLimits
<1> QED BY <1>1, <1>2, <1>3, <1>4, <1>5, <1>6, Moves

-----------------------------------------------------------------------------
(* What is found out, and what is remembered of it. *)

Succeeded ==
  /\ Really /\ Note(TRUE)
  /\ doneChanges' = IF This.name \in Changers THEN doneChanges \cup {This} ELSE doneChanges
  /\ lookedUp'    = IF This.name \in Lookups THEN lookedUp \cup {This} ELSE lookedUp

NotDone ==
  /\ Note(FALSE) /\ UNCHANGED <<doneChanges, lookedUp>>
  /\ UNCHANGED times \/ (Really /\ request.lossy)

LEMMA FoundMoves ==
  FoundTypes /\ [Next]_vars =>
    /\ request' = request
    /\ counts' = counts \/ (Calls(Names) /\ Counted)
    /\ \/ UNCHANGED <<records, doneChanges, lookedUp, times>>
       \/ /\ Calls(Names) /\ This \notin doneChanges \cup lookedUp
          /\ Succeeded \/ NotDone
<1> DEFINE Same == UNCHANGED <<records, doneChanges, lookedUp, times>>
           Tried == Calls(Names) /\ This \notin doneChanges \cup lookedUp /\ (Succeeded \/ NotDone)
           Goal == /\ request' = request
                   /\ counts' = counts \/ (Calls(Names) /\ Counted)
                   /\ Same \/ Tried
<1>1. ASSUME NEW calls \in Steps, Asks(calls) PROVE Goal
  BY <1>1 DEF Asks, found
<1>2. CASE Nudged \/ ModelFails \/ RunsOut \/ StepEnds \/ GiveUp \/ (\E outcome \in Outcomes : WrapUp(outcome))
  BY <1>2 DEF Nudged, ModelFails, RunsOut, StepEnds, GiveUp, WrapUp, found
<1>3. CASE FinishAccepted \/ FinishRefused \/ Unknown \/ LookedUpBefore
  BY <1>3 DEF FinishAccepted, FinishRefused, Unknown, LookedUpBefore, found
<1>4. CASE OverUsed \/ OverCalled \/ ChangedBefore
  <2>1. Calls(Changers \cup Others) => Calls(Names)
    BY DEF Calls, Names
  <2> QED BY <1>4, <2>1 DEF OverUsed, OverCalled, ChangedBefore, Runs, found
<1>5. ASSUME Runs, This \notin doneChanges
      PROVE  Calls(Names) /\ Counted /\ This \notin doneChanges \cup lookedUp
  BY <1>5 DEF Runs
<1>6. CASE InvokeDone
  BY <1>5, <1>6 DEF InvokeDone, Succeeded
<1>7. CASE InvokeNotDone
  BY <1>5, <1>7 DEF InvokeNotDone, NotDone
<1>8. ASSUME NEW ret \in Failures, InvokeFails(ret) PROVE Goal
  BY <1>5, <1>8 DEF InvokeFails, NotDone
<1>9. CASE Superseded
  <2>1. Runs => Calls(Names) /\ Counted /\ This \notin lookedUp
    BY DEF Runs
  <2>2. Note(FALSE) /\ UNCHANGED <<doneChanges, lookedUp, times, request>>
    BY <1>9 DEF Superseded
  <2>3. FoundTypes => This \notin doneChanges
    BY <1>9, AgentLoopConstants DEF Superseded, FoundTypes
  <2> QED BY <1>9, <2>1, <2>2, <2>3 DEF Superseded, NotDone
<1>10. CASE UNCHANGED vars
  BY <1>10 DEF vars
<1> QED BY <1>1, <1>2, <1>3, <1>4, <1>6, <1>7, <1>8, <1>9, <1>10, Moves DEF CallStep

LEMMA FoundTypesStep == Owing /\ FoundTypes /\ [Next]_vars => FoundTypes'
<1> SUFFICES ASSUME Owing, FoundTypes, [Next]_vars PROVE FoundTypes'
  OBVIOUS
<1>0. /\ request \in Requests
      /\ records \subseteq [name : Names, done : BOOLEAN]
      /\ doneChanges \subseteq [name : Changers, arg : Args]
      /\ lookedUp \subseteq [name : Lookups, arg : Args]
      /\ counts \in [Names -> Nat] /\ times \in [Action -> Nat]
  BY DEF FoundTypes
<1>1. counts' \in [Names -> Nat]
  <2>1. ASSUME NEW n \in Names PROVE [counts EXCEPT ![n] = @ + 1] \in [Names -> Nat]
    BY <1>0
  <2> QED BY <1>0, <2>1, FoundMoves, NamedIsAction DEF Counted
<1>2. ASSUME Calls(Names), Really PROVE times' \in [Action -> Nat]
  <2>1. PICK a \in Action : a = This
    BY <1>2, NamedIsAction
  <2> QED BY <1>0, <1>2, <2>1 DEF Really
<1>3. ASSUME Calls(Names), NEW b \in BOOLEAN, Note(b) PROVE records' \subseteq [name : Names, done : BOOLEAN]
  BY <1>0, <1>3, NamedIsAction DEF Note
<1>4. ASSUME Calls(Names), Succeeded
      PROVE  /\ doneChanges' \subseteq [name : Changers, arg : Args]
             /\ lookedUp' \subseteq [name : Lookups, arg : Args]
  <2>1. This \in [name : Names, arg : Args]
    BY <1>4, NamedIsAction DEF Action
  <2>2. This.name \in Changers => This \in [name : Changers, arg : Args]
    BY <2>1
  <2>3. This.name \in Lookups => This \in [name : Lookups, arg : Args]
    BY <2>1
  <2> QED BY <1>0, <1>4, <2>2, <2>3 DEF Succeeded
<1>5. CASE UNCHANGED <<records, doneChanges, lookedUp, times>>
  BY <1>0, <1>1, <1>5, FoundMoves DEF FoundTypes
<1>6. CASE Calls(Names) /\ Succeeded
  <2>1. Really /\ Note(TRUE)
    BY <1>6 DEF Succeeded
  <2> QED BY <1>0, <1>1, <1>2, <1>3, <1>4, <1>6, <2>1, FoundMoves DEF FoundTypes
<1>7. CASE Calls(Names) /\ NotDone
  <2>1. Note(FALSE) /\ UNCHANGED <<doneChanges, lookedUp>> /\ (UNCHANGED times \/ Really)
    BY <1>7 DEF NotDone
  <2> QED BY <1>0, <1>1, <1>2, <1>3, <1>7, <2>1, FoundMoves DEF FoundTypes
<1> QED BY <1>5, <1>6, <1>7, FoundMoves

(* What was done stays done. *)
LEMMA TimesGrow ==
  ASSUME Owing, FoundTypes, [Next]_vars, NEW a \in Action
  PROVE  times'[a] >= times[a] /\ (times'[a] = times[a] \/ (Calls(Names) /\ a = This /\ times'[a] = times[a] + 1))
<1>1. times \in [Action -> Nat]
  BY DEF FoundTypes
<1>2. UNCHANGED times \/ (Calls(Names) /\ Really)
  BY FoundMoves DEF Succeeded, NotDone
<1>3. CASE Calls(Names) /\ Really
  BY <1>1, <1>3, NamedIsAction DEF Really
<1> QED BY <1>1, <1>2, <1>3

LEMMA SuccessIsRealStep == Owing /\ FoundTypes /\ SuccessIsReal /\ [Next]_vars => SuccessIsReal'
<1> SUFFICES ASSUME Owing, FoundTypes, SuccessIsReal, [Next]_vars, NEW r \in records', r.done
             PROVE  \E a \in Action : a.name = r.name /\ times'[a] > 0
  BY DEF SuccessIsReal
<1>0. times \in [Action -> Nat]
  BY DEF FoundTypes
<1>1. CASE r \in records
  <2>1. PICK a \in Action : a.name = r.name /\ times[a] > 0
    BY <1>1 DEF SuccessIsReal
  <2>2. times'[a] \in Nat /\ times'[a] >= times[a]
    BY <1>0, TimesGrow
  <2> QED BY <1>0, <2>1, <2>2
<1>2. CASE r \notin records
  <2>1. Calls(Names) /\ Really /\ r = [name |-> This.name, done |-> TRUE]
    BY <1>2, FoundMoves DEF Succeeded, NotDone, Note
  <2>2. PICK a \in Action : a = This
    BY <2>1, NamedIsAction
  <2>3. times'[a] = times[a] + 1 /\ times[a] \in Nat
    BY <1>0, <2>1, <2>2 DEF Really
  <2> QED BY <2>1, <2>2, <2>3
<1> QED BY <1>1, <1>2

(* "The same change is never made twice": it is made only when it is not      *)
(* remembered, and is remembered from then on.                               *)
LEMMA OnceNotedStep == Owing /\ FoundTypes /\ OnceNoted /\ [Next]_vars => OnceNoted'
<1> SUFFICES ASSUME Owing, FoundTypes, OnceNoted, [Next]_vars, ~request'.lossy,
                    NEW a \in Action, a.name \notin Others
             PROVE  times'[a] = Remembered(a)'
  BY DEF OnceNoted
<1>0. times \in [Action -> Nat] /\ ~request.lossy /\ times[a] = Remembered(a)
  BY FoundMoves DEF FoundTypes, OnceNoted
<1>1. CASE UNCHANGED <<doneChanges, lookedUp, times>>
  BY <1>0, <1>1 DEF Remembered
<1>2. CASE Calls(Names) /\ This \notin doneChanges \cup lookedUp /\ Succeeded
  <2>1. CASE a # This
    <3>1. times'[a] = times[a]
      BY <1>2, <2>1, TimesGrow
    <3>2. a \in doneChanges' \cup lookedUp' <=> a \in doneChanges \cup lookedUp
      BY <1>2, <2>1 DEF Succeeded
    <3> QED BY <1>0, <3>1, <3>2 DEF Remembered
  <2>2. CASE a = This
    <3>1. times'[a] = times[a] + 1
      BY <1>0, <1>2, <2>2 DEF Succeeded, Really
    <3>2. a.name \in Changers \cup Lookups
      BY <1>2, <2>2, NamedIsAction DEF Names
    <3>3. a \in doneChanges' \cup lookedUp'
      BY <1>2, <2>2, <3>2 DEF Succeeded
    <3>4. Remembered(a) = 0 /\ Remembered(a)' = 1
      BY <1>2, <2>2, <3>3 DEF Remembered
    <3> QED BY <1>0, <3>1, <3>4
  <2> QED BY <2>1, <2>2
<1>3. NotDone => UNCHANGED <<doneChanges, lookedUp, times>>
  BY <1>0 DEF NotDone
<1> QED BY <1>1, <1>2, <1>3, FoundMoves

LEMMA ChangesNotedStep == Owing /\ FoundTypes /\ ChangesNoted /\ [Next]_vars => ChangesNoted'
<1> SUFFICES ASSUME Owing, FoundTypes, ChangesNoted, [Next]_vars, ~request'.lossy,
                    NEW a \in Action, a.name \in Changers, times'[a] > 0
             PROVE  [name |-> a.name, done |-> TRUE] \in records'
  BY DEF ChangesNoted
<1>0. times \in [Action -> Nat] /\ ~request.lossy
  BY FoundMoves DEF FoundTypes
<1>1. CASE times[a] > 0
  <2>1. records \subseteq records'
    BY FoundMoves DEF Succeeded, NotDone, Note
  <2> QED BY <1>0, <1>1, <2>1 DEF ChangesNoted
<1>2. CASE times'[a] # times[a]
  <2>1. a = This
    BY <1>2, TimesGrow
  <2>2. Succeeded
    BY <1>0, <1>2, FoundMoves DEF NotDone
  <2> QED BY <2>1, <2>2 DEF Succeeded, Note
<1> QED BY <1>1, <1>2

-----------------------------------------------------------------------------
(* What the person is told. *)

(* How a reply comes to its end. *)
Ending ==
  \/ ModelFails \/ FinishAccepted \/ (FinishRefused /\ told' = Facts) \/ Superseded
  \/ (\E outcome \in Outcomes : WrapUp(outcome)) \/ GiveUp

LEMMA Tells ==
  TellingTypes /\ [Next]_vars =>
    \/ told' = told /\ (pc' = "ended" <=> pc = "ended") /\ pc' \in {"ask", "run", "wrap", "ended"}
    \/ pc # "ended" /\ pc' = "ended" /\ Ending
<1> DEFINE Same == told' = told /\ (pc' = "ended" <=> pc = "ended") /\ pc' \in {"ask", "run", "wrap", "ended"}
           Ended == pc # "ended" /\ pc' = "ended" /\ Ending
<1> SUFFICES ASSUME TellingTypes, [Next]_vars PROVE Same \/ Ended
  OBVIOUS
<1>0. pc \in {"ask", "run", "wrap", "ended"} /\ (Failure => pc' \in {"run", "wrap"})
  BY DEF TellingTypes, Failure
<1>1. ASSUME NEW calls \in Steps, Asks(calls) PROVE Same
  BY <1>1 DEF Asks
<1>2. CASE Nudged \/ RunsOut \/ StepEnds
  BY <1>2 DEF Nudged, RunsOut, StepEnds
<1>3. CASE ModelFails \/ GiveUp \/ (\E outcome \in Outcomes : WrapUp(outcome))
  BY <1>3 DEF ModelFails, GiveUp, WrapUp, Ending
<1>4. CASE FinishAccepted \/ FinishRefused
  BY <1>0, <1>4 DEF FinishAccepted, FinishRefused, Calls, Ending
<1>5. CASE Unknown \/ LookedUpBefore \/ OverUsed \/ OverCalled
  BY <1>0, <1>5 DEF Unknown, LookedUpBefore, OverUsed, OverCalled, Calls
<1>6. CASE ChangedBefore \/ InvokeDone \/ InvokeNotDone \/ (\E ret \in Failures : InvokeFails(ret))
  BY <1>0, <1>6 DEF ChangedBefore, InvokeDone, InvokeNotDone, InvokeFails, Runs, Calls
<1>7. CASE Superseded
  BY <1>0, <1>7 DEF Superseded, Runs, Calls, Ending
<1>8. CASE UNCHANGED vars
  BY <1>0, <1>8 DEF vars
<1> QED BY <1>1, <1>2, <1>3, <1>4, <1>5, <1>6, <1>7, <1>8, Moves DEF CallStep

LEMMA Said ==
  ASSUME Ending
  PROVE  /\ told' \in Tellings \ {""}
         /\ told' = "done" => request.held /\ Satisfied
         /\ told' \in {"nothing changed", "quiet"} => ~Changed
         /\ UNCHANGED times
<1>1. /\ \A o \in Outcomes : Words(o) \in {"done", "own words"}
      /\ \A o \in Outcomes : Words(o) = "done" => request.held /\ o = "done"
      /\ Facts \in {"partly", "nothing changed"} /\ (Facts = "nothing changed" => ~Changed)
      /\ Apology \in {"nothing changed", "try again"} /\ (Apology = "nothing changed" => ~Changed)
  BY DEF Words, Facts, Apology
<1>2. ASSUME NEW o, Accepted(o), Words(o) = "done" PROVE request.held /\ Satisfied
  BY <1>2 DEF Accepted, Words
<1>3. CASE ModelFails
  BY <1>3 DEF ModelFails, Tellings, found
<1>4. CASE FinishAccepted
  <2>1. told' = Words(This.arg) /\ Accepted(This.arg) /\ UNCHANGED times
    BY <1>4 DEF FinishAccepted, found
  <2>2. Words(This.arg) \in {"done", "own words"}
    BY DEF Words
  <2> QED BY <1>2, <2>1, <2>2 DEF Tellings
<1>5. CASE FinishRefused /\ told' = Facts
  BY <1>1, <1>5 DEF FinishRefused, Tellings, found
<1>6. CASE Superseded
  BY <1>6 DEF Superseded, Tellings
<1>7. ASSUME NEW o \in Outcomes, WrapUp(o)
      PROVE  told' \in {Words(o), Facts} /\ (told' = Words(o) => Accepted(o) \/ told' = Facts) /\ UNCHANGED times
  BY <1>7 DEF WrapUp, found
<1>8. CASE \E o \in Outcomes : WrapUp(o)
  BY <1>1, <1>2, <1>7, <1>8 DEF Tellings
<1>9. CASE GiveUp
  BY <1>1, <1>9 DEF GiveUp, Tellings, found
<1> QED BY <1>3, <1>4, <1>5, <1>6, <1>8, <1>9 DEF Ending

LEMMA TellingTypesStep == TellingTypes /\ [Next]_vars => TellingTypes'
<1> SUFFICES ASSUME TellingTypes, [Next]_vars PROVE TellingTypes'
  OBVIOUS
<1>1. CASE told' = told /\ (pc' = "ended" <=> pc = "ended") /\ pc' \in {"ask", "run", "wrap", "ended"}
  BY <1>1 DEF TellingTypes
<1>2. CASE pc' = "ended" /\ Ending
  BY <1>2, Said DEF TellingTypes
<1> QED BY <1>1, <1>2, Tells

(* "done" is said only when the finish check found a record of success, and  *)
(* behind that is an action.                                                 *)
LEMMA DoneIsDoneStep ==
  Owing /\ FoundTypes /\ TellingTypes /\ SuccessIsReal /\ DoneIsDone /\ [Next]_vars => DoneIsDone'
<1> SUFFICES ASSUME Owing, FoundTypes, TellingTypes, SuccessIsReal, DoneIsDone, [Next]_vars, told' = "done"
             PROVE  \E a \in Action :
                      times'[a] > 0 /\ a.name \in (IF request.required = {} THEN Changers ELSE request.required)
  BY FoundMoves DEF DoneIsDone
<1>1. PICK a \in Action : /\ times[a] > 0
                          /\ a.name \in (IF request.required = {} THEN Changers ELSE request.required)
  <2>1. CASE told' = told
    BY <2>1 DEF DoneIsDone
  <2>2. CASE Ending
    <3>1. Satisfied
      BY <2>2, Said
    <3>2. PICK r \in records : r.done /\ r.name \in (IF request.required = {} THEN Changers ELSE request.required)
      BY <3>1 DEF Satisfied, Changed
    <3> QED BY <3>2 DEF SuccessIsReal
  <2> QED BY <2>1, <2>2, Tells
<1>2. times[a] \in Nat /\ (times'[a] = times[a] \/ times'[a] = times[a] + 1)
  BY TimesGrow DEF FoundTypes
<1> QED BY <1>1, <1>2

LEMMA NotPositive == ASSUME FoundTypes, NEW a \in Action, ~(times[a] > 0) PROVE times[a] = 0
<1>1. times[a] \in Nat
  BY DEF FoundTypes
<1> QED BY <1>1

(* Who is told that nothing was changed has had nothing changed, then and    *)
(* afterwards.                                                               *)
LEMMA NothingHiddenStep ==
  Owing /\ FoundTypes /\ TellingTypes /\ ChangesNoted /\ NothingHidden /\ [Next]_vars => NothingHidden'
<1> SUFFICES ASSUME Owing, FoundTypes, TellingTypes, ChangesNoted, NothingHidden, [Next]_vars,
                    ~request.lossy, told' \in {"nothing changed", "quiet"},
                    NEW a \in Action, a.name \in Changers
             PROVE  times'[a] = 0
  BY FoundMoves DEF NothingHidden
<1>0. times[a] \in Nat
  BY DEF FoundTypes
<1>1. CASE told' = told
  <2>1. times[a] = 0 /\ pc = "ended"
    BY <1>0, <1>1 DEF NothingHidden, TellingTypes
  <2>2. ~Calls(Names)
    BY <2>1 DEF Calls
  <2> QED BY <2>1, <2>2, TimesGrow
<1>2. CASE Ending
  <2>1. ~Changed /\ times' = times
    BY <1>2, Said
  <2>2. [name |-> a.name, done |-> TRUE] \notin records
    <3>1. PICK r : r = [name |-> a.name, done |-> TRUE]
      OBVIOUS
    <3>2. r.done /\ r.name \in Changers
      BY <3>1
    <3> QED BY <2>1, <3>1, <3>2 DEF Changed
  <2>3. ~(times[a] > 0)
    BY <2>2 DEF ChangesNoted
  <2>4. times[a] = 0
    BY <2>3, NotPositive
  <2> QED BY <2>1, <2>4
<1> QED BY <1>1, <1>2, Tells

-----------------------------------------------------------------------------
(* The reply. *)

LEMMA InvInit == Init => IInv
<1> SUFFICES ASSUME Init PROVE IInv
  OBVIOUS
<1>1. Owing
  <2>1. <<>> \in Seq(Call) /\ Len(<<>>) = 0 /\ MaxCallsPerStep \in Nat
    BY EmptySeq, AgentLoopConstants
  <2>2. todo = <<>> /\ owed = 0
    BY DEF Init
  <2> QED BY <2>1, <2>2 DEF Owing
<1>2. InLimits
  <2>1. /\ MaxIterations \in Nat /\ MaxStale \in Nat \ {0}
        /\ MaxFailures \in Nat \ {0} /\ MaxBounces \in Nat \ {0}
    BY AgentLoopConstants
  <2>2. pc = "ask" /\ iter = 0 /\ stale = 0 /\ failures = 0 /\ bounces = 0
    BY DEF Init
  <2>3. progressed \in BOOLEAN
    BY DEF Init
  <2> QED BY <2>1, <2>2, <2>3 DEF InLimits
<1>3. FoundTypes /\ TellingTypes
  BY DEF Init, FoundTypes, TellingTypes, Tellings
<1>4. SuccessIsReal /\ OnceNoted /\ ChangesNoted /\ DoneIsDone /\ NothingHidden
  <2>1. records = {} /\ doneChanges = {} /\ lookedUp = {} /\ told = ""
        /\ \A a \in Action : times[a] = 0
    BY DEF Init
  <2>2. SuccessIsReal /\ DoneIsDone /\ NothingHidden
    BY <2>1 DEF SuccessIsReal, DoneIsDone, NothingHidden
  <2>3. ASSUME NEW a \in Action PROVE times[a] = 0 /\ Remembered(a) = 0
    BY <2>1 DEF Remembered
  <2>4. OnceNoted /\ ChangesNoted
    BY <2>3 DEF OnceNoted, ChangesNoted
  <2> QED BY <2>2, <2>4
<1> QED BY <1>1, <1>2, <1>3, <1>4 DEF IInv

LEMMA InvStep == IInv /\ [Next]_vars => IInv'
<1>1. IInv /\ [Next]_vars => Owing' /\ InLimits' /\ FoundTypes' /\ TellingTypes'
  BY OwingStep, InLimitsStep, FoundTypesStep, TellingTypesStep DEF IInv
<1>2. IInv /\ [Next]_vars => SuccessIsReal' /\ OnceNoted' /\ ChangesNoted' /\ DoneIsDone' /\ NothingHidden'
  BY SuccessIsRealStep, OnceNotedStep, ChangesNotedStep, DoneIsDoneStep, NothingHiddenStep DEF IInv
<1> QED BY <1>1, <1>2 DEF IInv

LEMMA InvImplies == IInv => LoopInv
<1> SUFFICES ASSUME IInv PROVE LoopInv
  OBVIOUS
<1>1. TypeOK
  <2>1. \A i \in DOMAIN todo : todo[i] \in Call
    BY ElementOfSeq, LenProperties DEF IInv, Owing
  <2>2. owed \in 0..MaxCallsPerStep
    BY LenProperties, AgentLoopConstants DEF IInv, Owing
  <2>3. /\ iter \in 0..MaxIterations /\ stale \in 0..MaxStale /\ failures \in 0..MaxFailures
        /\ bounces \in 0..(MaxBounces + 1) /\ progressed \in BOOLEAN
    BY AgentLoopConstants DEF IInv, InLimits
  <2> QED BY <2>1, <2>2, <2>3 DEF IInv, Owing, FoundTypes, TellingTypes, TypeOK
<1>2. AskedWithAnswers
  BY EmptySeq DEF IInv, Owing, AskedWithAnswers
<1>3. OnceEach
  BY DEF IInv, OnceNoted, Remembered, OnceEach
<1> QED BY <1>1, <1>2, <1>3 DEF IInv, LoopInv

(* Whatever the model calls, in whatever order, and whatever it claims: the   *)
(* loop's counters keep within their limits, every history it asks with has  *)
(* its answers, no change or look-up is made twice unless an answer can be   *)
(* lost, "done" has an action behind it, and who is told that nothing was    *)
(* changed has had nothing changed (Run, finishCheck, NothingChangedMessage). *)
THEOREM LoopHolds == Spec => []LoopInv
BY InvInit, InvStep, InvImplies, PTL DEF Spec

-----------------------------------------------------------------------------
(* Accounts: the inductive invariant. *)

SessionRow == [token : Pages!Tokens, login : Logins, gen : Nat]
Link       == {[token |-> 0]} \cup [token : Pages!Tokens, email : Emails]

DbOK(d) ==
  d \in [row : [Logins -> Pages!Row \cup {None}], person : SUBSET Logins, session : SUBSET SessionRow,
         reset : [Logins -> Nat], change : [Logins -> Link]]
MemOK(m) == m \in [mails : [Emails -> 0 .. MailMax], tries : [Emails -> Nat]]
PastOK(p) ==
  p \in [stale : BOOLEAN, broken : Nat, twice : BOOLEAN, used : SUBSET Pages!Tokens, minted : Pages!Tokens,
         asked : Nat,
         gen : [Logins -> Nat], born : SUBSET Logins, had : SUBSET Logins, deleted : SUBSET Logins,
         confirmed : [Logins -> Nat], proved : [Logins -> SUBSET Emails]]

Signed == {"password", "others", "logout", "ask", "delete"}
Ops == {"register", "resend", "confirm", "login", "forgot", "reset", "move"} \cup Signed

Pcs == {"find", "taken", "person", "save", "undo", "mail", "link", "send", "session", "count", "compare",
        "auth", "owner", "do", "signout", "make", "take", "account", "other"}

Request ==
  [op : Ops, pc : Pcs, login : Logins \cup {None}, email : Emails \cup {None}, new : Emails \cup {None},
   pw : Passwords \cup {None}, old : Passwords \cup {None}, token : Nat, acct : Pages!Row \cup {None},
   seen : Pages!Row \cup {None}, gen : Nat]

(* Where a request has read no row yet, and where it holds a copy of one.    *)
Begun(q) ==
  \/ q.op = "register" /\ q.pc \in {"find", "person", "save", "undo"}
  \/ q.op = "resend" /\ q.pc \in {"mail", "find"}
  \/ q.op = "confirm" /\ q.pc = "find"
  \/ q.op = "login" /\ q.pc \in {"count", "find"}
  \/ q.op = "forgot" /\ q.pc \in {"mail", "find"}
  \/ q.op \in {"reset", "move"} /\ q.pc \in {"take", "account"}
  \/ q.op \in Signed /\ q.pc \in {"auth", "owner"}
Reads(q) ==
  \/ q.op = "register" /\ q.pc \in {"taken", "mail", "link", "send"}
  \/ q.op = "resend" /\ q.pc \in {"link", "send"}
  \/ q.op = "confirm" /\ q.pc \in {"save", "session"}
  \/ q.op = "login" /\ q.pc \in {"compare", "session"}
  \/ q.op = "forgot" /\ q.pc \in {"make", "send"}
  \/ q.op = "reset" /\ q.pc \in {"save", "signout"}
  \/ q.op = "move" /\ q.pc \in {"other", "save"}
  \/ q.op = "password" /\ q.pc \in {"do", "save", "signout"}
  \/ q.op = "ask" /\ q.pc \in {"do", "find", "make", "send"}
  \/ q.op \in {"others", "logout", "delete"} /\ q.pc = "do"

(* What a request knows at each of its steps.                                *)
Knows(q) ==
  /\ \/ Begun(q) /\ q.acct = None /\ q.seen = None
     \/ Reads(q) /\ q.acct \in Pages!Row /\ q.seen \in Pages!Row /\ q.login \in Logins
  /\ q.op = "register" \/ q.pc \in {"owner", "account"} => q.login \in Logins
  /\ q.op \notin {"password", "others", "logout"} => q.email \in Emails
  /\ q.op \in {"register", "login", "reset", "password"} => q.pw \in Passwords
  /\ q.op \in {"confirm", "reset", "move"} => q.token \in Pages!Tokens
  /\ q.op \in {"forgot", "ask"} /\ q.pc = "send" => q.token \in Pages!Tokens
  /\ q.op \in {"register", "resend"} /\ q.pc \in {"mail", "send"} /\ q.acct # None => q.acct.token \in Pages!Tokens
  /\ q.op = "confirm" /\ q.acct # None => q.acct.email = q.email
  /\ q.op = "move" /\ q.pc # "take" => q.new = q.email
  /\ q.acct # None => (q.seen.verified => q.acct.verified)
  /\ q.pc = "session" => q.acct.verified /\ q.seen.verified
  /\ q.op = "login" \/ q.pc = "taken" => q.seen = q.acct
  /\ q.op = "register" /\ q.pc = "link" /\ q.acct.token = 0 => ~q.seen.verified
ReqOK(q) == q = Pages!Idle \/ (q \in Request /\ Knows(q))

TypesOK ==
  /\ DbOK(db) /\ MemOK(mem) /\ PastOK(loginsPast) /\ letters \subseteq Pages!Letter
  /\ req \in [Callers -> {Pages!Idle} \cup Request] /\ \A r \in Callers : ReqOK(req[r])

(* A link's token is new when it is made, is of one kind, and is gone when used. *)
LinksOK ==
  /\ \A l \in Logins : /\ db.reset[l] \in (0 .. loginsPast.minted) \ loginsPast.used
                       /\ db.change[l].token \in (0 .. loginsPast.minted) \ loginsPast.used
  /\ \A l, m \in Logins : db.reset[l] # 0 => db.reset[l] # db.change[m].token
  /\ loginsPast.used \subseteq 1 .. loginsPast.minted
  /\ ~loginsPast.twice

Holds(r) == req[r] # Pages!Idle /\ req[r].acct # None

(* The address a token of a confirmation is for.                             *)
Claims(t, e) ==
  \/ \E l \in Logins : db.row[l] # None /\ db.row[l].token = t /\ db.row[l].email = e
  \/ \E r \in Callers : Holds(r) /\ req[r].acct.token = t /\ req[r].acct.email = e
  \/ \E m \in letters : m.kind = "verify" /\ m.token = t /\ m.to = e
ClaimsOK ==
  /\ \A t \in Pages!Tokens, e \in Emails : Claims(t, e) => t <= loginsPast.minted
  /\ \A t \in Pages!Tokens, e, f \in Emails : Claims(t, e) /\ Claims(t, f) => e = f

(* The address a login has, or is about to get.                              *)
Comes(q) == \/ q.op = "register" /\ q.pc \in {"find", "person", "save", "undo"}
            \/ q.op = "reset" /\ q.pc # "take"
Lives(l, e) ==
  \/ db.row[l] # None /\ db.row[l].email = e
  \/ \E r \in Callers : Holds(r) /\ req[r].login = l /\ req[r].acct.email = e
  \/ \E r \in Callers : Comes(req[r]) /\ req[r].login = l /\ req[r].email = e
  \/ \E m \in letters : m.kind = "reset" /\ m.token = db.reset[l] /\ m.to = e
HomesOK == \A l \in Logins, e \in Emails : Lives(l, e) =>
  /\ l \in loginsPast.born
  /\ \/ e \in loginsPast.proved[l]
     \/ loginsPast.proved[l] = {} /\ \A f \in Emails : Lives(l, f) => f = e
Proofs ==
  /\ Pages!OwnAddress
  /\ \A l \in Logins \ loginsPast.born : loginsPast.proved[l] = {}
  /\ \A r \in Callers : Holds(r) /\ req[r].acct.verified => req[r].acct.email \in loginsPast.proved[req[r].login]

(* Letters, and the links of those who asked for them.                       *)
LettersOK ==
  /\ \A m \in letters : m.token <= loginsPast.minted
  /\ \A m \in letters, l \in Logins : m.kind = "change" /\ m.token = db.change[l].token => m.to = db.change[l].email
  /\ \A r \in Callers : req[r].op = "reset" =>
       [kind |-> "reset", to |-> req[r].email, token |-> req[r].token] \in letters
  /\ \A r \in Callers : req[r].op = "move" =>
       [kind |-> "change", to |-> req[r].email, token |-> req[r].token] \in letters
  /\ \A r \in Callers : req[r].op = "confirm" =>
       [kind |-> "verify", to |-> req[r].email, token |-> req[r].token] \in letters
  /\ \A r \in Callers : req[r].op = "forgot" /\ req[r].pc = "send" =>
       req[r].token <= loginsPast.minted /\ \A l \in Logins : db.reset[l] = req[r].token => l = req[r].login
  /\ \A r \in Callers : req[r].op = "ask" /\ req[r].pc = "send" =>
       /\ req[r].token <= loginsPast.minted
       /\ \A l \in Logins : db.change[l].token = req[r].token => db.change[l].email = req[r].email

(* Whoever is signed in, or asked for a new address, has proved one.         *)
In(q) == \/ q.op = "ask" /\ q.pc # "auth"
         \/ q.op \in Signed /\ q.pc = "owner"
         \/ q.op = "move" /\ q.pc # "take"
Entered ==
  /\ \A s \in db.session : loginsPast.proved[s.login] # {}
  /\ \A l \in Logins : db.change[l].token # 0 => loginsPast.proved[l] # {}
  /\ \A r \in Callers : In(req[r]) => loginsPast.proved[req[r].login] # {}

(* The sign-ins that were let in and have not failed or succeeded.           *)
Tries(q, e) == q.op = "login" /\ q.pc \in {"find", "compare"} /\ q.email = e
Trying(e) == {r \in Callers : Tries(req[r], e)}
TriesOK == \A e \in Emails : mem.tries[e] + Cardinality(Trying(e)) < SigninMax + Cardinality(Callers)

SignedOK == ~loginsPast.stale /\ loginsPast.broken = 0 => \A s \in db.session :
  /\ db.row[s.login] # None /\ db.row[s.login].verified
  /\ \/ s.gen = loginsPast.gen[s.login]
     \/ \E r \in Callers : req[r] # Pages!Idle /\ req[r].pc = "signout" /\ req[r].login = s.login

AccIInv ==
  /\ TypesOK /\ LinksOK /\ ClaimsOK /\ HomesOK /\ Proofs
  /\ LettersOK /\ Entered /\ Pages!NobodyLeft /\ TriesOK /\ SignedOK


-----------------------------------------------------------------------------
(* Accounts: what a step leaves of a request. *)

LEMMA IdleIs == Pages!Idle \notin Request /\ Pages!Idle.op = "none" /\ Pages!Idle.pc = "none"
BY DEF Pages!Idle, Request, Ops, Signed

LEMMA ActiveIs ==
  ASSUME TypesOK, NEW r \in Callers, req[r] # Pages!Idle
  PROVE  req[r] \in Request /\ Knows(req[r])
BY DEF TypesOK, ReqOK

LEMMA ConstantsAre ==
  /\ None \notin Logins /\ None \notin Emails /\ None \notin Pages!Row
  /\ IsFiniteSet(Callers) /\ MailMax \in Nat /\ SigninMax \in Nat \ {0}
BY PersonsConstants DEF Pages!AccountsConstants, Pages!IsFiniteSet, IsFiniteSet

Only(r, q) == /\ req' \in [Callers -> {Pages!Idle} \cup Request] /\ req'[r] = q
              /\ \A s \in Callers \ {r} : req'[s] = req[s]

LEMMA OnlyIs ==
  ASSUME TypesOK, NEW r \in Callers, NEW q \in {Pages!Idle} \cup Request, req' = [req EXCEPT ![r] = q]
  PROVE  Only(r, q)
<1>1. req \in [Callers -> {Pages!Idle} \cup Request]
  BY DEF TypesOK
<1> HIDE DEF Request, Pages!Idle
<1> QED BY <1>1 DEF Only

LEMMA AnswerIs == ASSUME TypesOK, NEW r \in Callers, Pages!Answer(r) PROVE Only(r, Pages!Idle)
BY OnlyIs DEF Pages!Answer

(* What a request was asked with stays.                                      *)
SameAsked(q, n) ==
  /\ n.op = q.op /\ n.email = q.email /\ n.pw = q.pw /\ n.old = q.old
SameCopy(q, n) ==
  /\ n.login = q.login /\ n.acct = q.acct /\ n.seen = q.seen /\ n.gen = q.gen

LEMMA GoIs ==
  ASSUME TypesOK, NEW r \in Callers, req[r] # Pages!Idle, NEW c \in Pcs, Pages!Go(r, c)
  PROVE  /\ Only(r, req'[r]) /\ req'[r] \in Request /\ req'[r].pc = c
         /\ SameAsked(req[r], req'[r]) /\ SameCopy(req[r], req'[r])
         /\ req'[r].new = req[r].new /\ req'[r].token = req[r].token
<1> DEFINE q == [req[r] EXCEPT !.pc = c]
<1>1. req[r] \in Request
  BY ActiveIs
<1>2. q \in Request /\ q.pc = c /\ SameAsked(req[r], q) /\ SameCopy(req[r], q)
      /\ q.new = req[r].new /\ q.token = req[r].token
  BY <1>1 DEF Request, SameAsked, SameCopy
<1>3. req' = [req EXCEPT ![r] = q]
  BY DEF Pages!Go
<1> HIDE DEF q
<1>4. Only(r, q)
  BY <1>2, <1>3, OnlyIs
<1> QED BY <1>2, <1>4 DEF Only

LEMMA LoadIs ==
  ASSUME TypesOK, NEW r \in Callers, req[r] # Pages!Idle, NEW l \in Logins, db.row[l] # None,
         NEW c \in Pcs, Pages!Load(r, l, c)
  PROVE  /\ Only(r, req'[r]) /\ req'[r] \in Request /\ req'[r].pc = c
         /\ SameAsked(req[r], req'[r])
         /\ req'[r].new = req[r].new /\ req'[r].token = req[r].token
         /\ req'[r].login = l /\ req'[r].acct = db.row[l] /\ req'[r].seen = db.row[l] /\ req'[r].acct \in Pages!Row
         /\ req'[r].gen = loginsPast.gen[l]
<1> DEFINE q == [req[r] EXCEPT !.login = l, !.acct = db.row[l], !.seen = db.row[l],
                               !.gen = loginsPast.gen[l], !.pc = c]
<1>1. req[r] \in Request
  BY ActiveIs
<1>2. db.row[l] \in Pages!Row /\ loginsPast.gen[l] \in Nat
  BY DEF TypesOK, DbOK, PastOK
<1>3. q \in Request /\ q.pc = c /\ SameAsked(req[r], q) /\ q.new = req[r].new /\ q.token = req[r].token
      /\ q.login = l /\ q.acct = db.row[l] /\ q.seen = db.row[l] /\ q.gen = loginsPast.gen[l]
  BY <1>1, <1>2 DEF Request, SameAsked
<1>4. req' = [req EXCEPT ![r] = q]
  BY DEF Pages!Load
<1> HIDE DEF q
<1>5. Only(r, q)
  BY <1>3, <1>4, OnlyIs
<1> QED BY <1>2, <1>3, <1>5 DEF Only


-----------------------------------------------------------------------------
(* Accounts: the kinds of steps.  A request goes on as it was, with the copy  *)
(* it has or one just read, or is answered; what else a step writes is named *)
(* by its kind.                                                            *)

Like(q, n) == n = Pages!Idle \/
  /\ n # Pages!Idle /\ q # Pages!Idle /\ n.op = q.op /\ n.email = q.email /\ n.token = q.token
  /\ \/ n.acct = None
     \/ /\ q.acct # None /\ n.login = q.login
        /\ n.acct.email = q.acct.email /\ n.acct.verified = q.acct.verified /\ n.acct.token \in {0, q.acct.token}
     \/ n.login \in Logins /\ n.acct = db.row[n.login] /\ n.acct # None
  /\ Comes(n) => Comes(q) /\ n.login = q.login
  /\ In(n) => \/ In(q) /\ n.login = q.login
              \/ \E s \in db.session : n.login = s.login
  /\ n.op \in {"forgot", "ask"} => n.pc # "send"

(* A sign-up whose person is stored, and a new password whose other sessions *)
(* are to be ended, do not stop there unless they are broken off.            *)
Pending(q) == \/ q.op = "register" /\ q.pc \in {"save", "undo"}
              \/ q.pc = "signout"
Stays(q, n) == Pending(q) => n.op = q.op /\ n.login = q.login /\ Pending(n) /\ (q.pc = "signout" => n.pc = "signout")

Quiet(r) ==
  /\ UNCHANGED <<db, letters>> /\ Like(req[r], req'[r])
  /\ \/ loginsPast' = loginsPast /\ Stays(req[r], req'[r])
     \/ loginsPast' = [loginsPast EXCEPT !.broken = @ + 1]

Peopled(r) ==
  /\ db' = [db EXCEPT !.person = db'.person] /\ UNCHANGED <<letters, loginsPast>>
  /\ Like(req[r], req'[r]) /\ req[r].op = "register" /\ req[r].pc \in {"person", "undo"} /\ req[r].login \in Logins
  /\ \/ /\ db'.person = db.person \cup {req[r].login}
        /\ req'[r].op = "register" /\ req'[r].pc = "save" /\ req'[r].login = req[r].login
     \/ db'.person = db.person \ {req[r].login}

(* Sessions end; one that is kept through a new password counts as one of it. *)
Ended(r) ==
  /\ db' = [db EXCEPT !.session = db'.session] /\ UNCHANGED <<letters, loginsPast>>
  /\ req'[r] = Pages!Idle /\ req[r].op # "register"
  /\ db'.session \subseteq SessionRow
  /\ \A s \in db'.session : \E t \in db.session :
       s.login = t.login /\ (s.gen = loginsPast.gen[s.login] \/ (s = t /\ ~(req[r].pc = "signout" /\ req[r].login = s.login)))

Started(r) ==
  /\ req[r].pc = "session" /\ db.row[req[r].login] # None /\ req'[r] = Pages!Idle
  /\ db' = [db EXCEPT !.session = @ \cup {[token |-> Pages!Mint, login |-> req[r].login, gen |-> req[r].gen]}]
  /\ loginsPast' = [loginsPast EXCEPT !.minted = Pages!Mint, !.stale = @ \/ Pages!Overtaken(r)]
  /\ UNCHANGED letters

Saved(r, new) ==
  LET l == req[r].login  q == req[r] IN
  /\ l \in Logins /\ new \in Pages!Row
  /\ db' = [db EXCEPT !.row[l] = new]
  /\ loginsPast' = [loginsPast EXCEPT !.stale = @ \/ Pages!Overtaken(r),
                          !.had = @ \cup {l},
                          !.gen[l] = IF q.op \in {"register", "reset", "password"} THEN @ + 1 ELSE @,
                          !.confirmed[l] = IF q.op = "confirm" THEN @ + 1 ELSE @,
                          !.minted = IF new.token > @ THEN new.token ELSE @,
                          !.proved[l] = IF q.op \in {"confirm", "reset", "move"} THEN @ \cup {q.email} ELSE @]
  /\ UNCHANGED letters
  /\ \/ req'[r] = Pages!Idle
     \/ /\ req'[r] \in Request /\ req'[r].op = q.op /\ req'[r].email = q.email /\ req'[r].token = q.token
        /\ req'[r].login = l /\ req'[r].acct = new /\ Reads(req'[r])
  /\ \/ new.token \in {0, Pages!Mint}
     \/ q.acct # None /\ new.token = q.acct.token /\ new.email = q.acct.email
  /\ \/ q.acct # None /\ new.email = q.acct.email
     \/ q.acct = None /\ Comes(q) /\ new.email = q.email /\ ~new.verified
     \/ q.op = "move" /\ q.pc = "save" /\ new.email = q.email
  /\ new.verified => \/ q.acct # None /\ q.acct.verified /\ new.email = q.acct.email
                     \/ q.op \in {"confirm", "reset", "move"} /\ q.email \in Emails
  /\ q.op = "confirm" => new.email = q.email
  /\ q.acct # None => (q.seen.verified => new.verified)
  /\ q.acct # None /\ q.op = "register" => ~q.seen.verified
  /\ q.op \in {"reset", "password"} => req'[r] # Pages!Idle /\ req'[r].pc = "signout"
  /\ q # Pages!Idle /\ q.pc \notin {"signout", "undo"} /\ q.op \notin {"forgot", "ask"}
  /\ q.op = "move" => req'[r] = Pages!Idle

ResetMade(r) ==
  LET l == req[r].login IN
  /\ req[r].op = "forgot" /\ req[r].pc = "make" /\ l \in Logins
  /\ db' = [db EXCEPT !.reset[l] = Pages!Mint] /\ loginsPast' = [loginsPast EXCEPT !.minted = Pages!Mint] /\ UNCHANGED letters
  /\ req'[r] \in Request /\ req'[r].op = "forgot" /\ req'[r].pc = "send" /\ req'[r].login = l
  /\ req'[r].acct = req[r].acct /\ req'[r].token = Pages!Mint

ChangeMade(r) ==
  LET l == req[r].login IN
  /\ req[r].op = "ask" /\ req[r].pc = "make" /\ l \in Logins /\ req[r].email \in Emails
  /\ db' = [db EXCEPT !.change[l] = [token |-> Pages!Mint, email |-> req[r].email]]
  /\ loginsPast' = [loginsPast EXCEPT !.minted = Pages!Mint] /\ UNCHANGED letters
  /\ req'[r] \in Request /\ req'[r].op = "ask" /\ req'[r].pc = "send" /\ req'[r].login = l
  /\ req'[r].acct = req[r].acct /\ req'[r].token = Pages!Mint /\ req'[r].email = req[r].email

(* A link is taken, and with it the login it was made for.                   *)
Took(r, fits) ==
  \/ req'[r] = Pages!Idle /\ loginsPast' = loginsPast
  \/ /\ loginsPast' = [loginsPast EXCEPT !.used = @ \cup {req[r].token}, !.twice = @ \/ req[r].token \in loginsPast.used]
     /\ req'[r] \in Request /\ req'[r].op = req[r].op /\ req'[r].pc = "account" /\ req'[r].login \in fits
     /\ req'[r].email = req[r].email /\ req'[r].token = req[r].token /\ req'[r].acct = None

ResetTaken(r) ==
  /\ req[r].op = "reset" /\ req[r].pc = "take" /\ UNCHANGED letters
  /\ db' = [db EXCEPT !.reset = [l \in Logins |-> IF @[l] = req[r].token THEN 0 ELSE @[l]]]
  /\ Took(r, {l \in Logins : db.reset[l] = req[r].token})

ChangeTaken(r) ==
  /\ req[r].op = "move" /\ req[r].pc = "take" /\ UNCHANGED letters
  /\ db' = [db EXCEPT !.change = [l \in Logins |-> IF @[l].token = req[r].token THEN [token |-> 0] ELSE @[l]]]
  /\ Took(r, {l \in Logins : db.change[l].token = req[r].token})

Sent(r, m) ==
  /\ m \in Pages!Letter /\ letters' = letters \cup {m} /\ req'[r] = Pages!Idle /\ UNCHANGED <<db, loginsPast>>
  /\ req[r] # Pages!Idle /\ req[r].pc = "send"
  /\ \/ /\ m.kind = "verify" /\ req[r].op \in {"register", "resend"}
        /\ m.to = req[r].acct.email /\ m.token = req[r].acct.token
     \/ m.kind = "reset" /\ req[r].op = "forgot" /\ m.to = req[r].acct.email /\ m.token = req[r].token
     \/ m.kind = "change" /\ req[r].op = "ask" /\ m.to = req[r].email /\ m.token = req[r].token

Gone(r) ==
  LET l == req[r].login IN
  /\ l \in Logins /\ req'[r] = Pages!Idle /\ req[r].op = "delete" /\ UNCHANGED letters
  /\ db' = [db EXCEPT !.row[l] = None, !.session = {s \in @ : s.login # l},
                      !.reset[l] = 0, !.change[l] = [token |-> 0]]
  /\ loginsPast' = [loginsPast EXCEPT !.deleted = @ \cup {l}]

Opened(r) ==
  LET n == req'[r] IN
  /\ req[r] = Pages!Idle /\ n # Pages!Idle /\ UNCHANGED <<db, letters>> /\ n.acct = None
  /\ n.pc \notin {"signout", "owner", "account", "send"} /\ (n.op = "ask" => n.pc = "auth")
  /\ n.op \in {"move", "reset"} => n.pc = "take"
  /\ n.op = "register" => (n.login \in Logins \ loginsPast.born /\ n.pc = "find")
  /\ loginsPast' = [loginsPast EXCEPT !.asked = @ + 1, !.born = IF n.op = "register" THEN @ \cup {n.login} ELSE @]
  /\ n.op = "reset" => [kind |-> "reset", to |-> n.email, token |-> n.token] \in letters
  /\ n.op = "move" => [kind |-> "change", to |-> n.email, token |-> n.token] \in letters
  /\ n.op = "confirm" => [kind |-> "verify", to |-> n.email, token |-> n.token] \in letters

Kinds(r) ==
  \/ Quiet(r) \/ Peopled(r) \/ Ended(r) \/ Started(r) \/ (\E new \in Pages!Row : Saved(r, new))
  \/ ResetMade(r) \/ ChangeMade(r) \/ ResetTaken(r) \/ ChangeTaken(r)
  \/ (\E m \in Pages!Letter : Sent(r, m)) \/ Gone(r) \/ Opened(r)

(* What a step may do to the count of failed sign-ins with an address.       *)
Tried(r) == \A e \in Emails :
  \/ mem'.tries[e] <= mem.tries[e] /\ (Tries(req'[r], e) => Tries(req[r], e))
  \/ mem'.tries[e] = mem.tries[e] /\ mem.tries[e] < SigninMax
  \/ /\ mem'.tries[e] = mem.tries[e] + 1 /\ ~Tries(req'[r], e)
     /\ Tries(req[r], e) \/ mem.tries[e] < SigninMax

(* A request's step: its kind, and that everything keeps its type.           *)
Done(r) ==
  /\ Only(r, req'[r]) /\ ReqOK(req'[r])
  /\ MemOK(mem') /\ Tried(r) /\ Kinds(r)


LEMMA SameLike ==
  ASSUME NEW q \in Request, NEW n \in Request, SameAsked(q, n), SameCopy(q, n), n.token = q.token,
         Comes(n) => Comes(q), In(n) => In(q), n.op \in {"forgot", "ask"} => n.pc # "send"
  PROVE  Like(q, n)
<1>1. n # Pages!Idle /\ q # Pages!Idle
  BY IdleIs
<1>2. n.op = q.op /\ n.email = q.email /\ n.login = q.login /\ n.acct = q.acct
  BY DEF SameAsked, SameCopy
<1> QED BY <1>1, <1>2 DEF Like

LEMMA LoadLike ==
  ASSUME TypesOK, NEW q \in Request, NEW n \in Request, SameAsked(q, n), n.token = q.token,
         n.login \in Logins, n.acct = db.row[n.login], n.acct \in Pages!Row,
         Reads(n), n.op \in {"forgot", "ask"} => n.pc # "send",
         In(n) => In(q) /\ n.login = q.login, n.op = "reset" => n.login = q.login /\ q.pc # "take"
  PROVE  Like(q, n)
<1>1. n # Pages!Idle /\ q # Pages!Idle /\ n.acct # None
  BY IdleIs, ConstantsAre
<1>2. n.op = q.op /\ n.email = q.email
  BY DEF SameAsked
<1>3. Comes(n) => Comes(q) /\ n.login = q.login
  BY <1>2 DEF Comes, Reads, Signed
<1> QED BY <1>1, <1>2, <1>3 DEF Like

(* A step that goes on from one pc to another, or is answered.               *)
LEMMA GoDone ==
  ASSUME TypesOK, NEW r \in Callers, req[r] # Pages!Idle, NEW c \in Pcs, Pages!Go(r, c),
         Knows(req'[r]), UNCHANGED <<db, letters, loginsPast>>, MemOK(mem'), Tried(r),
         Comes(req'[r]) => Comes(req[r]), In(req'[r]) => In(req[r]),
         req[r].op \in {"forgot", "ask"} => c # "send", ~Pending(req[r])
  PROVE  Done(r)
<1>1. /\ Only(r, req'[r]) /\ req'[r] \in Request /\ req'[r].pc = c
      /\ SameAsked(req[r], req'[r]) /\ SameCopy(req[r], req'[r]) /\ req'[r].token = req[r].token
  BY GoIs
<1>2. req[r] \in Request /\ req'[r].op = req[r].op
  BY <1>1, ActiveIs DEF SameAsked
<1>3. Like(req[r], req'[r])
  BY <1>1, <1>2, SameLike
<1>4. ReqOK(req'[r]) /\ Stays(req[r], req'[r])
  BY <1>1 DEF ReqOK, Stays
<1> QED BY <1>1, <1>3, <1>4 DEF Done, Kinds, Quiet

LEMMA AnswerDone ==
  ASSUME TypesOK, NEW r \in Callers, Pages!Answer(r), UNCHANGED <<db, letters, loginsPast>>, MemOK(mem'), Tried(r),
         ~Pending(req[r])
  PROVE  Done(r)
<1>1. Only(r, Pages!Idle)
  BY AnswerIs
<1>2. Only(r, req'[r]) /\ req'[r] = Pages!Idle /\ ReqOK(req'[r]) /\ Like(req[r], req'[r]) /\ Stays(req[r], req'[r])
  BY <1>1 DEF ReqOK, Like, Stays, Only
<1> QED BY <1>2 DEF Done, Kinds, Quiet

LEMMA LoadDone ==
  ASSUME TypesOK, NEW r \in Callers, req[r] # Pages!Idle, NEW l \in Logins, db.row[l] # None,
         NEW c \in Pcs, Pages!Load(r, l, c), Knows(req'[r]), UNCHANGED <<db, letters, loginsPast>>,
         MemOK(mem'), Tried(r), Reads(req'[r]), req[r].op \in {"forgot", "ask"} => c # "send",
         In(req'[r]) => In(req[r]) /\ l = req[r].login,
         req[r].op = "reset" => l = req[r].login /\ req[r].pc # "take", ~Pending(req[r])
  PROVE  Done(r)
<1>1. /\ Only(r, req'[r]) /\ req'[r] \in Request /\ req'[r].pc = c
      /\ SameAsked(req[r], req'[r]) /\ req'[r].token = req[r].token
      /\ req'[r].login = l /\ req'[r].acct = db.row[l] /\ req'[r].acct \in Pages!Row
  BY LoadIs
<1>2. req[r] \in Request /\ req'[r].op = req[r].op /\ Knows(req[r])
  BY <1>1, ActiveIs DEF SameAsked
<1>3. Like(req[r], req'[r])
  BY <1>1, <1>2, LoadLike
<1>4. ReqOK(req'[r]) /\ Stays(req[r], req'[r])
  BY <1>1 DEF ReqOK, Stays
<1> QED BY <1>1, <1>3, <1>4 DEF Done, Kinds, Quiet

LEMMA MemKept == ASSUME TypesOK, NEW r \in Callers, mem' = mem,
                        \A e \in Emails : Tries(req'[r], e) => Tries(req[r], e)
                 PROVE  MemOK(mem') /\ Tried(r)
<1>1. MemOK(mem) /\ \A e \in Emails : mem.tries[e] \in Nat
  BY DEF TypesOK, MemOK
<1> QED BY <1>1 DEF Tried

LEMMA MemMailed ==
  ASSUME TypesOK, NEW r \in Callers, NEW e \in Emails, Pages!mayMail(e), Pages!Mailed(e),
         \A f \in Emails : Tries(req'[r], f) => Tries(req[r], f)
  PROVE  MemOK(mem') /\ Tried(r)
<1>1. MemOK(mem) /\ \A f \in Emails : mem.tries[f] \in Nat /\ mem.mails[f] \in 0 .. MailMax
  BY DEF TypesOK, MemOK
<1>2. mem.mails[e] + 1 \in 0 .. MailMax
  BY <1>1, ConstantsAre DEF Pages!mayMail
<1>3. mem' = [mem EXCEPT !.mails = [mem.mails EXCEPT ![e] = mem.mails[e] + 1]]
  BY DEF Pages!Mailed
<1>4. [mem.mails EXCEPT ![e] = mem.mails[e] + 1] \in [Emails -> 0 .. MailMax]
  BY <1>1, <1>2 DEF MemOK
<1>5. MemOK(mem') /\ mem'.tries = mem.tries
  BY <1>1, <1>3, <1>4 DEF MemOK
<1> QED BY <1>1, <1>5 DEF Tried

(* One more failed sign-in with an address; or none with it any more.        *)
LEMMA MemFailed ==
  ASSUME TypesOK, NEW r \in Callers, NEW e \in Emails, mem' = [mem EXCEPT !.tries[e] = @ + 1],
         \A f \in Emails : ~Tries(req'[r], f), Tries(req[r], e) \/ mem.tries[e] < SigninMax
  PROVE  MemOK(mem') /\ Tried(r)
<1>1. MemOK(mem) /\ \A f \in Emails : mem.tries[f] \in Nat
  BY DEF TypesOK, MemOK
<1>2. mem' = [mem EXCEPT !.tries = [mem.tries EXCEPT ![e] = mem.tries[e] + 1]]
  OBVIOUS
<1>3. [mem.tries EXCEPT ![e] = mem.tries[e] + 1] \in [Emails -> Nat]
  BY <1>1 DEF MemOK
<1>4. MemOK(mem') /\ mem'.tries[e] = mem.tries[e] + 1 /\ \A f \in Emails \ {e} : mem'.tries[f] = mem.tries[f]
  BY <1>1, <1>2, <1>3 DEF MemOK
<1> QED BY <1>1, <1>4 DEF Tried

LEMMA MemCleared ==
  ASSUME TypesOK, NEW r \in Callers, NEW e \in Emails, mem' = [mem EXCEPT !.tries[e] = 0],
         \A f \in Emails : Tries(req'[r], f) => Tries(req[r], f)
  PROVE  MemOK(mem') /\ Tried(r)
<1>1. MemOK(mem) /\ \A f \in Emails : mem.tries[f] \in Nat
  BY DEF TypesOK, MemOK
<1>2. mem' = [mem EXCEPT !.tries = [mem.tries EXCEPT ![e] = 0]]
  OBVIOUS
<1>3. [mem.tries EXCEPT ![e] = 0] \in [Emails -> Nat]
  BY <1>1 DEF MemOK
<1>4. MemOK(mem') /\ mem'.tries[e] = 0 /\ \A f \in Emails \ {e} : mem'.tries[f] = mem.tries[f]
  BY <1>1, <1>2, <1>3 DEF MemOK
<1> QED BY <1>1, <1>4 DEF Tried


-----------------------------------------------------------------------------
(* Accounts: each handler's steps are of these kinds. *)

LEMMA FoundIs ==
  ASSUME NEW e, NEW l \in Pages!GetAccountByEmail(e)
  PROVE  l \in Logins /\ db.row[l] # None /\ db.row[l].email = e
BY DEF Pages!GetAccountByEmail

LEMMA NoTries == ASSUME NEW q, q.op # "login" PROVE \A e \in Emails : ~Tries(q, e)
BY DEF Tries

(* SaveAccount with the row "new", when it is not refused.                   *)
Writes(r, new, next) ==
  LET l == req[r].login IN
  /\ ~Pages!Clash(l, new)
  /\ db' = [db EXCEPT !.row[l] = new]
  /\ loginsPast' = [loginsPast EXCEPT !.stale = @ \/ Pages!Overtaken(r),
                          !.had = @ \cup {l},
                          !.gen[l] = IF req[r].op \in {"register", "reset", "password"} THEN @ + 1 ELSE @,
                          !.confirmed[l] = IF req[r].op = "confirm" THEN @ + 1 ELSE @,
                          !.minted = IF new.token > @ THEN new.token ELSE @,
                          !.proved[l] = IF req[r].op \in {"confirm", "reset", "move"}
                                        THEN @ \cup {req[r].email} ELSE @]
  /\ IF next = "none" THEN Pages!Answer(r)
     ELSE req' = [req EXCEPT ![r] = [@ EXCEPT !.acct = new, !.seen = new, !.gen = loginsPast'.gen[l], !.pc = next]]

LEMMA WritesIs ==
  ASSUME TypesOK, NEW r \in Callers, req[r] # Pages!Idle, req[r].login \in Logins, NEW new \in Pages!Row,
         NEW next \in Pcs \cup {"none"}, Writes(r, new, next)
  PROVE  /\ Only(r, req'[r])
         /\ IF next = "none" THEN req'[r] = Pages!Idle
            ELSE /\ req'[r] \in Request /\ req'[r].pc = next /\ SameAsked(req[r], req'[r])
                 /\ req'[r].new = req[r].new /\ req'[r].token = req[r].token
                 /\ req'[r].login = req[r].login /\ req'[r].acct = new /\ req'[r].seen = new
<1> DEFINE l == req[r].login
           n == [req[r] EXCEPT !.acct = new, !.seen = new, !.gen = loginsPast'.gen[l], !.pc = next]
           g == [loginsPast.gen EXCEPT ![l] = IF req[r].op \in {"register", "reset", "password"} THEN @ + 1 ELSE @]
<1>1. loginsPast'.gen = g
  BY DEF Writes, TypesOK, PastOK
<1>2. g \in [Logins -> Nat]
  BY DEF TypesOK, PastOK
<1>3. req[r] \in Request /\ loginsPast'.gen[l] \in Nat
  BY <1>1, <1>2, ActiveIs
<1>4. CASE next # "none"
  <2>1. /\ n \in Request /\ n.pc = next /\ SameAsked(req[r], n) /\ n.new = req[r].new /\ n.token = req[r].token
        /\ n.login = l /\ n.acct = new /\ n.seen = new
    BY <1>3, <1>4 DEF Request, SameAsked
  <2>2. req' = [req EXCEPT ![r] = n]
    BY <1>4 DEF Writes
  <2> HIDE DEF n
  <2>3. Only(r, n)
    BY <2>1, <2>2, OnlyIs
  <2> QED BY <1>4, <2>1, <2>3 DEF Only
<1>5. CASE next = "none"
  <2>1. Only(r, Pages!Idle)
    BY <1>5, AnswerIs DEF Writes
  <2> QED BY <1>5, <2>1 DEF Only
<1> QED BY <1>4, <1>5

LEMMA MintIs == TypesOK => Pages!Mint \in Pages!Tokens /\ loginsPast.minted \in Nat
BY DEF TypesOK, PastOK, Pages!Mint, Pages!Tokens

LEMMA sendVerificationDone ==
  ASSUME TypesOK, NEW r \in Callers, Pages!sendVerification(r) PROVE Done(r)
<1>0. req[r] # Pages!Idle
  BY IdleIs DEF Pages!sendVerification
<1>q. req[r] \in Request /\ Knows(req[r])
  BY <1>0, ActiveIs
<1>1. ASSUME req[r].pc = "link"
      PROVE  /\ req[r].op \in {"register", "resend"} /\ req[r].acct \in Pages!Row /\ req[r].seen \in Pages!Row
             /\ req[r].login \in Logins /\ ~Pending(req[r]) /\ req[r].acct # None
  BY <1>1, <1>q, ConstantsAre DEF Knows, Begun, Reads, Signed, Pending
<1>2. CASE /\ req[r].pc = "link" /\ req[r].acct.token = 0
           /\ Pages!SaveAccount(r, [req[r].acct EXCEPT !.token = Pages!Mint], "send", Pages!Answer(r))
           /\ UNCHANGED <<mem, letters>>
  <2> DEFINE new == [req[r].acct EXCEPT !.token = Pages!Mint]
  <2>1. new \in Pages!Row /\ new.token = Pages!Mint /\ new.email = req[r].acct.email /\ new.verified = req[r].acct.verified
    BY <1>1, <1>2, MintIs DEF Pages!Row
  <2>w. Pages!SaveAccount(r, new, "send", Pages!Answer(r)) /\ mem' = mem /\ UNCHANGED letters
    BY <1>2
  <2> HIDE DEF new
  <2>2. CASE Pages!Answer(r) /\ UNCHANGED <<db, letters, loginsPast>>
    <3>1. Only(r, Pages!Idle)
      BY <2>2, AnswerIs
    <3>2. \A e \in Emails : Tries(req'[r], e) => Tries(req[r], e)
      BY <3>1, IdleIs DEF Only, Tries
    <3> QED BY <1>1, <1>2, <2>2, <2>w, <3>2, MemKept, AnswerDone
  <2>3. CASE Saved(r, new) /\ Only(r, req'[r]) /\ ReqOK(req'[r]) /\ req'[r].op # "login"
    <3>1. MemOK(mem') /\ Tried(r)
      BY <2>3, <2>w, MemKept DEF Tries
    <3> QED BY <2>1, <2>3, <3>1 DEF Done, Kinds
  <2>4. ASSUME Writes(r, new, "send")
        PROVE  Saved(r, new) /\ Only(r, req'[r]) /\ ReqOK(req'[r]) /\ req'[r].op # "login"
    <3>s. "send" \in Pcs /\ "send" # "none"
      BY DEF Pcs
    <3>1. /\ Only(r, req'[r]) /\ req'[r] \in Request /\ req'[r].pc = "send" /\ SameAsked(req[r], req'[r])
          /\ req'[r].new = req[r].new /\ req'[r].token = req[r].token
          /\ req'[r].login = req[r].login /\ req'[r].acct = new /\ req'[r].seen = new
      BY <1>0, <1>1, <1>2, <2>1, <2>4, <3>s, WritesIs
    <3>2. req'[r].op = req[r].op /\ req'[r].email = req[r].email
      BY <3>1 DEF SameAsked
    <3>3. Knows(req'[r]) /\ Reads(req'[r])
      BY <1>1, <1>2, <1>q, <2>1, <3>1, MintIs DEF Knows, Begun, Reads, Signed, SameAsked
    <3>4. req[r].op = "register" => ~req[r].seen.verified
      BY <1>q, <1>2 DEF Knows
    <3>5. req[r].seen.verified => new.verified
      BY <1>q, <1>1, <1>2, <2>1 DEF Knows
    <3>6. Saved(r, new)
      BY <1>0, <1>1, <1>2, <2>1, <2>4, <2>w, <3>1, <3>2, <3>3, <3>4, <3>5 DEF Saved, Writes
    <3> QED BY <1>1, <1>2, <3>1, <3>2, <3>3, <3>6 DEF ReqOK
  <2>5. Writes(r, new, "send") \/ (Pages!Answer(r) /\ UNCHANGED <<db, letters, loginsPast>>)
    BY <2>w DEF Pages!SaveAccount, Writes
  <2> QED BY <2>2, <2>3, <2>4, <2>5
<1>3. CASE /\ req[r].pc = "link" /\ req[r].acct.token # 0 /\ Pages!Go(r, "send")
           /\ UNCHANGED <<db, mem, letters, loginsPast>>
  <2>s. "send" \in Pcs
    BY DEF Pcs
  <2>1. /\ req'[r] \in Request /\ req'[r].pc = "send" /\ Only(r, req'[r])
        /\ SameAsked(req[r], req'[r]) /\ SameCopy(req[r], req'[r])
        /\ req'[r].new = req[r].new /\ req'[r].token = req[r].token
    BY <1>0, <1>3, <2>s, GoIs
  <2>2. req'[r].op = req[r].op /\ req'[r].acct.token \in Pages!Tokens
    BY <1>1, <1>3, <2>1 DEF SameAsked, SameCopy, Pages!Row, Pages!Tokens
  <2>3. Knows(req'[r]) /\ ~Comes(req'[r]) /\ ~In(req'[r])
    BY <1>1, <1>3, <1>q, <2>1, <2>2 DEF Knows, Begun, Reads, Signed, SameAsked, SameCopy, Comes, In
  <2>4. MemOK(mem') /\ Tried(r)
    BY <1>1, <1>3, <2>2, MemKept DEF Tries
  <2> QED BY <1>0, <1>1, <1>3, <2>3, <2>4, <2>s, GoDone
<1>4. CASE /\ req[r].pc = "send" /\ req[r].op \in {"register", "resend"}
           /\ Pages!Send(r, "verify", req[r].acct.email, req[r].acct.token)
  <2> DEFINE m == [kind |-> "verify", to |-> req[r].acct.email, token |-> req[r].acct.token]
  <2>1. req[r].acct # None /\ req[r].acct \in Pages!Row /\ req[r].acct.token \in Pages!Tokens
    BY <1>4, <1>q, ConstantsAre DEF Knows, Begun, Reads, Signed
  <2>2. m \in Pages!Letter
    BY <2>1 DEF Pages!Letter, Pages!Row
  <2>3. Only(r, Pages!Idle) /\ letters' = letters \cup {m} /\ UNCHANGED <<db, mem, loginsPast>>
    BY <1>4, AnswerIs DEF Pages!Send
  <2>4. Only(r, req'[r]) /\ req'[r] = Pages!Idle /\ ReqOK(req'[r])
    BY <2>3 DEF Only, ReqOK
  <2>5. Sent(r, m)
    BY <1>0, <1>4, <2>2, <2>3, <2>4 DEF Sent
  <2>6. MemOK(mem') /\ Tried(r)
    BY <2>3, <2>4, IdleIs, MemKept DEF Tries
  <2> HIDE DEF m
  <2> QED BY <2>2, <2>4, <2>5, <2>6 DEF Done, Kinds
<1> QED BY <1>2, <1>3, <1>4 DEF Pages!sendVerification


LEMMA answerTakenRegistrationDone ==
  ASSUME TypesOK, NEW r \in Callers, Pages!answerTakenRegistration(r) PROVE Done(r)
<1>0. req[r] # Pages!Idle /\ req[r].op = "register" /\ req[r].pc = "taken" /\ UNCHANGED <<db, letters, loginsPast>>
  BY DEF Pages!answerTakenRegistration, Pages!At
<1>q. req[r] \in Request /\ Knows(req[r])
  BY <1>0, ActiveIs
<1>1. req[r].acct \in Pages!Row /\ req[r].seen = req[r].acct /\ req[r].login \in Logins /\ ~Pending(req[r])
      /\ req[r].acct.email \in Emails /\ req[r].acct # None /\ req[r].pw \in Passwords
  BY <1>0, <1>q, ConstantsAre DEF Knows, Begun, Reads, Signed, Pending, Pages!Row
<1> DEFINE e == req[r].acct.email
           n == [req[r] EXCEPT !.acct.pw = req[r].pw, !.acct.token = 0, !.pc = "link"]
<1>2. CASE Pages!Answer(r)
  <2>1. Only(r, Pages!Idle)
    BY <1>2, AnswerIs
  <2>2. \A f \in Emails : Tries(req'[r], f) => Tries(req[r], f)
    BY <2>1, IdleIs DEF Only, Tries
  <2>3. mem' = mem \/ (Pages!mayMail(e) /\ Pages!Mailed(e))
    BY DEF Pages!answerTakenRegistration
  <2>4. MemOK(mem') /\ Tried(r)
    BY <1>1, <2>2, <2>3, MemKept, MemMailed
  <2> QED BY <1>0, <1>1, <1>2, <2>4, AnswerDone
<1>3. CASE /\ ~req[r].acct.verified /\ Pages!mayMail(e) /\ Pages!Mailed(e)
           /\ req' = [req EXCEPT ![r] = n]
  <2>1. /\ n \in Request /\ n.pc = "link" /\ n.op = "register" /\ n.login = req[r].login /\ n.seen = req[r].seen
        /\ n.email = req[r].email /\ n.pw = req[r].pw /\ n.token = req[r].token
        /\ n.acct \in Pages!Row /\ n.acct.email = req[r].acct.email /\ n.acct.token = 0
        /\ n.acct.verified = req[r].acct.verified
    BY <1>0, <1>1, <1>q DEF Request, Pages!Row, Pcs
  <2>w. req' = [req EXCEPT ![r] = n]
    BY <1>3
  <2> HIDE DEF n
  <2>2. Only(r, req'[r]) /\ req'[r] = n
    BY <2>1, <2>w, OnlyIs DEF Only
  <2>3. Knows(n) /\ ~Comes(n) /\ ~In(n) /\ n.acct # None
    BY <1>0, <1>1, <1>3, <1>q, <2>1, ConstantsAre DEF Knows, Begun, Reads, Signed, Comes, In
  <2>4. Like(req[r], n) /\ Stays(req[r], n) /\ n # Pages!Idle
    BY <1>0, <1>1, <2>1, <2>3, IdleIs DEF Like, Stays
  <2>5. \A f \in Emails : Tries(req'[r], f) => Tries(req[r], f)
    BY <2>1, <2>2 DEF Tries
  <2>6. MemOK(mem') /\ Tried(r)
    BY <1>1, <1>3, <2>5, MemMailed
  <2> QED BY <1>0, <2>1, <2>2, <2>3, <2>4, <2>6 DEF Done, Kinds, Quiet, ReqOK
<1>4. \/ Pages!Answer(r)
      \/ /\ ~req[r].acct.verified /\ Pages!mayMail(e) /\ Pages!Mailed(e)
         /\ req' = [req EXCEPT ![r] = n]
  <2>1. (~Pages!mayMail(e) /\ Pages!Answer(r))
        \/ (/\ Pages!mayMail(e) /\ Pages!Mailed(e)
            /\ IF req[r].acct.verified THEN Pages!Answer(r)
               ELSE req' = [req EXCEPT ![r] = [@ EXCEPT !.acct.pw = req[r].pw, !.acct.token = 0, !.pc = "link"]])
    BY DEF Pages!answerTakenRegistration
  <2> QED BY <2>1
<1> QED BY <1>2, <1>3, <1>4

(* registerUser's look at the address.                                       *)
LEMMA registerFindDone ==
  ASSUME TypesOK, NEW r \in Callers, Pages!At(r, "register", "find"), UNCHANGED <<db, mem, letters, loginsPast>>,
         \/ \E l \in Pages!GetAccountByEmail(req[r].email) : Pages!Load(r, l, "taken")
         \/ Pages!GetAccountByEmail(req[r].email) = {} /\ Pages!Go(r, "person")
  PROVE  Done(r)
<1>0. req[r] # Pages!Idle /\ req[r].op = "register" /\ req[r].pc = "find"
  BY DEF Pages!At
<1>q. req[r] \in Request /\ Knows(req[r]) /\ ~Pending(req[r])
  BY <1>0, ActiveIs DEF Pending
<1>p. "taken" \in Pcs /\ "person" \in Pcs
  BY DEF Pcs
<1>1. ASSUME NEW l \in Pages!GetAccountByEmail(req[r].email), Pages!Load(r, l, "taken") PROVE Done(r)
  <2>1. l \in Logins /\ db.row[l] # None
    BY FoundIs
  <2>2. /\ Only(r, req'[r]) /\ req'[r] \in Request /\ req'[r].pc = "taken" /\ SameAsked(req[r], req'[r])
        /\ req'[r].login = l /\ req'[r].acct = db.row[l] /\ req'[r].seen = db.row[l] /\ req'[r].acct \in Pages!Row
    BY <1>0, <1>1, <1>p, <2>1, LoadIs
  <2>3. req'[r].op = "register" /\ req'[r].email = req[r].email /\ req'[r].pw = req[r].pw
    BY <1>0, <2>2 DEF SameAsked
  <2>4. Knows(req'[r]) /\ Reads(req'[r]) /\ ~In(req'[r])
    BY <1>0, <1>q, <2>1, <2>2, <2>3 DEF Knows, Begun, Reads, Signed, In
  <2>5. MemOK(mem') /\ Tried(r)
    BY <2>3, MemKept DEF Tries
  <2> QED BY <1>0, <1>1, <1>p, <1>q, <2>1, <2>4, <2>5, LoadDone
<1>2. ASSUME Pages!Go(r, "person") PROVE Done(r)
  <2>2. /\ Only(r, req'[r]) /\ req'[r] \in Request /\ req'[r].pc = "person"
        /\ SameAsked(req[r], req'[r]) /\ SameCopy(req[r], req'[r])
        /\ req'[r].new = req[r].new /\ req'[r].token = req[r].token
    BY <1>0, <1>2, <1>p, GoIs
  <2>4. Knows(req'[r]) /\ Comes(req[r]) /\ ~In(req'[r])
    BY <1>0, <1>q, <2>2 DEF Knows, Begun, Reads, Signed, SameAsked, SameCopy, Comes, In
  <2>5. MemOK(mem') /\ Tried(r)
    BY <1>0, <2>2, MemKept DEF Tries, SameAsked
  <2> QED BY <1>0, <1>2, <1>p, <1>q, <2>4, <2>5, GoDone
<1> QED BY <1>1, <1>2


(* Rows of the other tables keep their types when one table changes.         *)
LEMMA registerPersonDone ==
  ASSUME TypesOK, NEW r \in Callers, Pages!At(r, "register", "person"), UNCHANGED <<mem, letters, loginsPast>>,
         db' = [db EXCEPT !.person = @ \cup {req[r].login}], Pages!Go(r, "save")
  PROVE  Done(r)
<1>0. req[r] # Pages!Idle /\ req[r].op = "register" /\ req[r].pc = "person"
  BY DEF Pages!At
<1>q. req[r] \in Request /\ Knows(req[r]) /\ "save" \in Pcs
  BY <1>0, ActiveIs DEF Pcs
<1>1. /\ Only(r, req'[r]) /\ req'[r] \in Request /\ req'[r].pc = "save"
      /\ SameAsked(req[r], req'[r]) /\ SameCopy(req[r], req'[r])
      /\ req'[r].new = req[r].new /\ req'[r].token = req[r].token
  BY <1>0, <1>q, GoIs
<1>2. Knows(req'[r]) /\ Comes(req[r]) /\ ~In(req'[r]) /\ req'[r].op = "register" /\ req[r].login \in Logins
      /\ req'[r].login = req[r].login
  BY <1>0, <1>q, <1>1 DEF Knows, Begun, Reads, Signed, SameAsked, SameCopy, Comes, In
<1>3. Like(req[r], req'[r])
  BY <1>q, <1>1, <1>2, SameLike
<1>4. MemOK(mem') /\ Tried(r)
  BY <1>2, MemKept DEF Tries
<1>5. db' = [db EXCEPT !.person = db'.person] /\ db'.person = db.person \cup {req[r].login}
  BY DEF TypesOK, DbOK
<1>6. Peopled(r)
  BY <1>0, <1>1, <1>2, <1>3, <1>5 DEF Peopled
<1> QED BY <1>1, <1>2, <1>4, <1>6 DEF Done, Kinds, ReqOK

LEMMA registerUndoDone ==
  ASSUME TypesOK, NEW r \in Callers, Pages!At(r, "register", "undo"), UNCHANGED <<mem, letters, loginsPast>>,
         db' = [db EXCEPT !.person = @ \ {req[r].login}], Pages!Answer(r)
  PROVE  Done(r)
<1>0. req[r] # Pages!Idle /\ req[r].op = "register" /\ req[r].pc = "undo"
  BY DEF Pages!At
<1>q. req[r] \in Request /\ Knows(req[r])
  BY <1>0, ActiveIs
<1>1. Only(r, req'[r]) /\ req'[r] = Pages!Idle /\ ReqOK(req'[r]) /\ Like(req[r], req'[r])
  BY AnswerIs DEF Only, ReqOK, Like
<1>2. req[r].login \in Logins
  BY <1>0, <1>q DEF Knows
<1>4. MemOK(mem') /\ Tried(r)
  BY <1>1, IdleIs, MemKept DEF Tries
<1>5. db' = [db EXCEPT !.person = db'.person] /\ db'.person = db.person \ {req[r].login}
  BY DEF TypesOK, DbOK
<1>6. Peopled(r)
  BY <1>0, <1>1, <1>2, <1>5 DEF Peopled
<1> QED BY <1>1, <1>4, <1>6 DEF Done, Kinds

LEMMA registerSaveDone ==
  ASSUME TypesOK, NEW r \in Callers, Pages!At(r, "register", "save"), UNCHANGED <<mem, letters>>,
         Pages!SaveAccount(r, [email |-> req[r].email, pw |-> req[r].pw, verified |-> FALSE, token |-> Pages!Mint],
                     "mail", Pages!Go(r, "undo"))
  PROVE  Done(r)
<1> DEFINE new == [email |-> req[r].email, pw |-> req[r].pw, verified |-> FALSE, token |-> Pages!Mint]
<1>0. req[r] # Pages!Idle /\ req[r].op = "register" /\ req[r].pc = "save"
  BY DEF Pages!At
<1>q. req[r] \in Request /\ Knows(req[r]) /\ "mail" \in Pcs /\ "undo" \in Pcs
  BY <1>0, ActiveIs DEF Pcs
<1>1. req[r].acct = None /\ req[r].login \in Logins /\ req[r].email \in Emails /\ req[r].pw \in Passwords /\ Comes(req[r])
  BY <1>0, <1>q DEF Knows, Begun, Reads, Signed, Comes
<1>2. new \in Pages!Row /\ new.token = Pages!Mint /\ new.email = req[r].email /\ ~new.verified
  BY <1>1, MintIs DEF Pages!Row
<1>3. Writes(r, new, "mail") \/ (Pages!Go(r, "undo") /\ UNCHANGED <<db, letters, loginsPast>>)
  BY DEF Pages!SaveAccount, Writes
<1> HIDE DEF new
<1>4. ASSUME Writes(r, new, "mail") PROVE Done(r)
  <2>1. /\ Only(r, req'[r]) /\ req'[r] \in Request /\ req'[r].pc = "mail" /\ SameAsked(req[r], req'[r])
        /\ req'[r].new = req[r].new /\ req'[r].token = req[r].token
        /\ req'[r].login = req[r].login /\ req'[r].acct = new /\ req'[r].seen = new
    BY <1>0, <1>1, <1>2, <1>4, <1>q, WritesIs
  <2>2. req'[r].op = req[r].op /\ req'[r].email = req[r].email
    BY <2>1 DEF SameAsked
  <2>3. Knows(req'[r]) /\ Reads(req'[r])
    BY <1>0, <1>1, <1>q, <1>2, <2>1, MintIs DEF Knows, Begun, Reads, Signed, SameAsked
  <2>4. Saved(r, new)
    BY <1>0, <1>1, <1>2, <1>4, <2>1, <2>2, <2>3 DEF Saved, Writes
  <2>5. MemOK(mem') /\ Tried(r)
    BY <1>0, <2>2, MemKept DEF Tries
  <2> QED BY <1>2, <2>1, <2>3, <2>4, <2>5 DEF Done, Kinds, ReqOK
<1>5. ASSUME Pages!Go(r, "undo"), UNCHANGED <<db, letters, loginsPast>> PROVE Done(r)
  <2>1. /\ Only(r, req'[r]) /\ req'[r] \in Request /\ req'[r].pc = "undo"
        /\ SameAsked(req[r], req'[r]) /\ SameCopy(req[r], req'[r])
        /\ req'[r].new = req[r].new /\ req'[r].token = req[r].token
    BY <1>0, <1>5, <1>q, GoIs
  <2>2. Knows(req'[r]) /\ ~In(req'[r]) /\ req'[r].op = "register" /\ req'[r].login = req[r].login
    BY <1>0, <1>q, <2>1 DEF Knows, Begun, Reads, Signed, SameAsked, SameCopy, In
  <2>3. Like(req[r], req'[r]) /\ Stays(req[r], req'[r])
    BY <1>0, <1>1, <1>q, <2>1, <2>2, SameLike DEF Stays, Pending
  <2>4. MemOK(mem') /\ Tried(r)
    BY <2>2, MemKept DEF Tries
  <2> QED BY <1>5, <2>1, <2>2, <2>3, <2>4 DEF Done, Kinds, Quiet, ReqOK
<1> QED BY <1>3, <1>4, <1>5

(* An email is counted before the rest, if it may go at all.                 *)
LEMMA MailDone ==
  ASSUME TypesOK, NEW r \in Callers, req[r] # Pages!Idle, req[r].pc = "mail", NEW c \in Pcs,
         IF Pages!mayMail(req[r].email) THEN Pages!Mailed(req[r].email) /\ Pages!Go(r, c) ELSE Pages!Answer(r) /\ UNCHANGED mem,
         UNCHANGED <<db, letters, loginsPast>>,
         c = IF req[r].op = "register" THEN "link" ELSE "find"
  PROVE  Done(r)
<1>q. /\ req[r] \in Request /\ Knows(req[r]) /\ req[r].email \in Emails /\ ~Pending(req[r])
      /\ req[r].op \in {"register", "resend", "forgot"}
  BY ActiveIs DEF Knows, Begun, Reads, Signed, Pending
<1>1. CASE Pages!mayMail(req[r].email)
  <2>0. Pages!Go(r, c) /\ Pages!Mailed(req[r].email)
    BY <1>1
  <2>1. /\ Only(r, req'[r]) /\ req'[r] \in Request /\ req'[r].pc = c
        /\ SameAsked(req[r], req'[r]) /\ SameCopy(req[r], req'[r])
        /\ req'[r].new = req[r].new /\ req'[r].token = req[r].token
    BY <2>0, GoIs
  <2>2. req'[r].op = req[r].op
    BY <2>1 DEF SameAsked
  <2>3. ASSUME req[r].op = "register" PROVE Knows(req'[r])
    <3>1. req[r].acct \in Pages!Row /\ req[r].seen \in Pages!Row /\ req[r].acct.token \in Pages!Tokens /\ c = "link"
      BY <1>q, <2>3, ConstantsAre DEF Knows, Begun, Reads, Signed
    <3> QED BY <1>q, <2>1, <2>2, <2>3, <3>1 DEF Knows, Begun, Reads, Signed, SameAsked, SameCopy, Pages!Tokens
  <2>4. ASSUME req[r].op # "register" PROVE Knows(req'[r])
    <3>1. req[r].acct = None /\ req[r].seen = None /\ c = "find"
      BY <1>q, <2>4 DEF Knows, Begun, Reads, Signed
    <3> QED BY <1>q, <2>1, <2>2, <2>4, <3>1 DEF Knows, Begun, Reads, Signed, SameAsked, SameCopy
  <2>5. ~Comes(req'[r]) /\ ~In(req'[r])
    BY <1>q, <2>1, <2>2 DEF Comes, In, Signed
  <2>6. MemOK(mem') /\ Tried(r)
    BY <1>1, <1>q, <2>0, <2>2, MemMailed DEF Tries
  <2> QED BY <1>q, <2>0, <2>3, <2>4, <2>5, <2>6, GoDone
<1>2. CASE ~Pages!mayMail(req[r].email)
  <2>1. Pages!Answer(r) /\ mem' = mem
    BY <1>2
  <2>2. Only(r, req'[r]) /\ req'[r] = Pages!Idle
    BY <2>1, AnswerIs DEF Only
  <2>3. MemOK(mem') /\ Tried(r)
    BY <2>1, <2>2, IdleIs, MemKept DEF Tries
  <2> QED BY <1>q, <2>1, <2>3, AnswerDone
<1> QED BY <1>1, <1>2

LEMMA registerUserDone ==
  ASSUME TypesOK, NEW r \in Callers, Pages!registerUser(r) PROVE Done(r)
<1>1. CASE /\ Pages!At(r, "register", "find")
           /\ \/ \E l \in Pages!GetAccountByEmail(req[r].email) : Pages!Load(r, l, "taken")
              \/ Pages!GetAccountByEmail(req[r].email) = {} /\ Pages!Go(r, "person")
           /\ UNCHANGED <<db, mem, letters, loginsPast>>
  BY <1>1, registerFindDone
<1>2. CASE Pages!answerTakenRegistration(r)
  BY <1>2, answerTakenRegistrationDone
<1>3. CASE /\ Pages!At(r, "register", "person")
           /\ db' = [db EXCEPT !.person = @ \cup {req[r].login}]
           /\ Pages!Go(r, "save")
           /\ UNCHANGED <<mem, letters, loginsPast>>
  BY <1>3, registerPersonDone
<1>4. CASE /\ Pages!At(r, "register", "save")
           /\ Pages!SaveAccount(r, [email |-> req[r].email, pw |-> req[r].pw, verified |-> FALSE, token |-> Pages!Mint],
                          "mail", Pages!Go(r, "undo"))
           /\ UNCHANGED <<mem, letters>>
  BY <1>4, registerSaveDone
<1>5. CASE /\ Pages!At(r, "register", "undo")
           /\ db' = [db EXCEPT !.person = @ \ {req[r].login}]
           /\ Pages!Answer(r)
           /\ UNCHANGED <<mem, letters, loginsPast>>
  BY <1>5, registerUndoDone
<1>6. CASE /\ Pages!At(r, "register", "mail")
           /\ IF Pages!mayMail(req[r].email) THEN Pages!Mailed(req[r].email) /\ Pages!Go(r, "link") ELSE Pages!Answer(r) /\ UNCHANGED mem
           /\ UNCHANGED <<db, letters, loginsPast>>
  <2>1. req[r] # Pages!Idle /\ req[r].pc = "mail" /\ req[r].op = "register" /\ "link" \in Pcs
    BY <1>6 DEF Pages!At, Pcs
  <2> QED BY <1>6, <2>1, MailDone
<1> QED BY <1>1, <1>2, <1>3, <1>4, <1>5, <1>6 DEF Pages!registerUser


(* An answer that leaves the tables alone.                                   *)
LEMMA AnsweredIs ==
  ASSUME TypesOK, NEW r \in Callers, Pages!Answer(r)
  PROVE  /\ Only(r, req'[r]) /\ req'[r] = Pages!Idle /\ ReqOK(req'[r]) /\ Like(req[r], req'[r])
         /\ \A e \in Emails : ~Tries(req'[r], e)
BY AnswerIs, IdleIs DEF Only, ReqOK, Like, Tries

LEMMA resendVerificationDone ==
  ASSUME TypesOK, NEW r \in Callers, Pages!resendVerification(r) PROVE Done(r)
<1>0. req[r] # Pages!Idle /\ req[r].op = "resend" /\ "find" \in Pcs /\ "link" \in Pcs
  BY DEF Pages!resendVerification, Pages!At, Pcs
<1>q. req[r] \in Request /\ Knows(req[r]) /\ ~Pending(req[r])
  BY <1>0, ActiveIs DEF Knows, Begun, Reads, Signed, Pending
<1>1. CASE /\ Pages!At(r, "resend", "mail")
           /\ IF Pages!mayMail(req[r].email) THEN Pages!Mailed(req[r].email) /\ Pages!Go(r, "find") ELSE Pages!Answer(r) /\ UNCHANGED mem
           /\ UNCHANGED <<db, letters, loginsPast>>
  BY <1>0, <1>1, MailDone DEF Pages!At
<1>2. ASSUME req[r].pc = "find", NEW l \in Pages!GetAccountByEmail(req[r].email), Pages!Load(r, l, "link"),
             ~db.row[l].verified, UNCHANGED <<db, mem, letters, loginsPast>>
      PROVE  Done(r)
  <2>1. l \in Logins /\ db.row[l] # None
    BY FoundIs
  <2>2. /\ Only(r, req'[r]) /\ req'[r] \in Request /\ req'[r].pc = "link" /\ SameAsked(req[r], req'[r])
        /\ req'[r].login = l /\ req'[r].acct = db.row[l] /\ req'[r].seen = db.row[l] /\ req'[r].acct \in Pages!Row
    BY <1>0, <1>2, <2>1, LoadIs
  <2>3. Knows(req'[r]) /\ Reads(req'[r]) /\ ~In(req'[r]) /\ req'[r].op = "resend"
    BY <1>0, <1>q, <2>1, <2>2 DEF Knows, Begun, Reads, Signed, In, SameAsked
  <2>4. MemOK(mem') /\ Tried(r)
    BY <1>2, <2>3, MemKept DEF Tries
  <2> QED BY <1>0, <1>2, <1>q, <2>1, <2>3, <2>4, LoadDone
<1>3. ASSUME Pages!Answer(r), UNCHANGED <<db, mem, letters, loginsPast>> PROVE Done(r)
  <2>1. MemOK(mem') /\ Tried(r)
    BY <1>3, AnsweredIs, MemKept
  <2> QED BY <1>3, <1>q, <2>1, AnswerDone
<1>4. CASE /\ Pages!At(r, "resend", "find")
           /\ LET fits == {l \in Pages!GetAccountByEmail(req[r].email) : ~db.row[l].verified} IN
              \/ \E l \in fits : Pages!Load(r, l, "link")
              \/ fits = {} /\ Pages!Answer(r)
           /\ UNCHANGED <<db, mem, letters, loginsPast>>
  <2>1. req[r].pc = "find" /\ UNCHANGED <<db, mem, letters, loginsPast>>
    BY <1>4 DEF Pages!At
  <2>2. Pages!Answer(r) \/ \E l \in Pages!GetAccountByEmail(req[r].email) : Pages!Load(r, l, "link") /\ ~db.row[l].verified
    BY <1>4
  <2> QED BY <1>2, <1>3, <2>1, <2>2
<1> QED BY <1>1, <1>4 DEF Pages!resendVerification

(* SaveAccount with a changed copy of the row.                               *)
LEMMA SaveDone ==
  ASSUME TypesOK, NEW r \in Callers, req[r] # Pages!Idle, Reads(req[r]), ~Pending(req[r]),
         NEW new \in Pages!Row, NEW next \in Pcs \cup {"none"},
         Pages!SaveAccount(r, new, next, Pages!Answer(r)), UNCHANGED letters, MemOK(mem'),
         \A n \in Request :
           /\ n.pc = next /\ SameAsked(req[r], n) /\ n.new = req[r].new /\ n.token = req[r].token
           /\ n.login = req[r].login /\ n.acct = new /\ n.seen = new
           => (Knows(n) /\ Reads(n)),
         Tried(r),
         \/ new.token \in {0, req[r].acct.token} /\ new.email = req[r].acct.email
         \/ new.token = 0 /\ req[r].op = "move" /\ req[r].pc = "save" /\ new.email = req[r].email,
         req[r].acct.verified => new.verified,
         new.verified => \/ req[r].acct.verified /\ new.email = req[r].acct.email
                         \/ req[r].op \in {"confirm", "reset", "move"} /\ req[r].email \in Emails,
         req[r].op \in {"confirm", "password", "reset", "move"},
         req[r].op \in {"reset", "password"} => next = "signout",
         req[r].op = "move" => next = "none"
  PROVE  Done(r)
<1>q. /\ req[r] \in Request /\ Knows(req[r]) /\ req[r].acct \in Pages!Row /\ req[r].seen \in Pages!Row
      /\ req[r].login \in Logins /\ req[r].acct # None
  BY ActiveIs, ConstantsAre DEF Knows, Begun, Reads, Signed
<1>1. Writes(r, new, next) \/ (Pages!Answer(r) /\ UNCHANGED <<db, letters, loginsPast>>)
  BY DEF Pages!SaveAccount, Writes
<1>2. ASSUME Pages!Answer(r), UNCHANGED <<db, letters, loginsPast>> PROVE Done(r)
  BY <1>2, AnswerDone
<1>3. ASSUME Writes(r, new, next) PROVE Done(r)
  <2>1. /\ Only(r, req'[r])
        /\ \/ next = "none" /\ req'[r] = Pages!Idle
           \/ /\ next # "none" /\ req'[r] \in Request /\ req'[r].pc = next /\ SameAsked(req[r], req'[r])
              /\ req'[r].new = req[r].new /\ req'[r].token = req[r].token
              /\ req'[r].login = req[r].login /\ req'[r].acct = new /\ req'[r].seen = new
    BY <1>3, <1>q, WritesIs
  <2>2. \/ next = "none" /\ req'[r] = Pages!Idle
        \/ /\ next # "none" /\ req'[r] \in Request /\ req'[r] # Pages!Idle /\ req'[r].pc = next /\ Knows(req'[r]) /\ Reads(req'[r])
           /\ req'[r].op = req[r].op /\ req'[r].email = req[r].email /\ req'[r].token = req[r].token
           /\ req'[r].login = req[r].login /\ req'[r].acct = new
    BY <2>1, IdleIs DEF SameAsked
  <2>3. req[r].seen.verified => new.verified
    BY <1>q DEF Knows
  <2>4. req[r].op = "confirm" => new.email = req[r].email
    BY <1>q DEF Knows
  <2>5. req[r].pc \notin {"signout", "undo"}
    BY <1>q DEF Pending, Reads, Signed
  <2>6. /\ db' = [db EXCEPT !.row[req[r].login] = new]
        /\ loginsPast' = [loginsPast EXCEPT !.stale = @ \/ Pages!Overtaken(r),
             !.had = @ \cup {req[r].login},
             !.gen[req[r].login] = IF req[r].op \in {"register", "reset", "password"} THEN @ + 1 ELSE @,
             !.confirmed[req[r].login] = IF req[r].op = "confirm" THEN @ + 1 ELSE @,
             !.minted = IF new.token > @ THEN new.token ELSE @,
             !.proved[req[r].login] = IF req[r].op \in {"confirm", "reset", "move"}
                                      THEN @ \cup {req[r].email} ELSE @]
    BY <1>3 DEF Writes
  <2>7. Saved(r, new)
    BY <1>q, <2>2, <2>3, <2>4, <2>5, <2>6 DEF Saved
  <2>8. ReqOK(req'[r])
    BY <2>2 DEF ReqOK
  <2> QED BY <2>1, <2>7, <2>8 DEF Done, Kinds
<1> QED BY <1>1, <1>2, <1>3

LEMMA StartDone ==
  ASSUME TypesOK, NEW r \in Callers, req[r] # Pages!Idle, req[r].pc = "session",
         Pages!startSession(r, req[r].login), Pages!Answer(r), UNCHANGED letters, MemOK(mem'), Tried(r)
  PROVE  Done(r)
<1>1. CASE db.row[req[r].login] = None /\ UNCHANGED <<db, loginsPast>>
  <2>1. ~Pending(req[r])
    BY DEF Pending
  <2> QED BY <1>1, <2>1, AnswerDone
<1>2. CASE /\ db.row[req[r].login] # None
           /\ Pages!SaveSession(req[r].login, Pages!Mint, req[r].gen)
           /\ loginsPast' = [loginsPast EXCEPT !.minted = Pages!Mint, !.stale = @ \/ Pages!Overtaken(r)]
  <2>1. Started(r)
    BY <1>2, AnsweredIs DEF Started, Pages!SaveSession
  <2> QED BY <2>1, AnsweredIs DEF Done, Kinds
<1> QED BY <1>1, <1>2 DEF Pages!startSession


(* The letter whose button was pressed names the address the token is for.   *)
LEMMA confirmEmailDone ==
  ASSUME TypesOK, ClaimsOK, LettersOK, NEW r \in Callers, Pages!confirmEmail(r) PROVE Done(r)
<1>0. req[r] # Pages!Idle /\ req[r].op = "confirm" /\ "save" \in Pcs /\ "session" \in Pcs
  BY DEF Pages!confirmEmail, Pages!At, Pcs
<1>q. req[r] \in Request /\ Knows(req[r]) /\ ~Pending(req[r]) /\ req[r].token \in Pages!Tokens /\ req[r].email \in Emails
  BY <1>0, ActiveIs DEF Knows, Begun, Reads, Signed, Pending
<1>1. ASSUME req[r].pc = "find", NEW l \in Pages!GetAccountByVerificationToken(req[r].token), Pages!Load(r, l, "save"),
             UNCHANGED <<db, mem, letters, loginsPast>>
      PROVE  Done(r)
  <2>1. l \in Logins /\ db.row[l] # None /\ db.row[l].token = req[r].token
    BY DEF Pages!GetAccountByVerificationToken
  <2>2. /\ Only(r, req'[r]) /\ req'[r] \in Request /\ req'[r].pc = "save" /\ SameAsked(req[r], req'[r])
        /\ req'[r].login = l /\ req'[r].acct = db.row[l] /\ req'[r].seen = db.row[l] /\ req'[r].acct \in Pages!Row
        /\ req'[r].token = req[r].token
    BY <1>0, <1>1, <2>1, LoadIs
  <2>3. db.row[l].email = req[r].email
    <3> DEFINE m == [kind |-> "verify", to |-> req[r].email, token |-> req[r].token]
    <3>1. m \in letters
      BY <1>0 DEF LettersOK
    <3>2. m.kind = "verify" /\ m.token = req[r].token /\ m.to = req[r].email
      OBVIOUS
    <3> HIDE DEF m
    <3>3. Claims(req[r].token, req[r].email)
      BY <3>1, <3>2 DEF Claims
    <3>4. Claims(req[r].token, db.row[l].email) /\ db.row[l].email \in Emails
      BY <2>1, <2>2 DEF Claims, Pages!Row
    <3> QED BY <1>q, <3>3, <3>4 DEF ClaimsOK
  <2>4. Knows(req'[r]) /\ Reads(req'[r]) /\ ~In(req'[r]) /\ req'[r].op = "confirm"
    BY <1>0, <1>q, <2>1, <2>2, <2>3 DEF Knows, Begun, Reads, Signed, In, SameAsked
  <2>5. MemOK(mem') /\ Tried(r)
    BY <1>1, <2>4, MemKept DEF Tries
  <2> QED BY <1>0, <1>1, <1>q, <2>1, <2>4, <2>5, LoadDone
<1>2. ASSUME Pages!Answer(r), UNCHANGED <<db, mem, letters, loginsPast>> PROVE Done(r)
  <2>1. MemOK(mem') /\ Tried(r)
    BY <1>2, AnsweredIs, MemKept
  <2> QED BY <1>2, <1>q, <2>1, AnswerDone
<1>3. CASE /\ Pages!At(r, "confirm", "find")
           /\ LET fits == {l \in Pages!GetAccountByVerificationToken(req[r].token) : ~db.row[l].verified} IN
              \/ \E l \in fits : Pages!Load(r, l, "save")
              \/ fits = {} /\ Pages!Answer(r)
           /\ UNCHANGED <<db, mem, letters, loginsPast>>
  <2>1. req[r].pc = "find" /\ UNCHANGED <<db, mem, letters, loginsPast>>
    BY <1>3 DEF Pages!At
  <2>2. Pages!Answer(r) \/ \E l \in Pages!GetAccountByVerificationToken(req[r].token) : Pages!Load(r, l, "save")
    BY <1>3
  <2> QED BY <1>1, <1>2, <2>1, <2>2
<1>4. CASE /\ Pages!At(r, "confirm", "save")
           /\ Pages!SaveAccount(r, [req[r].acct EXCEPT !.verified = TRUE, !.token = 0], "session", Pages!Answer(r))
           /\ UNCHANGED <<mem, letters>>
  <2> DEFINE new == [req[r].acct EXCEPT !.verified = TRUE, !.token = 0]
  <2>0. req[r].pc = "save"
    BY <1>4 DEF Pages!At
  <2>1. Reads(req[r]) /\ req[r].acct \in Pages!Row
    BY <1>0, <1>q, <2>0 DEF Knows, Begun, Reads, Signed
  <2>2. new \in Pages!Row /\ new.token = 0 /\ new.verified /\ new.email = req[r].acct.email
    BY <2>1 DEF Pages!Row
  <2>w. Pages!SaveAccount(r, new, "session", Pages!Answer(r)) /\ mem' = mem /\ UNCHANGED letters
    BY <1>4
  <2> HIDE DEF new
  <2>3. ASSUME NEW n \in Request, n.pc = "session", SameAsked(req[r], n), n.new = req[r].new,
               n.token = req[r].token, n.login = req[r].login, n.acct = new, n.seen = new
        PROVE  Knows(n) /\ Reads(n)
    <3>1. req[r].login \in Logins /\ req[r].acct.email = req[r].email
      BY <1>0, <1>q, <2>0, <2>1, ConstantsAre DEF Knows, Begun, Reads, Signed
    <3> QED BY <1>0, <1>q, <2>2, <2>3, <3>1 DEF Knows, Begun, Reads, Signed, SameAsked
  <2>4. \A e \in Emails : Tries(req'[r], e) => Tries(req[r], e)
    <3>1. Writes(r, new, "session") \/ Pages!Answer(r)
      BY <2>w DEF Pages!SaveAccount, Writes
    <3>2. ASSUME Writes(r, new, "session") PROVE req'[r].op # "login"
      <4>1. req[r].login \in Logins
        BY <1>0, <1>q, <2>0 DEF Knows, Begun, Reads, Signed
      <4> QED BY <1>0, <2>2, <3>2, <4>1, WritesIs DEF SameAsked
    <3> QED BY <3>1, <3>2, AnsweredIs DEF Tries
  <2>5. MemOK(mem') /\ Tried(r)
    BY <2>w, <2>4, MemKept
  <2> QED BY <1>0, <1>q, <2>1, <2>2, <2>w, <2>3, <2>5, SaveDone
<1>5. CASE /\ Pages!At(r, "confirm", "session")
           /\ Pages!startSession(r, req[r].login)
           /\ mem' = IF db.row[req[r].login] = None THEN mem ELSE [mem EXCEPT !.tries[req[r].acct.email] = 0]
           /\ Pages!Answer(r)
           /\ UNCHANGED letters
  <2>1. req[r].pc = "session"
    BY <1>5 DEF Pages!At
  <2>2. req[r].acct \in Pages!Row /\ req[r].acct.email \in Emails
    BY <1>0, <1>q, <2>1 DEF Knows, Begun, Reads, Signed, Pages!Row
  <2>3. mem' = mem \/ mem' = [mem EXCEPT !.tries[req[r].acct.email] = 0]
    BY <1>5
  <2>4. MemOK(mem') /\ Tried(r)
    BY <1>5, <2>2, <2>3, AnsweredIs, MemKept, MemCleared
  <2> QED BY <1>0, <1>5, <2>1, <2>4, StartDone
<1> QED BY <1>3, <1>4, <1>5 DEF Pages!confirmEmail

LEMMA loginUserDone ==
  ASSUME TypesOK, NEW r \in Callers, Pages!loginUser(r) PROVE Done(r)
<1>0. req[r] # Pages!Idle /\ req[r].op = "login" /\ "find" \in Pcs /\ "compare" \in Pcs /\ "session" \in Pcs
  BY DEF Pages!loginUser, Pages!At, Pcs
<1>q. req[r] \in Request /\ Knows(req[r]) /\ ~Pending(req[r]) /\ req[r].email \in Emails
  BY <1>0, ActiveIs DEF Knows, Begun, Reads, Signed, Pending
<1> DEFINE e == req[r].email
<1>1. CASE /\ Pages!At(r, "login", "count")
           /\ IF mem.tries[e] >= SigninMax THEN Pages!Answer(r) ELSE Pages!Go(r, "find")
           /\ UNCHANGED <<db, mem, letters, loginsPast>>
  <2>0. req[r].pc = "count"
    BY <1>1 DEF Pages!At
  <2>1. CASE mem.tries[e] >= SigninMax
    <3>1. Pages!Answer(r) /\ mem' = mem
      BY <1>1, <2>1
    <3>2. MemOK(mem') /\ Tried(r)
      BY <3>1, AnsweredIs, MemKept
    <3> QED BY <1>1, <1>q, <3>1, <3>2, AnswerDone
  <2>2. CASE ~(mem.tries[e] >= SigninMax)
    <3>0. Pages!Go(r, "find") /\ mem' = mem
      BY <1>1, <2>2
    <3>1. /\ Only(r, req'[r]) /\ req'[r] \in Request /\ req'[r].pc = "find"
          /\ SameAsked(req[r], req'[r]) /\ SameCopy(req[r], req'[r])
          /\ req'[r].new = req[r].new /\ req'[r].token = req[r].token
      BY <1>0, <3>0, GoIs
    <3>2. Knows(req'[r]) /\ ~Comes(req'[r]) /\ ~In(req'[r]) /\ req'[r].email = e
      BY <1>0, <1>q, <2>0, <3>1 DEF Knows, Begun, Reads, Signed, SameAsked, SameCopy, Comes, In
    <3>3. MemOK(mem) /\ \A f \in Emails : mem.tries[f] \in Nat
      BY DEF TypesOK, MemOK
    <3>4. mem.tries[e] < SigninMax
      BY <1>q, <2>2, <3>3, ConstantsAre
    <3>5. MemOK(mem') /\ Tried(r)
      BY <3>0, <3>2, <3>3, <3>4 DEF Tried, Tries
    <3> QED BY <1>0, <1>1, <1>q, <3>0, <3>2, <3>5, GoDone
  <2> QED BY <2>1, <2>2
<1>2. ASSUME req[r].pc \in {"find", "compare"}, mem' = [mem EXCEPT !.tries[e] = @ + 1], Pages!Answer(r),
             UNCHANGED <<db, letters, loginsPast>>
      PROVE  Done(r)
  <2>1. Tries(req[r], e)
    BY <1>0, <1>2 DEF Tries
  <2>2. MemOK(mem') /\ Tried(r)
    BY <1>2, <1>q, <2>1, AnsweredIs, MemFailed
  <2> QED BY <1>2, <1>q, <2>2, AnswerDone
<1>3. CASE /\ Pages!At(r, "login", "find")
           /\ \/ \E l \in Pages!GetAccountByEmail(e) : Pages!Load(r, l, "compare") /\ UNCHANGED mem
              \/ Pages!GetAccountByEmail(e) = {} /\ mem' = [mem EXCEPT !.tries[e] = @ + 1] /\ Pages!Answer(r)
           /\ UNCHANGED <<db, letters, loginsPast>>
  <2>0. req[r].pc = "find"
    BY <1>3 DEF Pages!At
  <2>1. ASSUME NEW l \in Pages!GetAccountByEmail(e), Pages!Load(r, l, "compare"), UNCHANGED mem PROVE Done(r)
    <3>1. l \in Logins /\ db.row[l] # None
      BY FoundIs
    <3>2. /\ Only(r, req'[r]) /\ req'[r] \in Request /\ req'[r].pc = "compare" /\ SameAsked(req[r], req'[r])
          /\ req'[r].login = l /\ req'[r].acct = db.row[l] /\ req'[r].seen = db.row[l] /\ req'[r].acct \in Pages!Row
      BY <1>0, <2>1, <3>1, LoadIs
    <3>3. Knows(req'[r]) /\ Reads(req'[r]) /\ ~In(req'[r]) /\ req'[r].email = e
      BY <1>0, <1>q, <2>0, <3>1, <3>2 DEF Knows, Begun, Reads, Signed, In, SameAsked
    <3>4. MemOK(mem') /\ Tried(r)
      BY <1>0, <2>0, <2>1, <3>3, MemKept DEF Tries
    <3> QED BY <1>0, <1>3, <1>q, <2>1, <3>1, <3>3, <3>4, LoadDone
  <2> QED BY <1>2, <1>3, <2>0, <2>1
<1>4. CASE /\ Pages!At(r, "login", "compare")
           /\ \/ /\ req[r].acct.pw # req[r].pw
                 /\ mem' = [mem EXCEPT !.tries[e] = @ + 1]
                 /\ Pages!Answer(r)
              \/ /\ req[r].acct.pw = req[r].pw
                 /\ IF req[r].acct.verified
                    THEN mem' = [mem EXCEPT !.tries[e] = 0] /\ Pages!Go(r, "session")
                    ELSE Pages!Answer(r) /\ UNCHANGED mem
           /\ UNCHANGED <<db, letters, loginsPast>>
  <2>0. req[r].pc = "compare"
    BY <1>4 DEF Pages!At
  <2>1. ASSUME req[r].acct.verified, mem' = [mem EXCEPT !.tries[e] = 0], Pages!Go(r, "session") PROVE Done(r)
    <3>1. /\ Only(r, req'[r]) /\ req'[r] \in Request /\ req'[r].pc = "session"
          /\ SameAsked(req[r], req'[r]) /\ SameCopy(req[r], req'[r])
          /\ req'[r].new = req[r].new /\ req'[r].token = req[r].token
      BY <1>0, <2>1, GoIs
    <3>2. Knows(req'[r]) /\ ~Comes(req'[r]) /\ ~In(req'[r]) /\ \A f \in Emails : ~Tries(req'[r], f)
      BY <1>0, <1>q, <2>0, <2>1, <3>1
      DEF Knows, Begun, Reads, Signed, SameAsked, SameCopy, Comes, In, Tries
    <3>3. MemOK(mem') /\ Tried(r)
      BY <1>q, <2>1, <3>2, MemCleared
    <3> QED BY <1>0, <1>4, <1>q, <2>1, <3>2, <3>3, GoDone
  <2>2. ASSUME Pages!Answer(r), UNCHANGED mem PROVE Done(r)
    <3>1. MemOK(mem') /\ Tried(r)
      BY <2>2, AnsweredIs, MemKept
    <3> QED BY <1>4, <1>q, <2>2, <3>1, AnswerDone
  <2> QED BY <1>2, <1>4, <2>0, <2>1, <2>2
<1>5. CASE /\ Pages!At(r, "login", "session")
           /\ Pages!startSession(r, req[r].login)
           /\ Pages!Answer(r)
           /\ UNCHANGED <<mem, letters>>
  <2>1. req[r].pc = "session"
    BY <1>5 DEF Pages!At
  <2>2. MemOK(mem') /\ Tried(r)
    BY <1>5, AnsweredIs, MemKept
  <2> QED BY <1>0, <1>5, <2>1, <2>2, StartDone
<1> QED BY <1>1, <1>3, <1>4, <1>5 DEF Pages!loginUser


LEMMA userAuthDone ==
  ASSUME TypesOK, NEW r \in Callers, Pages!userAuth(r) PROVE Done(r)
<1>0. req[r] # Pages!Idle /\ "owner" \in Pcs /\ "do" \in Pcs /\ UNCHANGED <<db, mem, letters, loginsPast>>
  BY IdleIs DEF Pages!userAuth, Pcs
<1>q. req[r] \in Request /\ Knows(req[r])
  BY <1>0, ActiveIs
<1>3. ASSUME Pages!Answer(r), ~Pending(req[r]) PROVE Done(r)
  <2>1. MemOK(mem') /\ Tried(r)
    BY <1>0, AnsweredIs, MemKept, <1>3
  <2> QED BY <1>0, <1>3, <2>1, AnswerDone
<1>1. CASE /\ req[r].pc = "auth"
           /\ \/ \E s \in Pages!GetSession(req[r].token) : req' = [req EXCEPT ![r] = [@ EXCEPT !.login = s.login, !.pc = "owner"]]
              \/ Pages!GetSession(req[r].token) = {} /\ Pages!Answer(r)
  <2>0. req[r].op \in Signed /\ ~Pending(req[r]) /\ req[r].acct = None /\ req[r].seen = None
    BY <1>1, <1>q DEF Knows, Begun, Reads, Signed, Pending
  <2>1. ASSUME NEW s \in db.session, req' = [req EXCEPT ![r] = [@ EXCEPT !.login = s.login, !.pc = "owner"]]
        PROVE  Done(r)
    <3> DEFINE n == [req[r] EXCEPT !.login = s.login, !.pc = "owner"]
    <3>1. s.login \in Logins
      BY DEF TypesOK, DbOK, SessionRow
    <3>2. /\ n \in Request /\ n.pc = "owner" /\ n.login = s.login /\ SameAsked(req[r], n) /\ n.token = req[r].token
          /\ n.new = req[r].new /\ n.acct = req[r].acct /\ n.seen = req[r].seen
      BY <1>0, <1>q, <3>1 DEF Request, SameAsked
    <3>w. req' = [req EXCEPT ![r] = n]
      BY <2>1
    <3> HIDE DEF n
    <3>3. Only(r, req'[r]) /\ req'[r] = n
      BY <3>2, <3>w, OnlyIs DEF Only
    <3>4. Knows(n) /\ ~Comes(n)
      BY <1>1, <1>q, <2>0, <3>1, <3>2 DEF Knows, Begun, Reads, Signed, SameAsked, Comes
    <3>5. n # Pages!Idle
      BY <3>2, IdleIs
    <3>6. Like(req[r], n) /\ Stays(req[r], n)
      BY <1>0, <2>0, <3>2, <3>4, <3>5 DEF Like, Stays, SameAsked
    <3>7. MemOK(mem') /\ Tried(r)
      BY <1>0, <2>0, <3>2, <3>3, MemKept DEF Tries, Signed, SameAsked
    <3> QED BY <1>0, <3>2, <3>3, <3>4, <3>6, <3>7 DEF Done, Kinds, Quiet, ReqOK
  <2> QED BY <1>1, <1>3, <2>0, <2>1 DEF Pages!GetSession
<1>2. CASE /\ req[r].pc = "owner"
           /\ IF db.row[req[r].login] = None THEN Pages!Answer(r) ELSE Pages!Load(r, req[r].login, "do")
  <2>0. req[r].op \in Signed /\ ~Pending(req[r]) /\ req[r].login \in Logins
    BY <1>2, <1>q DEF Knows, Begun, Reads, Signed, Pending
  <2>1. ASSUME db.row[req[r].login] # None, Pages!Load(r, req[r].login, "do") PROVE Done(r)
    <3>2. /\ Only(r, req'[r]) /\ req'[r] \in Request /\ req'[r].pc = "do" /\ SameAsked(req[r], req'[r])
          /\ req'[r].login = req[r].login /\ req'[r].acct = db.row[req[r].login]
          /\ req'[r].seen = db.row[req[r].login] /\ req'[r].acct \in Pages!Row /\ req'[r].token = req[r].token
      BY <1>0, <2>0, <2>1, LoadIs
    <3>3. Knows(req'[r]) /\ Reads(req'[r]) /\ In(req[r])
      BY <1>2, <1>q, <2>0, <3>2 DEF Knows, Begun, Reads, Signed, In, SameAsked
    <3>4. MemOK(mem') /\ Tried(r)
      BY <1>0, <2>0, <3>2, MemKept DEF Tries, Signed, SameAsked
    <3>5. req[r].op \in {"forgot", "ask"} => "do" # "send"
      OBVIOUS
    <3>6. req[r].op # "reset"
      BY <2>0 DEF Signed
    <3> QED BY <1>0, <2>0, <2>1, <3>3, <3>4, <3>5, <3>6, LoadDone
  <2> QED BY <1>2, <1>3, <2>0, <2>1
<1> QED BY <1>0, <1>1, <1>2 DEF Pages!userAuth

(* Sessions of one login end, but for one that may be kept.                  *)
LEMMA EndDone ==
  ASSUME TypesOK, NEW r \in Callers, req[r] # Pages!Idle, Pages!Answer(r), UNCHANGED <<letters, loginsPast>>,
         NEW S \in SUBSET SessionRow, db' = [db EXCEPT !.session = S],
         \A s \in S : \E t \in db.session :
           s.login = t.login /\ (s.gen = loginsPast.gen[s.login] \/ (s = t /\ ~(req[r].pc = "signout" /\ req[r].login = s.login))),
         req[r].op # "register", MemOK(mem'), Tried(r)
  PROVE  Done(r)
<1>1. db'.session = S /\ db' = [db EXCEPT !.session = db'.session]
  BY DEF TypesOK, DbOK
<1>2. Ended(r)
  BY <1>1, AnsweredIs DEF Ended
<1> QED BY <1>2, AnsweredIs DEF Done, Kinds

LEMMA OthersDone ==
  ASSUME TypesOK, NEW r \in Callers, req[r] # Pages!Idle, Pages!Answer(r), UNCHANGED <<mem, letters, loginsPast>>,
         Pages!DeleteOtherSessions(req[r].login, req[r].token), req[r].op # "register"
  PROVE  Done(r)
<1> DEFINE l == req[r].login
           here == {s \in db.session : s.login = l /\ s.token = req[r].token}
           S == {s \in db.session : s.login # l} \cup {[s EXCEPT !.gen = loginsPast.gen[l]] : s \in here}
<1>1. db' = [db EXCEPT !.session = S]
  BY DEF Pages!DeleteOtherSessions
<1>2. db.session \subseteq SessionRow /\ loginsPast.gen \in [Logins -> Nat]
  BY DEF TypesOK, DbOK, PastOK
<1>3. ASSUME NEW t \in here
      PROVE  [t EXCEPT !.gen = loginsPast.gen[l]] \in SessionRow /\ [t EXCEPT !.gen = loginsPast.gen[l]].login = t.login
             /\ [t EXCEPT !.gen = loginsPast.gen[l]].gen = loginsPast.gen[t.login] /\ t \in db.session
  BY <1>2 DEF SessionRow
<1>4. S \in SUBSET SessionRow
  BY <1>2, <1>3
<1>5. ASSUME NEW s \in S
      PROVE  \E t \in db.session :
               s.login = t.login /\ (s.gen = loginsPast.gen[s.login] \/ (s = t /\ ~(req[r].pc = "signout" /\ req[r].login = s.login)))
  <2>1. CASE s \in db.session /\ s.login # l
    BY <2>1
  <2>2. ASSUME NEW t \in here, s = [t EXCEPT !.gen = loginsPast.gen[l]]
        PROVE \E u \in db.session : s.login = u.login /\ s.gen = loginsPast.gen[s.login]
    BY <1>3, <2>2
  <2> QED BY <2>1, <2>2
<1>6. MemOK(mem') /\ Tried(r)
  BY AnsweredIs, MemKept
<1> HIDE DEF S
<1> QED BY <1>1, <1>4, <1>5, <1>6, EndDone

LEMMA signOutOthersDone ==
  ASSUME TypesOK, NEW r \in Callers, Pages!signOutOthers(r) PROVE Done(r)
<1>1. req[r] # Pages!Idle /\ req[r].op # "register"
  BY DEF Pages!signOutOthers, Pages!At
<1> QED BY <1>1, OthersDone DEF Pages!signOutOthers

LEMMA logoutUserDone ==
  ASSUME TypesOK, NEW r \in Callers, Pages!logoutUser(r) PROVE Done(r)
<1> DEFINE S == {s \in db.session : s.token # req[r].token}
<1>1. /\ req[r] # Pages!Idle /\ req[r].op # "register" /\ req[r].pc # "signout" /\ Pages!Answer(r)
      /\ UNCHANGED <<mem, letters, loginsPast>> /\ db' = [db EXCEPT !.session = S]
  BY DEF Pages!logoutUser, Pages!At, Pages!DeleteSession
<1>2. S \in SUBSET SessionRow
  BY DEF TypesOK, DbOK
<1>3. \A s \in S : \E t \in db.session :
        s.login = t.login /\ (s.gen = loginsPast.gen[s.login] \/ (s = t /\ ~(req[r].pc = "signout" /\ req[r].login = s.login)))
  BY <1>1
<1>4. MemOK(mem') /\ Tried(r)
  BY <1>1, AnsweredIs, MemKept
<1> HIDE DEF S
<1> QED BY <1>1, <1>2, <1>3, <1>4, EndDone

LEMMA changeMyPasswordDone ==
  ASSUME TypesOK, NEW r \in Callers, Pages!changeMyPassword(r) PROVE Done(r)
<1> DEFINE e == req[r].acct.email
<1>0. req[r] # Pages!Idle /\ req[r].op = "password" /\ "save" \in Pcs /\ "signout" \in Pcs
      /\ req[r].pc \in {"do", "save", "signout"}
  BY DEF Pages!changeMyPassword, Pages!At, Pcs
<1>q. /\ req[r] \in Request /\ Knows(req[r]) /\ Reads(req[r]) /\ req[r].acct \in Pages!Row /\ req[r].acct.email \in Emails
      /\ req[r].login \in Logins /\ req[r].pw \in Passwords /\ req[r].acct # None
      /\ \A f \in Emails : ~Tries(req[r], f)
  BY <1>0, ActiveIs, ConstantsAre DEF Knows, Begun, Reads, Signed, Pages!Row, Tries
<1>1. CASE /\ Pages!At(r, "password", "do")
           /\ \/ mem.tries[e] >= SigninMax /\ Pages!Answer(r) /\ UNCHANGED mem
              \/ /\ mem.tries[e] < SigninMax
                 /\ IF req[r].acct.pw # req[r].old
                    THEN mem' = [mem EXCEPT !.tries[e] = @ + 1] /\ Pages!Answer(r)
                    ELSE Pages!Go(r, "save") /\ UNCHANGED mem
           /\ UNCHANGED <<db, letters, loginsPast>>
  <2>0. req[r].pc = "do" /\ ~Pending(req[r])
    BY <1>0, <1>1 DEF Pages!At, Pending
  <2>1. ASSUME Pages!Answer(r), UNCHANGED mem PROVE Done(r)
    <3>1. MemOK(mem') /\ Tried(r)
      BY <2>1, AnsweredIs, MemKept
    <3> QED BY <1>1, <2>0, <2>1, <3>1, AnswerDone
  <2>2. ASSUME mem.tries[e] < SigninMax, mem' = [mem EXCEPT !.tries[e] = @ + 1], Pages!Answer(r) PROVE Done(r)
    <3>1. MemOK(mem') /\ Tried(r)
      BY <1>q, <2>2, AnsweredIs, MemFailed
    <3> QED BY <1>1, <2>0, <2>2, <3>1, AnswerDone
  <2>3. ASSUME Pages!Go(r, "save"), UNCHANGED mem PROVE Done(r)
    <3>1. /\ Only(r, req'[r]) /\ req'[r] \in Request /\ req'[r].pc = "save"
          /\ SameAsked(req[r], req'[r]) /\ SameCopy(req[r], req'[r])
          /\ req'[r].new = req[r].new /\ req'[r].token = req[r].token
      BY <1>0, <2>3, GoIs
    <3>2. Knows(req'[r]) /\ ~Comes(req'[r]) /\ ~In(req'[r])
      BY <1>0, <1>q, <2>0, <3>1 DEF Knows, Begun, Reads, Signed, SameAsked, SameCopy, Comes, In
    <3>3. MemOK(mem') /\ Tried(r)
      BY <1>0, <2>3, <3>1, MemKept DEF Tries, SameAsked
    <3> QED BY <1>0, <1>1, <2>0, <2>3, <3>2, <3>3, GoDone
  <2> QED BY <1>1, <2>1, <2>2, <2>3
<1>2. CASE /\ Pages!At(r, "password", "save")
           /\ Pages!SaveAccount(r, [req[r].acct EXCEPT !.pw = req[r].pw], "signout", Pages!Answer(r))
           /\ mem' = IF Pages!Clash(req[r].login, req[r].acct) THEN mem ELSE [mem EXCEPT !.tries[e] = 0]
           /\ UNCHANGED letters
  <2> DEFINE new == [req[r].acct EXCEPT !.pw = req[r].pw]
  <2>0. req[r].pc = "save" /\ ~Pending(req[r])
    BY <1>0, <1>2 DEF Pages!At, Pending
  <2>1. new \in Pages!Row /\ new.token = req[r].acct.token /\ (new.verified <=> req[r].acct.verified)
        /\ new.verified = req[r].acct.verified /\ new.email = e
    BY <1>q DEF Pages!Row
  <2>w. /\ Pages!SaveAccount(r, new, "signout", Pages!Answer(r)) /\ UNCHANGED letters
        /\ mem' = mem \/ mem' = [mem EXCEPT !.tries[e] = 0]
    BY <1>2
  <2> HIDE DEF new
  <2>2. ASSUME NEW n \in Request, n.pc = "signout", SameAsked(req[r], n), n.new = req[r].new,
               n.token = req[r].token, n.login = req[r].login, n.acct = new, n.seen = new
        PROVE  Knows(n) /\ Reads(n)
    BY <1>0, <1>q, <2>1, <2>2 DEF Knows, Begun, Reads, Signed, SameAsked
  <2>3. \A f \in Emails : Tries(req'[r], f) => Tries(req[r], f)
    <3>1. Writes(r, new, "signout") \/ Pages!Answer(r)
      BY <2>w DEF Pages!SaveAccount, Writes
    <3>2. ASSUME Writes(r, new, "signout") PROVE req'[r].op # "login"
      BY <1>0, <1>q, <2>1, <3>2, WritesIs DEF SameAsked
    <3> QED BY <3>1, <3>2, AnsweredIs DEF Tries
  <2>4. MemOK(mem') /\ Tried(r)
    BY <1>q, <2>w, <2>3, MemKept, MemCleared
  <2> QED BY <1>0, <1>q, <2>0, <2>1, <2>w, <2>2, <2>4, SaveDone
<1>3. CASE /\ Pages!At(r, "password", "signout")
           /\ Pages!DeleteOtherSessions(req[r].login, req[r].token)
           /\ Pages!Answer(r)
           /\ UNCHANGED <<mem, letters, loginsPast>>
  BY <1>0, <1>3, OthersDone
<1> QED BY <1>1, <1>2, <1>3 DEF Pages!changeMyPassword


LEMMA forgotPasswordDone ==
  ASSUME TypesOK, NEW r \in Callers, Pages!forgotPassword(r) PROVE Done(r)
<1>0. req[r] # Pages!Idle /\ req[r].op = "forgot" /\ "find" \in Pcs /\ "make" \in Pcs /\ "send" \in Pcs
  BY DEF Pages!forgotPassword, Pages!At, Pcs
<1>q. req[r] \in Request /\ Knows(req[r]) /\ ~Pending(req[r])
  BY <1>0, ActiveIs DEF Knows, Begun, Reads, Signed, Pending
<1>a. ASSUME Pages!Answer(r), UNCHANGED <<db, mem, letters, loginsPast>> PROVE Done(r)
  <2>1. MemOK(mem') /\ Tried(r)
    BY <1>a, AnsweredIs, MemKept
  <2> QED BY <1>a, <1>q, <2>1, AnswerDone
<1>1. CASE /\ Pages!At(r, "forgot", "mail")
           /\ IF Pages!mayMail(req[r].email) THEN Pages!Mailed(req[r].email) /\ Pages!Go(r, "find") ELSE Pages!Answer(r) /\ UNCHANGED mem
           /\ UNCHANGED <<db, letters, loginsPast>>
  BY <1>0, <1>1, MailDone DEF Pages!At
<1>2. CASE /\ Pages!At(r, "forgot", "find")
           /\ \/ \E l \in Pages!GetAccountByEmail(req[r].email) : Pages!Load(r, l, "make")
              \/ Pages!GetAccountByEmail(req[r].email) = {} /\ Pages!Answer(r)
           /\ UNCHANGED <<db, mem, letters, loginsPast>>
  <2>0. req[r].pc = "find" /\ UNCHANGED <<db, mem, letters, loginsPast>>
    BY <1>2 DEF Pages!At
  <2>1. ASSUME NEW l \in Pages!GetAccountByEmail(req[r].email), Pages!Load(r, l, "make") PROVE Done(r)
    <3>1. l \in Logins /\ db.row[l] # None
      BY FoundIs
    <3>2. /\ Only(r, req'[r]) /\ req'[r] \in Request /\ req'[r].pc = "make" /\ SameAsked(req[r], req'[r])
          /\ req'[r].login = l /\ req'[r].acct = db.row[l] /\ req'[r].seen = db.row[l] /\ req'[r].acct \in Pages!Row
      BY <1>0, <2>1, <3>1, LoadIs
    <3>3. Knows(req'[r]) /\ Reads(req'[r]) /\ ~In(req'[r]) /\ req'[r].op = "forgot"
      BY <1>0, <1>q, <2>0, <3>1, <3>2 DEF Knows, Begun, Reads, Signed, In, SameAsked
    <3>4. MemOK(mem') /\ Tried(r)
      BY <2>0, <3>3, MemKept DEF Tries
    <3>5. "make" # "send"
      OBVIOUS
    <3> QED BY <1>0, <1>q, <2>0, <2>1, <3>1, <3>3, <3>4, <3>5, LoadDone
  <2> QED BY <1>2, <1>a, <2>0, <2>1
<1>3. CASE /\ Pages!At(r, "forgot", "make")
           /\ IF db.row[req[r].login] = None THEN Pages!Answer(r) /\ UNCHANGED <<db, loginsPast>>
              ELSE /\ Pages!SavePasswordReset(req[r].login, Pages!Mint)
                   /\ loginsPast' = [loginsPast EXCEPT !.minted = Pages!Mint]
                   /\ req' = [req EXCEPT ![r] = [@ EXCEPT !.token = Pages!Mint, !.pc = "send"]]
           /\ UNCHANGED <<mem, letters>>
  <2>0. req[r].pc = "make" /\ UNCHANGED <<mem, letters>>
    BY <1>3 DEF Pages!At
  <2>1. req[r].login \in Logins /\ req[r].acct \in Pages!Row /\ req[r].seen \in Pages!Row
    BY <1>0, <1>q, <2>0 DEF Knows, Begun, Reads, Signed
  <2>2. ASSUME Pages!SavePasswordReset(req[r].login, Pages!Mint), loginsPast' = [loginsPast EXCEPT !.minted = Pages!Mint],
               req' = [req EXCEPT ![r] = [@ EXCEPT !.token = Pages!Mint, !.pc = "send"]]
        PROVE  Done(r)
    <3> DEFINE n == [req[r] EXCEPT !.token = Pages!Mint, !.pc = "send"]
    <3>1. /\ n \in Request /\ n.pc = "send" /\ n.token = Pages!Mint /\ n.op = "forgot" /\ n.email = req[r].email
          /\ n.login = req[r].login /\ n.acct = req[r].acct /\ n.seen = req[r].seen
      BY <1>0, <1>q, MintIs DEF Request, Pages!Tokens
    <3>w. req' = [req EXCEPT ![r] = n]
      BY <2>2
    <3> HIDE DEF n
    <3>2. Only(r, req'[r]) /\ req'[r] = n
      BY <3>1, <3>w, OnlyIs DEF Only
    <3>3. Knows(n)
      BY <1>0, <1>q, <2>1, <3>1, MintIs DEF Knows, Begun, Reads, Signed
    <3>4. MemOK(mem') /\ Tried(r)
      BY <2>0, <3>1, <3>2, MemKept DEF Tries
    <3>5. ResetMade(r)
      BY <1>0, <2>0, <2>1, <2>2, <3>1, <3>2 DEF ResetMade, Pages!SavePasswordReset
    <3> QED BY <3>1, <3>2, <3>3, <3>4, <3>5 DEF Done, Kinds, ReqOK
  <2> QED BY <1>3, <1>a, <2>0, <2>2
<1>4. CASE /\ Pages!At(r, "forgot", "send")
           /\ Pages!Send(r, "reset", req[r].acct.email, req[r].token)
  <2> DEFINE m == [kind |-> "reset", to |-> req[r].acct.email, token |-> req[r].token]
  <2>0. req[r].pc = "send"
    BY <1>4 DEF Pages!At
  <2>1. req[r].acct \in Pages!Row /\ req[r].token \in Pages!Tokens
    BY <1>0, <2>0, <1>q DEF Knows, Begun, Reads, Signed
  <2>2. m \in Pages!Letter
    BY <2>1 DEF Pages!Letter, Pages!Row
  <2>3. Pages!Answer(r) /\ letters' = letters \cup {m} /\ UNCHANGED <<db, mem, loginsPast>>
    BY <1>4 DEF Pages!Send
  <2>4. Sent(r, m)
    BY <1>0, <2>0, <2>2, <2>3, AnsweredIs DEF Sent
  <2>5. MemOK(mem') /\ Tried(r)
    BY <2>3, AnsweredIs, MemKept
  <2> HIDE DEF m
  <2> QED BY <2>2, <2>3, <2>4, <2>5, AnsweredIs DEF Done, Kinds
<1> QED BY <1>1, <1>2, <1>3, <1>4 DEF Pages!forgotPassword

(* What Taken leaves of a request.                                           *)
LEMMA TakenIs ==
  ASSUME TypesOK, NEW r \in Callers, req[r] # Pages!Idle, req[r].op \in {"reset", "move"}, req[r].pc = "take",
         NEW fits \in SUBSET Logins, Pages!Taken(r, fits),
         req[r].op = "move" => \A l \in fits : db.change[l].email = req[r].email
  PROVE  /\ Only(r, req'[r]) /\ ReqOK(req'[r]) /\ Took(r, fits)
         /\ \A e \in Emails : ~Tries(req'[r], e)
<1>q. req[r] \in Request /\ Knows(req[r]) /\ req[r].email \in Emails /\ req[r].acct = None /\ req[r].seen = None
      /\ req[r].token \in Pages!Tokens /\ "account" \in Pcs
  BY ActiveIs DEF Knows, Begun, Reads, Signed, Pcs
<1>1. CASE Pages!Answer(r) /\ UNCHANGED loginsPast
  BY <1>1, AnsweredIs DEF Took
<1>2. ASSUME NEW l \in fits,
             req' = [req EXCEPT ![r] = [@ EXCEPT !.login = l, !.pc = "account",
                                        !.new = IF req[r].op = "move" THEN db.change[l].email ELSE None]],
             loginsPast' = [loginsPast EXCEPT !.used = @ \cup {req[r].token}, !.twice = @ \/ req[r].token \in loginsPast.used]
      PROVE  /\ Only(r, req'[r]) /\ ReqOK(req'[r]) /\ Took(r, fits)
             /\ \A e \in Emails : ~Tries(req'[r], e)
  <2> DEFINE n == [req[r] EXCEPT !.login = l, !.pc = "account",
                                 !.new = IF req[r].op = "move" THEN db.change[l].email ELSE None]
  <2>1. /\ n \in Request /\ n.pc = "account" /\ n.login = l /\ n.op = req[r].op /\ n.email = req[r].email
        /\ n.token = req[r].token /\ n.acct = None /\ n.seen = None /\ n.pw = req[r].pw
        /\ n.op = "move" => n.new = n.email
    BY <1>q DEF Request
  <2>w. req' = [req EXCEPT ![r] = n]
    BY <1>2
  <2> HIDE DEF n
  <2>2. Only(r, req'[r]) /\ req'[r] = n
    BY <2>1, <2>w, OnlyIs DEF Only
  <2>3. Knows(n)
    BY <1>q, <2>1 DEF Knows, Begun, Reads, Signed
  <2>4. \A e \in Emails : ~Tries(n, e)
    BY <2>1 DEF Tries
  <2>5. Took(r, fits)
    BY <1>2, <2>1, <2>2 DEF Took
  <2> QED BY <2>1, <2>2, <2>3, <2>4, <2>5 DEF ReqOK
<1> QED BY <1>1, <1>2 DEF Pages!Taken

LEMMA resetPasswordDone ==
  ASSUME TypesOK, NEW r \in Callers, Pages!resetPassword(r) PROVE Done(r)
<1>0. req[r] # Pages!Idle /\ req[r].op = "reset" /\ "save" \in Pcs /\ "signout" \in Pcs
  BY DEF Pages!resetPassword, Pages!At, Pcs
<1>q. req[r] \in Request /\ Knows(req[r]) /\ req[r].email \in Emails /\ req[r].pw \in Passwords
      /\ \A f \in Emails : ~Tries(req[r], f)
  BY <1>0, ActiveIs DEF Knows, Begun, Reads, Signed, Tries
<1>1. CASE /\ Pages!At(r, "reset", "take")
           /\ Pages!TakePasswordReset(req[r].token)
           /\ Pages!Taken(r, {l \in Logins : db.reset[l] = req[r].token})
           /\ UNCHANGED <<mem, letters>>
  <2>0. req[r].pc = "take" /\ UNCHANGED <<mem, letters>>
    BY <1>1 DEF Pages!At
  <2> DEFINE fits == {l \in Logins : db.reset[l] = req[r].token}
  <2>1. fits \in SUBSET Logins /\ Pages!Taken(r, fits)
    BY <1>1
  <2> HIDE DEF fits
  <2>2. Only(r, req'[r]) /\ ReqOK(req'[r]) /\ Took(r, fits) /\ \A e \in Emails : ~Tries(req'[r], e)
    BY <1>0, <2>0, <2>1, TakenIs
  <2>3. MemOK(mem') /\ Tried(r)
    BY <2>0, <2>2, MemKept
  <2>4. ResetTaken(r)
    BY <1>0, <1>1, <2>0, <2>2 DEF ResetTaken, Pages!TakePasswordReset, fits
  <2> QED BY <2>2, <2>3, <2>4 DEF Done, Kinds
<1>2. CASE /\ Pages!At(r, "reset", "account")
           /\ IF db.row[req[r].login] = None THEN Pages!Answer(r) ELSE Pages!Load(r, req[r].login, "save")
           /\ UNCHANGED <<db, mem, letters, loginsPast>>
  <2>0. req[r].pc = "account" /\ ~Pending(req[r]) /\ req[r].login \in Logins
    BY <1>0, <1>2, <1>q DEF Pages!At, Pending, Knows
  <2>1. ASSUME db.row[req[r].login] # None, Pages!Load(r, req[r].login, "save") PROVE Done(r)
    <3>2. /\ Only(r, req'[r]) /\ req'[r] \in Request /\ req'[r].pc = "save" /\ SameAsked(req[r], req'[r])
          /\ req'[r].login = req[r].login /\ req'[r].acct = db.row[req[r].login]
          /\ req'[r].seen = db.row[req[r].login] /\ req'[r].acct \in Pages!Row /\ req'[r].token = req[r].token
      BY <1>0, <2>0, <2>1, LoadIs
    <3>3. Knows(req'[r]) /\ Reads(req'[r]) /\ ~In(req'[r])
      BY <1>0, <1>q, <2>0, <3>2 DEF Knows, Begun, Reads, Signed, In, SameAsked
    <3>4. MemOK(mem') /\ Tried(r)
      BY <1>0, <1>2, <3>2, MemKept DEF Tries, SameAsked
    <3> QED BY <1>0, <1>2, <2>0, <2>1, <3>3, <3>4, LoadDone
  <2>2. ASSUME Pages!Answer(r) PROVE Done(r)
    <3>1. MemOK(mem') /\ Tried(r)
      BY <1>2, <2>2, AnsweredIs, MemKept
    <3> QED BY <1>2, <2>0, <2>2, <3>1, AnswerDone
  <2> QED BY <1>2, <2>1, <2>2
<1>3. CASE /\ Pages!At(r, "reset", "save")
           /\ Pages!SaveAccount(r, [req[r].acct EXCEPT !.pw = req[r].pw, !.verified = TRUE, !.token = 0], "signout", Pages!Answer(r))
           /\ UNCHANGED <<mem, letters>>
  <2> DEFINE new == [req[r].acct EXCEPT !.pw = req[r].pw, !.verified = TRUE, !.token = 0]
  <2>0. req[r].pc = "save" /\ ~Pending(req[r])
    BY <1>0, <1>3 DEF Pages!At, Pending
  <2>p. Reads(req[r]) /\ req[r].acct \in Pages!Row /\ req[r].login \in Logins
    BY <1>0, <1>q, <2>0 DEF Knows, Begun, Reads, Signed
  <2>1. new \in Pages!Row /\ new.token = 0 /\ new.verified /\ new.email = req[r].acct.email
    BY <1>q, <2>p DEF Pages!Row
  <2>w. Pages!SaveAccount(r, new, "signout", Pages!Answer(r)) /\ UNCHANGED letters /\ mem' = mem
    BY <1>3
  <2> HIDE DEF new
  <2>2. ASSUME NEW n \in Request, n.pc = "signout", SameAsked(req[r], n), n.new = req[r].new,
               n.token = req[r].token, n.login = req[r].login, n.acct = new, n.seen = new
        PROVE  Knows(n) /\ Reads(n)
    BY <1>0, <1>q, <2>1, <2>p, <2>2 DEF Knows, Begun, Reads, Signed, SameAsked
  <2>3. \A f \in Emails : Tries(req'[r], f) => Tries(req[r], f)
    <3>1. Writes(r, new, "signout") \/ Pages!Answer(r)
      BY <2>w DEF Pages!SaveAccount, Writes
    <3>2. ASSUME Writes(r, new, "signout") PROVE req'[r].op # "login"
      BY <1>0, <2>p, <2>1, <3>2, WritesIs DEF SameAsked
    <3> QED BY <3>1, <3>2, AnsweredIs DEF Tries
  <2>4. MemOK(mem') /\ Tried(r)
    BY <2>w, <2>3, MemKept
  <2> QED BY <1>0, <1>q, <2>0, <2>1, <2>p, <2>w, <2>2, <2>4, SaveDone
<1>4. CASE /\ Pages!At(r, "reset", "signout")
           /\ Pages!DeleteSessionsOf(req[r].login)
           /\ mem' = [mem EXCEPT !.tries[req[r].acct.email] = 0]
           /\ Pages!Answer(r)
           /\ UNCHANGED <<letters, loginsPast>>
  <2> DEFINE S == {s \in db.session : s.login # req[r].login}
  <2>0. req[r].pc = "signout" /\ db' = [db EXCEPT !.session = S]
    BY <1>4 DEF Pages!At, Pages!DeleteSessionsOf
  <2>1. req[r].acct.email \in Emails
    BY <1>0, <1>q, <2>0 DEF Knows, Begun, Reads, Signed, Pages!Row
  <2>2. S \in SUBSET SessionRow
    BY DEF TypesOK, DbOK
  <2>3. \A s \in S : \E t \in db.session :
          s.login = t.login /\ (s.gen = loginsPast.gen[s.login] \/ (s = t /\ ~(req[r].pc = "signout" /\ req[r].login = s.login)))
    OBVIOUS
  <2>4. MemOK(mem') /\ Tried(r)
    BY <1>4, <2>1, AnsweredIs, MemCleared
  <2> HIDE DEF S
  <2> QED BY <1>0, <1>4, <2>0, <2>2, <2>3, <2>4, EndDone
<1> QED BY <1>1, <1>2, <1>3, <1>4 DEF Pages!resetPassword


LEMMA askToChangeEmailDone ==
  ASSUME TypesOK, NEW r \in Callers, Pages!askToChangeEmail(r) PROVE Done(r)
<1>0. req[r] # Pages!Idle /\ req[r].op = "ask" /\ "find" \in Pcs /\ "make" \in Pcs /\ req[r].pc \in {"do", "find", "make", "send"}
  BY DEF Pages!askToChangeEmail, Pages!At, Pcs
<1>q. /\ req[r] \in Request /\ Knows(req[r]) /\ ~Pending(req[r]) /\ req[r].email \in Emails
      /\ req[r].acct \in Pages!Row /\ req[r].seen \in Pages!Row /\ req[r].login \in Logins /\ In(req[r])
  BY <1>0, ActiveIs DEF Knows, Begun, Reads, Signed, Pending, In
<1>a. ASSUME Pages!Answer(r), UNCHANGED <<db, mem, letters, loginsPast>> PROVE Done(r)
  <2>1. MemOK(mem') /\ Tried(r)
    BY <1>a, AnsweredIs, MemKept
  <2> QED BY <1>a, <1>q, <2>1, AnswerDone
<1>g. ASSUME NEW c \in {"find", "make"}, Pages!Go(r, c), UNCHANGED <<db, letters, loginsPast>>, MemOK(mem'),
             \A e \in Emails : Tries(req'[r], e) => Tries(req[r], e), Tried(r)
      PROVE  Done(r)
  <2>1. c \in Pcs /\ c # "send"
    BY DEF Pcs
  <2>2. /\ Only(r, req'[r]) /\ req'[r] \in Request /\ req'[r].pc = c
        /\ SameAsked(req[r], req'[r]) /\ SameCopy(req[r], req'[r])
        /\ req'[r].new = req[r].new /\ req'[r].token = req[r].token
    BY <1>0, <1>g, <2>1, GoIs
  <2>3. Knows(req'[r]) /\ ~Comes(req'[r])
    BY <1>0, <1>q, <2>2 DEF Knows, Begun, Reads, Signed, SameAsked, SameCopy, Comes
  <2> QED BY <1>0, <1>g, <1>q, <2>1, <2>3, GoDone
<1>n. ASSUME NEW c \in {"find", "make"}, Pages!Go(r, c) PROVE \A e \in Emails : Tries(req'[r], e) => Tries(req[r], e)
  <2>1. c \in Pcs
    BY DEF Pcs
  <2>2. SameAsked(req[r], req'[r])
    BY <1>0, <1>n, <2>1, GoIs
  <2> QED BY <1>0, <2>2 DEF SameAsked, Tries
<1>1. CASE /\ Pages!At(r, "ask", "do")
           /\ IF req[r].email # req[r].acct.email /\ Pages!mayMail(req[r].email)
              THEN Pages!Mailed(req[r].email) /\ Pages!Go(r, "find")
              ELSE Pages!Answer(r) /\ UNCHANGED mem
           /\ UNCHANGED <<db, letters, loginsPast>>
  <2>1. ASSUME Pages!mayMail(req[r].email), Pages!Mailed(req[r].email), Pages!Go(r, "find") PROVE Done(r)
    <3>1. \A e \in Emails : Tries(req'[r], e) => Tries(req[r], e)
      BY <1>n, <2>1
    <3>2. MemOK(mem') /\ Tried(r)
      BY <1>q, <2>1, <3>1, MemMailed
    <3> QED BY <1>1, <1>g, <2>1, <3>1, <3>2
  <2> QED BY <1>1, <1>a, <2>1
<1>2. CASE /\ Pages!At(r, "ask", "find")
           /\ IF Pages!GetAccountByEmail(req[r].email) # {} THEN Pages!Answer(r) ELSE Pages!Go(r, "make")
           /\ UNCHANGED <<db, mem, letters, loginsPast>>
  <2>1. ASSUME Pages!Go(r, "make") PROVE Done(r)
    <3>1. \A e \in Emails : Tries(req'[r], e) => Tries(req[r], e)
      BY <1>n, <2>1
    <3>2. MemOK(mem') /\ Tried(r)
      BY <1>2, <3>1, MemKept
    <3> QED BY <1>2, <1>g, <2>1, <3>1, <3>2
  <2> QED BY <1>2, <1>a, <2>1
<1>3. CASE /\ Pages!At(r, "ask", "make")
           /\ IF db.row[req[r].login] = None THEN Pages!Answer(r) /\ UNCHANGED <<db, loginsPast>>
              ELSE /\ Pages!SaveEmailChange(req[r].login, Pages!Mint, req[r].email)
                   /\ loginsPast' = [loginsPast EXCEPT !.minted = Pages!Mint]
                   /\ req' = [req EXCEPT ![r] = [@ EXCEPT !.token = Pages!Mint, !.pc = "send"]]
           /\ UNCHANGED <<mem, letters>>
  <2>0. req[r].pc = "make" /\ UNCHANGED <<mem, letters>>
    BY <1>3 DEF Pages!At
  <2>2. ASSUME Pages!SaveEmailChange(req[r].login, Pages!Mint, req[r].email), loginsPast' = [loginsPast EXCEPT !.minted = Pages!Mint],
               req' = [req EXCEPT ![r] = [@ EXCEPT !.token = Pages!Mint, !.pc = "send"]]
        PROVE  Done(r)
    <3> DEFINE n == [req[r] EXCEPT !.token = Pages!Mint, !.pc = "send"]
    <3>1. /\ n \in Request /\ n.pc = "send" /\ n.token = Pages!Mint /\ n.op = "ask" /\ n.email = req[r].email
          /\ n.login = req[r].login /\ n.acct = req[r].acct /\ n.seen = req[r].seen
      BY <1>0, <1>q, MintIs DEF Request, Pages!Tokens, Pcs
    <3>w. req' = [req EXCEPT ![r] = n]
      BY <2>2
    <3> HIDE DEF n
    <3>2. Only(r, req'[r]) /\ req'[r] = n
      BY <3>1, <3>w, OnlyIs DEF Only
    <3>3. Knows(n)
      BY <1>0, <1>q, <3>1, MintIs DEF Knows, Begun, Reads, Signed
    <3>4. MemOK(mem') /\ Tried(r)
      BY <2>0, <3>1, <3>2, MemKept DEF Tries
    <3>5. ChangeMade(r)
      BY <1>0, <1>q, <2>0, <2>2, <3>1, <3>2 DEF ChangeMade, Pages!SaveEmailChange
    <3> QED BY <3>1, <3>2, <3>3, <3>4, <3>5 DEF Done, Kinds, ReqOK
  <2> QED BY <1>3, <1>a, <2>0, <2>2
<1>4. CASE /\ Pages!At(r, "ask", "send")
           /\ Pages!Send(r, "change", Pages!linkGoesTo(r), req[r].token)
  <2> DEFINE m == [kind |-> "change", to |-> req[r].email, token |-> req[r].token]
  <2>0. req[r].pc = "send"
    BY <1>4 DEF Pages!At
  <2>1. req[r].token \in Pages!Tokens
    BY <1>0, <2>0, <1>q DEF Knows
  <2>2. m \in Pages!Letter
    BY <1>q, <2>1 DEF Pages!Letter
  <2>3. Pages!Answer(r) /\ letters' = letters \cup {m} /\ UNCHANGED <<db, mem, loginsPast>>
    BY <1>4 DEF Pages!Send, Pages!linkGoesTo
  <2>4. Sent(r, m)
    BY <1>0, <2>0, <2>2, <2>3, AnsweredIs DEF Sent
  <2>5. MemOK(mem') /\ Tried(r)
    BY <2>3, AnsweredIs, MemKept
  <2> HIDE DEF m
  <2> QED BY <2>2, <2>3, <2>4, <2>5, AnsweredIs DEF Done, Kinds
<1> QED BY <1>1, <1>2, <1>3, <1>4 DEF Pages!askToChangeEmail

(* The letter names the address that the link is stored with.                *)
LEMMA confirmEmailChangeDone ==
  ASSUME TypesOK, LettersOK, NEW r \in Callers, Pages!confirmEmailChange(r) PROVE Done(r)
<1>0. req[r] # Pages!Idle /\ req[r].op = "move" /\ "other" \in Pcs /\ "save" \in Pcs
  BY DEF Pages!confirmEmailChange, Pages!At, Pcs
<1>q. req[r] \in Request /\ Knows(req[r]) /\ req[r].email \in Emails /\ ~Pending(req[r])
      /\ \A f \in Emails : ~Tries(req[r], f)
  BY <1>0, ActiveIs DEF Knows, Begun, Reads, Signed, Tries, Pending
<1>a. ASSUME Pages!Answer(r), UNCHANGED <<db, mem, letters, loginsPast>> PROVE Done(r)
  <2>1. MemOK(mem') /\ Tried(r)
    BY <1>a, AnsweredIs, MemKept
  <2> QED BY <1>a, <1>q, <2>1, AnswerDone
<1>1. CASE /\ Pages!At(r, "move", "take")
           /\ Pages!TakeEmailChange(req[r].token)
           /\ Pages!Taken(r, {l \in Logins : db.change[l].token = req[r].token})
           /\ UNCHANGED <<mem, letters>>
  <2>0. req[r].pc = "take" /\ UNCHANGED <<mem, letters>>
    BY <1>1 DEF Pages!At
  <2> DEFINE fits == {l \in Logins : db.change[l].token = req[r].token}
             m == [kind |-> "change", to |-> req[r].email, token |-> req[r].token]
  <2>1. fits \in SUBSET Logins /\ Pages!Taken(r, fits)
    BY <1>1
  <2>2. m \in letters
    BY <1>0 DEF LettersOK
  <2>3. m.kind = "change" /\ m.to = req[r].email /\ m.token = req[r].token
    OBVIOUS
  <2> HIDE DEF m
  <2>4. \A l \in fits : db.change[l].email = req[r].email
    BY <2>2, <2>3 DEF LettersOK
  <2> HIDE DEF fits
  <2>5. Only(r, req'[r]) /\ ReqOK(req'[r]) /\ Took(r, fits) /\ \A e \in Emails : ~Tries(req'[r], e)
    BY <1>0, <2>0, <2>1, <2>4, TakenIs
  <2>6. MemOK(mem') /\ Tried(r)
    BY <2>0, <2>5, MemKept
  <2>7. ChangeTaken(r)
    BY <1>0, <1>1, <2>0, <2>5 DEF ChangeTaken, Pages!TakeEmailChange, fits
  <2> QED BY <2>5, <2>6, <2>7 DEF Done, Kinds
<1>2. CASE /\ Pages!At(r, "move", "account")
           /\ IF db.row[req[r].login] = None THEN Pages!Answer(r) ELSE Pages!Load(r, req[r].login, "other")
           /\ UNCHANGED <<db, mem, letters, loginsPast>>
  <2>0. req[r].pc = "account" /\ req[r].login \in Logins
    BY <1>0, <1>2, <1>q DEF Pages!At, Knows
  <2>1. ASSUME db.row[req[r].login] # None, Pages!Load(r, req[r].login, "other") PROVE Done(r)
    <3>2. /\ Only(r, req'[r]) /\ req'[r] \in Request /\ req'[r].pc = "other" /\ SameAsked(req[r], req'[r])
          /\ req'[r].login = req[r].login /\ req'[r].acct = db.row[req[r].login]
          /\ req'[r].seen = db.row[req[r].login] /\ req'[r].acct \in Pages!Row /\ req'[r].token = req[r].token
          /\ req'[r].new = req[r].new
      BY <1>0, <2>0, <2>1, LoadIs
    <3>3. Knows(req'[r]) /\ Reads(req'[r]) /\ In(req[r])
      BY <1>0, <1>q, <2>0, <3>2 DEF Knows, Begun, Reads, Signed, In, SameAsked
    <3>4. MemOK(mem') /\ Tried(r)
      BY <1>0, <1>2, <3>2, MemKept DEF Tries, SameAsked
    <3> QED BY <1>0, <1>2, <1>q, <2>0, <2>1, <3>3, <3>4, LoadDone
  <2> QED BY <1>2, <1>a, <2>1
<1>3. CASE /\ Pages!At(r, "move", "other")
           /\ IF Pages!GetAccountByEmail(req[r].new) \subseteq {req[r].login} THEN Pages!Go(r, "save") ELSE Pages!Answer(r)
           /\ UNCHANGED <<db, mem, letters, loginsPast>>
  <2>0. req[r].pc = "other"
    BY <1>3 DEF Pages!At
  <2>1. ASSUME Pages!Go(r, "save") PROVE Done(r)
    <3>1. /\ Only(r, req'[r]) /\ req'[r] \in Request /\ req'[r].pc = "save"
          /\ SameAsked(req[r], req'[r]) /\ SameCopy(req[r], req'[r])
          /\ req'[r].new = req[r].new /\ req'[r].token = req[r].token
      BY <1>0, <2>1, GoIs
    <3>2. Knows(req'[r]) /\ ~Comes(req'[r]) /\ In(req[r])
      BY <1>0, <1>q, <2>0, <3>1 DEF Knows, Begun, Reads, Signed, SameAsked, SameCopy, Comes, In
    <3>3. MemOK(mem') /\ Tried(r)
      BY <1>0, <1>3, <3>1, MemKept DEF Tries, SameAsked
    <3> QED BY <1>0, <1>3, <1>q, <2>1, <3>2, <3>3, GoDone
  <2> QED BY <1>3, <1>a, <2>1
<1>4. CASE /\ Pages!At(r, "move", "save")
           /\ Pages!SaveAccount(r, [req[r].acct EXCEPT !.email = req[r].new, !.verified = TRUE, !.token = 0],
                          "none", Pages!Answer(r))
           /\ UNCHANGED <<mem, letters>>
  <2> DEFINE new == [req[r].acct EXCEPT !.email = req[r].new, !.verified = TRUE, !.token = 0]
  <2>0. req[r].pc = "save"
    BY <1>4 DEF Pages!At
  <2>p. Reads(req[r]) /\ req[r].acct \in Pages!Row /\ req[r].login \in Logins /\ req[r].new = req[r].email
    BY <1>0, <1>q, <2>0 DEF Knows, Begun, Reads, Signed
  <2>1. new \in Pages!Row /\ new.token = 0 /\ new.verified /\ new.email = req[r].email
    BY <1>q, <2>p DEF Pages!Row
  <2>w. Pages!SaveAccount(r, new, "none", Pages!Answer(r)) /\ UNCHANGED letters /\ mem' = mem
    BY <1>4
  <2> HIDE DEF new
  <2>2. \A n \in Request :
           /\ n.pc = "none" /\ SameAsked(req[r], n) /\ n.new = req[r].new /\ n.token = req[r].token
           /\ n.login = req[r].login /\ n.acct = new /\ n.seen = new
           => (Knows(n) /\ Reads(n))
    BY DEF Request, Pcs
  <2>3. Pages!Answer(r)
    BY <2>w DEF Pages!SaveAccount
  <2>4. MemOK(mem') /\ Tried(r)
    BY <2>w, <2>3, AnsweredIs, MemKept
  <2> QED BY <1>0, <1>q, <2>0, <2>1, <2>p, <2>w, <2>2, <2>4, SaveDone
<1> QED BY <1>1, <1>2, <1>3, <1>4 DEF Pages!confirmEmailChange

LEMMA deleteMeDone ==
  ASSUME TypesOK, NEW r \in Callers, Pages!deleteMe(r) PROVE Done(r)
<1>0. req[r] # Pages!Idle /\ req[r].op = "delete" /\ req[r].pc = "do" /\ Pages!Answer(r) /\ UNCHANGED <<mem, letters>>
  BY DEF Pages!deleteMe, Pages!At
<1>q. ~Pending(req[r]) /\ req[r].login \in Logins
  BY <1>0, ActiveIs DEF Knows, Begun, Reads, Signed, Pending
<1>1. MemOK(mem') /\ Tried(r)
  BY <1>0, AnsweredIs, MemKept
<1>2. CASE UNCHANGED <<db, loginsPast>>
  BY <1>0, <1>1, <1>2, <1>q, AnswerDone
<1>3. CASE Pages!DeleteAccount(req[r].login) /\ loginsPast' = [loginsPast EXCEPT !.deleted = @ \cup {req[r].login}]
  <2>1. Gone(r)
    BY <1>0, <1>3, <1>q, AnsweredIs DEF Gone, Pages!DeleteAccount
  <2> QED BY <1>0, <1>1, <2>1, AnsweredIs DEF Done, Kinds
<1> QED BY <1>2, <1>3 DEF Pages!deleteMe

LEMMA BreakOffDone ==
  ASSUME TypesOK, NEW r \in Callers, Pages!BreakOff(r) PROVE Done(r)
<1>1. Pages!Answer(r) /\ UNCHANGED <<db, mem, letters>> /\ loginsPast' = [loginsPast EXCEPT !.broken = @ + 1]
  BY DEF Pages!BreakOff
<1>2. MemOK(mem') /\ Tried(r)
  BY <1>1, AnsweredIs, MemKept
<1>3. Quiet(r)
  BY <1>1, AnsweredIs DEF Quiet
<1> QED BY <1>1, <1>2, <1>3, AnsweredIs DEF Done, Kinds


-----------------------------------------------------------------------------
(* Accounts: a request comes. *)

(* What a request was asked with.                                           *)
AskedOf(n) ==
  /\ n.pc \notin {"signout", "owner", "account", "send"}
  /\ n.op = "ask" => n.pc = "auth"
  /\ n.op = "login" => n.pc = "count"
  /\ n.op \in {"move", "reset"} => n.pc = "take"
  /\ n.op = "register" => (n.login \in Logins \ loginsPast.born /\ n.pc = "find")
  /\ n.op = "reset" => [kind |-> "reset", to |-> n.email, token |-> n.token] \in letters
  /\ n.op = "move" => [kind |-> "change", to |-> n.email, token |-> n.token] \in letters
  /\ n.op = "confirm" => [kind |-> "verify", to |-> n.email, token |-> n.token] \in letters

Asked(op, place, in) == [in EXCEPT !.op = op, !.pc = place]

LEMMA BeginDone ==
  ASSUME TypesOK, NEW r \in Callers, NEW op \in Ops, NEW place \in Pcs, NEW in, Pages!Begin(r, op, place, in),
         LET n == Asked(op, place, in) IN
           /\ n \in Request /\ n.op = op /\ n.pc = place /\ n.login = in.login
           /\ Begun(n) /\ Knows(n) /\ n.acct = None /\ AskedOf(n)
  PROVE  Done(r)
<1> DEFINE n == Asked(op, place, in)
<1>0. /\ n \in Request /\ n.op = op /\ n.pc = place /\ n.login = in.login
      /\ Begun(n) /\ Knows(n) /\ n.acct = None /\ AskedOf(n)
  OBVIOUS
<1>1. /\ req[r] = Pages!Idle /\ UNCHANGED <<db, mem, letters>>
      /\ req' = [req EXCEPT ![r] = n]
      /\ loginsPast' = [loginsPast EXCEPT !.asked = @ + 1, !.born = IF op = "register" THEN @ \cup {n.login} ELSE @]
  BY <1>0 DEF Pages!Begin, Asked
<1> HIDE DEF n
<1>2. Only(r, n)
  BY <1>0, <1>1, OnlyIs
<1>3. req'[r] = n /\ n # Pages!Idle /\ ReqOK(req'[r]) /\ Only(r, req'[r])
  BY <1>0, <1>2, IdleIs DEF Only, ReqOK
<1>4. \A e \in Emails : ~Tries(n, e)
  BY <1>0 DEF Tries, AskedOf
<1>5. MemOK(mem') /\ Tried(r)
  BY <1>1, <1>3, <1>4, MemKept
<1>6. Opened(r)
  BY <1>0, <1>1, <1>3 DEF Opened, AskedOf
<1> QED BY <1>3, <1>5, <1>6 DEF Done, Kinds

LEMMA DoorDone ==
  ASSUME TypesOK, NEW r \in Callers, Pages!AskAtTheDoor(r) PROVE Done(r)
<1>1. PICK e \in Emails :
        \/ \E l \in Logins \ loginsPast.born, p \in Passwords :
             Pages!Begin(r, "register", "find", [Pages!Blank EXCEPT !.login = l, !.email = e, !.pw = p])
        \/ \E p \in Passwords : Pages!Begin(r, "login", "count", [Pages!Blank EXCEPT !.email = e, !.pw = p])
        \/ Pages!Begin(r, "resend", "mail", [Pages!Blank EXCEPT !.email = e])
        \/ Pages!Begin(r, "forgot", "mail", [Pages!Blank EXCEPT !.email = e])
  BY DEF Pages!AskAtTheDoor
<1>2. ASSUME NEW l \in Logins \ loginsPast.born, NEW p \in Passwords,
             Pages!Begin(r, "register", "find", [Pages!Blank EXCEPT !.login = l, !.email = e, !.pw = p])
      PROVE  Done(r)
  <2> DEFINE in == [Pages!Blank EXCEPT !.login = l, !.email = e, !.pw = p]
             n == Asked("register", "find", in)
  <2>1. /\ n \in Request /\ n.op = "register" /\ n.pc = "find" /\ n.login = l /\ n.login = in.login
        /\ n.email = e /\ n.pw = p /\ n.acct = None /\ n.seen = None
    BY DEF Asked, Pages!Blank, Request, Ops, Pcs
  <2>2. Pages!Begin(r, "register", "find", in) /\ n = Asked("register", "find", in)
    BY <1>2
  <2> HIDE DEF in, n
  <2>3. Begun(n) /\ Knows(n)
    BY <2>1 DEF Begun, Knows, Signed
  <2>6. AskedOf(n)
    BY <2>1 DEF AskedOf
  <2>4. "register" \in Ops /\ "find" \in Pcs
    BY DEF Ops, Pcs
  <2> QED BY <2>1, <2>2, <2>3, <2>4, <2>6, BeginDone
<1>3. ASSUME NEW p \in Passwords, Pages!Begin(r, "login", "count", [Pages!Blank EXCEPT !.email = e, !.pw = p])
      PROVE  Done(r)
  <2> DEFINE in == [Pages!Blank EXCEPT !.email = e, !.pw = p]
             n == Asked("login", "count", in)
  <2>1. /\ n \in Request /\ n.op = "login" /\ n.pc = "count" /\ n.login = in.login
        /\ n.email = e /\ n.pw = p /\ n.acct = None /\ n.seen = None
    BY DEF Asked, Pages!Blank, Request, Ops, Pcs
  <2>2. Pages!Begin(r, "login", "count", in) /\ n = Asked("login", "count", in)
    BY <1>3
  <2> HIDE DEF in, n
  <2>3. Begun(n) /\ Knows(n)
    BY <2>1 DEF Begun, Knows, Signed
  <2>6. AskedOf(n)
    BY <2>1 DEF AskedOf
  <2>4. "login" \in Ops /\ "count" \in Pcs
    BY DEF Ops, Pcs
  <2> QED BY <2>1, <2>2, <2>3, <2>4, <2>6, BeginDone
<1>4. ASSUME NEW op \in {"resend", "forgot"}, NEW place \in {"mail"}, Pages!Begin(r, op, place, [Pages!Blank EXCEPT !.email = e])
      PROVE  Done(r)
  <2> DEFINE in == [Pages!Blank EXCEPT !.email = e]
             n == Asked(op, place, in)
  <2>1. /\ n \in Request /\ n.op = op /\ n.pc = place /\ n.login = in.login
        /\ n.email = e /\ n.acct = None /\ n.seen = None
    BY DEF Asked, Pages!Blank, Request, Ops, Pcs
  <2>2. Pages!Begin(r, op, place, in) /\ n = Asked(op, place, in)
    BY <1>4
  <2> HIDE DEF in, n
  <2>3. Begun(n) /\ Knows(n)
    BY <2>1 DEF Begun, Knows, Signed
  <2>6. AskedOf(n)
    BY <2>1 DEF AskedOf
  <2>4. op \in Ops /\ place \in Pcs
    BY DEF Ops, Pcs
  <2> QED BY <2>1, <2>2, <2>3, <2>4, <2>6, BeginDone
<1> QED BY <1>1, <1>2, <1>3, <1>4

LEMMA LetterDone ==
  ASSUME TypesOK, NEW r \in Callers, Pages!AskByLetter(r) PROVE Done(r)
<1>1. PICK m \in letters :
        \/ m.kind = "verify" /\ Pages!Begin(r, "confirm", "find", [Pages!Blank EXCEPT !.token = m.token, !.email = m.to])
        \/ \E p \in Passwords :
             m.kind = "reset" /\ Pages!Begin(r, "reset", "take", [Pages!Blank EXCEPT !.token = m.token, !.email = m.to, !.pw = p])
        \/ m.kind = "change" /\ Pages!Begin(r, "move", "take", [Pages!Blank EXCEPT !.token = m.token, !.email = m.to])
  BY DEF Pages!AskByLetter
<1>m. m \in Pages!Letter /\ m.token \in Pages!Tokens /\ m.token \in Nat /\ m.to \in Emails
      /\ m = [kind |-> m.kind, to |-> m.to, token |-> m.token]
  BY DEF TypesOK, Pages!Letter, Pages!Tokens
<1>2. ASSUME NEW op \in {"confirm", "move"}, NEW place \in {"find", "take"},
             op = "confirm" => (place = "find" /\ m.kind = "verify"), op = "move" => (place = "take" /\ m.kind = "change"),
             Pages!Begin(r, op, place, [Pages!Blank EXCEPT !.token = m.token, !.email = m.to])
      PROVE  Done(r)
  <2> DEFINE in == [Pages!Blank EXCEPT !.token = m.token, !.email = m.to]
             n == Asked(op, place, in)
  <2>1. /\ n \in Request /\ n.op = op /\ n.pc = place /\ n.login = in.login
        /\ n.email = m.to /\ n.token = m.token /\ n.acct = None /\ n.seen = None
    BY <1>m DEF Asked, Pages!Blank, Request, Ops, Pcs
  <2>2. Pages!Begin(r, op, place, in) /\ n = Asked(op, place, in)
    BY <1>2
  <2> HIDE DEF in, n
  <2>3. Begun(n) /\ Knows(n)
    BY <1>2, <1>m, <2>1 DEF Begun, Knows, Signed
  <2>6. AskedOf(n)
    BY <1>2, <1>m, <2>1 DEF AskedOf
  <2>4. op \in Ops /\ place \in Pcs
    BY DEF Ops, Pcs
  <2> QED BY <2>1, <2>2, <2>3, <2>4, <2>6, BeginDone
<1>3. ASSUME NEW p \in Passwords, m.kind = "reset",
             Pages!Begin(r, "reset", "take", [Pages!Blank EXCEPT !.token = m.token, !.email = m.to, !.pw = p])
      PROVE  Done(r)
  <2> DEFINE in == [Pages!Blank EXCEPT !.token = m.token, !.email = m.to, !.pw = p]
             n == Asked("reset", "take", in)
  <2>1. /\ n \in Request /\ n.op = "reset" /\ n.pc = "take" /\ n.login = in.login
        /\ n.email = m.to /\ n.token = m.token /\ n.pw = p /\ n.acct = None /\ n.seen = None
    BY <1>m DEF Asked, Pages!Blank, Request, Ops, Pcs
  <2>2. Pages!Begin(r, "reset", "take", in) /\ n = Asked("reset", "take", in)
    BY <1>3
  <2> HIDE DEF in, n
  <2>3. Begun(n) /\ Knows(n)
    BY <1>m, <2>1 DEF Begun, Knows, Signed
  <2>6. AskedOf(n)
    BY <1>3, <1>m, <2>1 DEF AskedOf
  <2>4. "reset" \in Ops /\ "take" \in Pcs
    BY DEF Ops, Pcs
  <2> QED BY <2>1, <2>2, <2>3, <2>4, <2>6, BeginDone
<1> QED BY <1>1, <1>2, <1>3

LEMMA SignedInDone ==
  ASSUME TypesOK, NEW r \in Callers, Pages!AskSignedIn(r) PROVE Done(r)
<1>1. PICK s \in db.session :
        \/ \E old, p \in Passwords :
             Pages!Begin(r, "password", "auth", [[Pages!Blank EXCEPT !.token = s.token] EXCEPT !.old = old, !.pw = p])
        \/ \E op \in {"others", "logout"} : Pages!Begin(r, op, "auth", [Pages!Blank EXCEPT !.token = s.token])
        \/ \E op \in {"ask", "delete"}, e \in Emails :
             Pages!Begin(r, op, "auth", [[Pages!Blank EXCEPT !.token = s.token] EXCEPT !.email = e])
  BY DEF Pages!AskSignedIn
<1>s. s.token \in Nat
  BY DEF TypesOK, DbOK, SessionRow, Pages!Tokens
<1>2. ASSUME NEW old \in Passwords, NEW p \in Passwords,
             Pages!Begin(r, "password", "auth", [[Pages!Blank EXCEPT !.token = s.token] EXCEPT !.old = old, !.pw = p])
      PROVE  Done(r)
  <2> DEFINE in == [[Pages!Blank EXCEPT !.token = s.token] EXCEPT !.old = old, !.pw = p]
             n == Asked("password", "auth", in)
  <2>1. /\ n \in Request /\ n.op = "password" /\ n.pc = "auth" /\ n.login = in.login
        /\ n.pw = p /\ n.acct = None /\ n.seen = None
    BY <1>s DEF Asked, Pages!Blank, Request, Ops, Pcs, Signed
  <2>2. Pages!Begin(r, "password", "auth", in) /\ n = Asked("password", "auth", in)
    BY <1>2
  <2> HIDE DEF in, n
  <2>3. Begun(n) /\ Knows(n)
    BY <2>1 DEF Begun, Knows, Signed
  <2>6. AskedOf(n)
    BY <2>1 DEF AskedOf
  <2>4. "password" \in Ops /\ "auth" \in Pcs
    BY DEF Ops, Pcs, Signed
  <2> QED BY <2>1, <2>2, <2>3, <2>4, <2>6, BeginDone
<1>3. ASSUME NEW op \in {"others", "logout"}, NEW place \in {"auth"}, Pages!Begin(r, op, place, [Pages!Blank EXCEPT !.token = s.token])
      PROVE  Done(r)
  <2> DEFINE in == [Pages!Blank EXCEPT !.token = s.token]
             n == Asked(op, place, in)
  <2>1. /\ n \in Request /\ n.op = op /\ n.pc = place /\ n.login = in.login
        /\ n.acct = None /\ n.seen = None
    BY <1>s DEF Asked, Pages!Blank, Request, Ops, Pcs, Signed
  <2>2. Pages!Begin(r, op, place, in) /\ n = Asked(op, place, in)
    BY <1>3
  <2> HIDE DEF in, n
  <2>3. Begun(n) /\ Knows(n)
    BY <2>1 DEF Begun, Knows, Signed
  <2>6. AskedOf(n)
    BY <2>1 DEF AskedOf
  <2>4. op \in Ops /\ place \in Pcs
    BY DEF Ops, Pcs, Signed
  <2> QED BY <2>1, <2>2, <2>3, <2>4, <2>6, BeginDone
<1>4. ASSUME NEW op \in {"ask", "delete"}, NEW place \in {"auth"}, NEW e \in Emails,
             Pages!Begin(r, op, place, [[Pages!Blank EXCEPT !.token = s.token] EXCEPT !.email = e])
      PROVE  Done(r)
  <2> DEFINE in == [[Pages!Blank EXCEPT !.token = s.token] EXCEPT !.email = e]
             n == Asked(op, place, in)
  <2>1. /\ n \in Request /\ n.op = op /\ n.pc = place /\ n.login = in.login
        /\ n.email = e /\ n.acct = None /\ n.seen = None
    BY <1>s DEF Asked, Pages!Blank, Request, Ops, Pcs, Signed
  <2>2. Pages!Begin(r, op, place, in) /\ n = Asked(op, place, in)
    BY <1>4
  <2> HIDE DEF in, n
  <2>3. Begun(n) /\ Knows(n)
    BY <2>1 DEF Begun, Knows, Signed
  <2>6. AskedOf(n)
    BY <2>1 DEF AskedOf
  <2>4. op \in Ops /\ place \in Pcs
    BY DEF Ops, Pcs, Signed
  <2> QED BY <2>1, <2>2, <2>3, <2>4, <2>6, BeginDone
<1> QED BY <1>1, <1>2, <1>3, <1>4


LEMMA StepDone ==
  ASSUME TypesOK, ClaimsOK, LettersOK, Pages!Next
  PROVE  (\E r \in Callers : Done(r)) \/ (\E e \in Emails : Pages!Forget(e))
<1>1. ASSUME NEW r \in Callers, Pages!Handle(r) PROVE Done(r)
  BY <1>1, registerUserDone, sendVerificationDone, resendVerificationDone, confirmEmailDone, loginUserDone,
     userAuthDone, signOutOthersDone, logoutUserDone, changeMyPasswordDone, forgotPasswordDone,
     resetPasswordDone, askToChangeEmailDone, confirmEmailChangeDone, deleteMeDone DEF Pages!Handle
<1> QED BY <1>1, DoorDone, LetterDone, SignedInDone, BreakOffDone DEF Pages!Next

-----------------------------------------------------------------------------
(* Accounts: what each kind of step leaves of the tables and the history.    *)

(* Everything of the tables but the named part.                              *)
SameRows == db'.row = db.row
SameLinks == db'.reset = db.reset /\ db'.change = db.change
SameHistory ==
  /\ loginsPast'.twice = loginsPast.twice /\ loginsPast'.used = loginsPast.used /\ loginsPast'.born = loginsPast.born
SameProofs == loginsPast'.gen = loginsPast.gen /\ loginsPast'.had = loginsPast.had /\ loginsPast'.proved = loginsPast.proved
Typed == DbOK(db') /\ PastOK(loginsPast') /\ letters' \subseteq Pages!Letter

LEMMA QuietIs ==
  ASSUME TypesOK, NEW r \in Callers, Quiet(r)
  PROVE  /\ Typed /\ UNCHANGED <<db, letters>> /\ SameHistory /\ SameProofs
         /\ loginsPast'.minted = loginsPast.minted /\ loginsPast'.stale = loginsPast.stale
         /\ (loginsPast'.broken = loginsPast.broken /\ Stays(req[r], req'[r])) \/ loginsPast'.broken # 0
<1>1. PastOK(loginsPast) /\ DbOK(db) /\ letters \subseteq Pages!Letter
  BY DEF TypesOK
<1>2. CASE loginsPast' = loginsPast /\ Stays(req[r], req'[r])
  BY <1>1, <1>2 DEF Quiet, Typed, SameHistory, SameProofs
<1>3. CASE loginsPast' = [loginsPast EXCEPT !.broken = @ + 1]
  BY <1>1, <1>3 DEF Quiet, Typed, SameHistory, SameProofs, PastOK
<1> QED BY <1>2, <1>3 DEF Quiet

LEMMA PeopledIs ==
  ASSUME TypesOK, NEW r \in Callers, Peopled(r)
  PROVE  /\ Typed /\ SameRows /\ SameLinks /\ db'.session = db.session /\ UNCHANGED <<letters, loginsPast>>
<1>1. PastOK(loginsPast) /\ DbOK(db) /\ letters \subseteq Pages!Letter /\ db'.person \subseteq Logins
  BY DEF TypesOK, DbOK, Peopled
<1>2. db' = [db EXCEPT !.person = db'.person]
  BY DEF Peopled
<1>3. DbOK(db') /\ SameRows /\ SameLinks /\ db'.session = db.session
  BY <1>1, <1>2 DEF DbOK, SameRows, SameLinks
<1> QED BY <1>1, <1>3 DEF Peopled, Typed

LEMMA EndedIs ==
  ASSUME TypesOK, NEW r \in Callers, Ended(r)
  PROVE  /\ Typed /\ SameRows /\ SameLinks /\ db'.person = db.person /\ UNCHANGED <<letters, loginsPast>>
<1>1. PastOK(loginsPast) /\ DbOK(db) /\ letters \subseteq Pages!Letter /\ db'.session \subseteq SessionRow
  BY DEF TypesOK, Ended
<1>2. db' = [db EXCEPT !.session = db'.session]
  BY DEF Ended
<1>3. DbOK(db') /\ SameRows /\ SameLinks /\ db'.person = db.person
  BY <1>1, <1>2 DEF DbOK, SameRows, SameLinks
<1> QED BY <1>1, <1>3 DEF Ended, Typed

LEMMA StartedIs ==
  ASSUME TypesOK, NEW r \in Callers, Started(r)
  PROVE  /\ Typed /\ SameRows /\ SameLinks /\ db'.person = db.person /\ letters' = letters
         /\ db'.session = db.session \cup {[token |-> Pages!Mint, login |-> req[r].login, gen |-> req[r].gen]}
         /\ SameHistory /\ SameProofs /\ loginsPast'.minted = Pages!Mint /\ loginsPast'.broken = loginsPast.broken
         /\ loginsPast'.stale = (loginsPast.stale \/ Pages!Overtaken(r))
<1> DEFINE s == [token |-> Pages!Mint, login |-> req[r].login, gen |-> req[r].gen]
<1>1. PastOK(loginsPast) /\ DbOK(db) /\ letters \subseteq Pages!Letter
  BY DEF TypesOK
<1>2. req[r] # Pages!Idle
  BY IdleIs DEF Started
<1>3. req[r].login \in Logins /\ req[r].gen \in Nat
  BY <1>2, ActiveIs DEF Started, Knows, Begun, Reads, Signed, Request
<1>4. s \in SessionRow
  BY <1>3, MintIs DEF SessionRow
<1>5. db' = [db EXCEPT !.session = db.session \cup {s}]
  BY DEF Started
<1> HIDE DEF s
<1>6. DbOK(db') /\ SameRows /\ SameLinks /\ db'.person = db.person /\ db'.session = db.session \cup {s}
  BY <1>1, <1>4, <1>5 DEF DbOK, SameRows, SameLinks
<1>7. loginsPast' = [loginsPast EXCEPT !.minted = Pages!Mint, !.stale = @ \/ Pages!Overtaken(r)]
  BY DEF Started
<1>8. (loginsPast.stale \/ Pages!Overtaken(r)) \in BOOLEAN
  OBVIOUS
<1>9. /\ PastOK(loginsPast') /\ SameHistory /\ SameProofs /\ loginsPast'.minted = Pages!Mint /\ loginsPast'.broken = loginsPast.broken
      /\ loginsPast'.stale = (loginsPast.stale \/ Pages!Overtaken(r))
  BY <1>1, <1>7, <1>8, MintIs DEF PastOK, SameHistory, SameProofs
<1> QED BY <1>1, <1>6, <1>9 DEF Started, Typed, s

LEMMA SavedIs ==
  ASSUME TypesOK, ClaimsOK, NEW r \in Callers, NEW new \in Pages!Row, Saved(r, new)
  PROVE  LET l == req[r].login  q == req[r] IN
         /\ Typed /\ SameLinks /\ db'.person = db.person /\ db'.session = db.session /\ letters' = letters
         /\ db'.row[l] = new /\ (\A m \in Logins \ {l} : db'.row[m] = db.row[m])
         /\ SameHistory /\ loginsPast'.broken = loginsPast.broken
         /\ loginsPast'.stale = (loginsPast.stale \/ Pages!Overtaken(r)) /\ loginsPast'.had = loginsPast.had \cup {l}
         /\ loginsPast'.gen[l] = IF q.op \in {"register", "reset", "password"} THEN loginsPast.gen[l] + 1 ELSE loginsPast.gen[l]
         /\ loginsPast'.proved[l] = IF q.op \in {"confirm", "reset", "move"} THEN loginsPast.proved[l] \cup {q.email}
                              ELSE loginsPast.proved[l]
         /\ \A m \in Logins \ {l} : loginsPast'.gen[m] = loginsPast.gen[m] /\ loginsPast'.proved[m] = loginsPast.proved[m]
         /\ loginsPast'.minted = IF new.token = Pages!Mint THEN Pages!Mint ELSE loginsPast.minted
<1> DEFINE l == req[r].login  q == req[r]
           gen == IF q.op \in {"register", "reset", "password"} THEN loginsPast.gen[l] + 1 ELSE loginsPast.gen[l]
           con == IF q.op = "confirm" THEN loginsPast.confirmed[l] + 1 ELSE loginsPast.confirmed[l]
           pro == IF q.op \in {"confirm", "reset", "move"} THEN loginsPast.proved[l] \cup {q.email} ELSE loginsPast.proved[l]
           min == IF new.token > loginsPast.minted THEN new.token ELSE loginsPast.minted
<1>1. PastOK(loginsPast) /\ DbOK(db) /\ letters \subseteq Pages!Letter /\ l \in Logins
  BY DEF TypesOK, Saved
<1>2. db' = [db EXCEPT !.row = [db.row EXCEPT ![l] = new]]
  BY DEF Saved
<1>3. [db.row EXCEPT ![l] = new] \in [Logins -> Pages!Row \cup {None}]
  BY <1>1 DEF DbOK
<1>4. /\ DbOK(db') /\ SameLinks /\ db'.person = db.person /\ db'.session = db.session
      /\ db'.row[l] = new /\ (\A m \in Logins \ {l} : db'.row[m] = db.row[m])
  <2> HIDE DEF l
  <2> QED BY <1>1, <1>2, <1>3 DEF DbOK, SameLinks
<1>5. gen \in Nat /\ con \in Nat
  BY <1>1 DEF PastOK
<1>6. pro \in SUBSET Emails
  <2>1. q.op \in {"confirm", "reset", "move"} => q.email \in Emails
    BY ActiveIs DEF Saved, Knows
  <2> QED BY <1>1, <2>1 DEF PastOK
<1>7. min \in Pages!Tokens /\ min = IF new.token = Pages!Mint THEN Pages!Mint ELSE loginsPast.minted
  <2>1. new.token \in Nat /\ loginsPast.minted \in Nat \ {0} /\ Pages!Mint = loginsPast.minted + 1
    BY <1>1 DEF Pages!Row, PastOK, Pages!Tokens, Pages!Mint
  <2>2. ASSUME q.acct # None, new.token = q.acct.token, new.email = q.acct.email, new.token # 0
        PROVE  new.token <= loginsPast.minted
    <3>1. Holds(r) /\ new.token \in Pages!Tokens /\ new.email \in Emails
      BY <2>1, <2>2 DEF Holds, Saved, Pages!Row, Pages!Tokens
    <3>2. Claims(new.token, new.email)
      BY <2>2, <3>1 DEF Claims
    <3> QED BY <3>1, <3>2 DEF ClaimsOK
  <2>3. new.token \in {0, Pages!Mint} \/ new.token <= loginsPast.minted
    BY <2>2 DEF Saved
  <2> QED BY <2>1, <2>3 DEF Pages!Tokens
<1> HIDE DEF gen, con, pro, min
<1>8. loginsPast' = [loginsPast EXCEPT !.stale = loginsPast.stale \/ Pages!Overtaken(r), !.had = loginsPast.had \cup {l},
                 !.gen = [loginsPast.gen EXCEPT ![l] = gen], !.confirmed = [loginsPast.confirmed EXCEPT ![l] = con],
                 !.minted = min, !.proved = [loginsPast.proved EXCEPT ![l] = pro]]
  BY DEF Saved, gen, con, pro, min
<1> HIDE DEF l, q
<1>9. /\ [loginsPast.gen EXCEPT ![l] = gen] \in [Logins -> Nat] /\ [loginsPast.confirmed EXCEPT ![l] = con] \in [Logins -> Nat]
      /\ [loginsPast.proved EXCEPT ![l] = pro] \in [Logins -> SUBSET Emails] /\ loginsPast.had \cup {l} \in SUBSET Logins
  BY <1>1, <1>5, <1>6 DEF PastOK
<1>10. (loginsPast.stale \/ Pages!Overtaken(r)) \in BOOLEAN
  OBVIOUS
<1>11. PastOK(loginsPast')
  BY <1>1, <1>7, <1>8, <1>9, <1>10 DEF PastOK
<1>12. /\ SameHistory /\ loginsPast'.broken = loginsPast.broken
       /\ loginsPast'.stale = (loginsPast.stale \/ Pages!Overtaken(r)) /\ loginsPast'.had = loginsPast.had \cup {l} /\ loginsPast'.minted = min
       /\ loginsPast'.gen = [loginsPast.gen EXCEPT ![l] = gen] /\ loginsPast'.proved = [loginsPast.proved EXCEPT ![l] = pro]
  BY <1>1, <1>8 DEF PastOK, SameHistory
<1>13. loginsPast'.gen[l] = gen /\ loginsPast'.proved[l] = pro
       /\ \A m \in Logins \ {l} : loginsPast'.gen[m] = loginsPast.gen[m] /\ loginsPast'.proved[m] = loginsPast.proved[m]
  BY <1>1, <1>12 DEF PastOK
<1>14. letters' = letters
  BY DEF Saved
<1> QED BY <1>1, <1>4, <1>7, <1>11, <1>12, <1>13, <1>14 DEF Typed, l, q, gen, pro


LEMMA ResetMadeIs ==
  ASSUME TypesOK, NEW r \in Callers, ResetMade(r)
  PROVE  LET l == req[r].login IN
         /\ Typed /\ SameRows /\ db'.change = db.change /\ db'.person = db.person /\ db'.session = db.session
         /\ db'.reset[l] = Pages!Mint /\ (\A m \in Logins \ {l} : db'.reset[m] = db.reset[m])
         /\ letters' = letters /\ SameHistory /\ SameProofs /\ loginsPast'.minted = Pages!Mint
         /\ loginsPast'.broken = loginsPast.broken /\ loginsPast'.stale = loginsPast.stale
<1> DEFINE l == req[r].login
<1>1. PastOK(loginsPast) /\ DbOK(db) /\ letters \subseteq Pages!Letter /\ l \in Logins /\ Pages!Mint \in Pages!Tokens /\ Pages!Mint \in Nat
  BY MintIs DEF TypesOK, ResetMade, Pages!Tokens
<1>2. db' = [db EXCEPT !.reset = [db.reset EXCEPT ![l] = Pages!Mint]] /\ letters' = letters
  BY DEF ResetMade
<1>p. loginsPast' = [loginsPast EXCEPT !.minted = Pages!Mint]
  BY DEF ResetMade
<1> HIDE DEF l
<1>3. [db.reset EXCEPT ![l] = Pages!Mint] \in [Logins -> Nat]
  BY <1>1 DEF DbOK
<1>4. /\ DbOK(db') /\ SameRows /\ db'.change = db.change /\ db'.person = db.person /\ db'.session = db.session
      /\ db'.reset[l] = Pages!Mint /\ (\A m \in Logins \ {l} : db'.reset[m] = db.reset[m])
  BY <1>1, <1>2, <1>3 DEF DbOK, SameRows
<1>5. /\ PastOK(loginsPast') /\ SameHistory /\ SameProofs /\ loginsPast'.minted = Pages!Mint
      /\ loginsPast'.broken = loginsPast.broken /\ loginsPast'.stale = loginsPast.stale
  BY <1>1, <1>p DEF PastOK, SameHistory, SameProofs
<1> QED BY <1>1, <1>2, <1>4, <1>5 DEF Typed, l

LEMMA ChangeMadeIs ==
  ASSUME TypesOK, NEW r \in Callers, ChangeMade(r)
  PROVE  LET l == req[r].login IN
         /\ Typed /\ SameRows /\ db'.reset = db.reset /\ db'.person = db.person /\ db'.session = db.session
         /\ db'.change[l] = [token |-> Pages!Mint, email |-> req[r].email]
         /\ \A m \in Logins \ {l} : db'.change[m] = db.change[m]
         /\ letters' = letters /\ SameHistory /\ SameProofs /\ loginsPast'.minted = Pages!Mint
         /\ loginsPast'.broken = loginsPast.broken /\ loginsPast'.stale = loginsPast.stale
<1> DEFINE l == req[r].login
           c == [token |-> Pages!Mint, email |-> req[r].email]
<1>1. PastOK(loginsPast) /\ DbOK(db) /\ letters \subseteq Pages!Letter /\ l \in Logins /\ Pages!Mint \in Pages!Tokens /\ req[r].email \in Emails
  BY MintIs DEF TypesOK, ChangeMade, Pages!Tokens
<1>2. db' = [db EXCEPT !.change = [db.change EXCEPT ![l] = c]] /\ letters' = letters
  BY DEF ChangeMade
<1>p. loginsPast' = [loginsPast EXCEPT !.minted = Pages!Mint]
  BY DEF ChangeMade
<1>c. c \in Link
  BY <1>1 DEF Link
<1> HIDE DEF l, c
<1>3. [db.change EXCEPT ![l] = c] \in [Logins -> Link]
  BY <1>1, <1>c DEF DbOK
<1>4. /\ DbOK(db') /\ SameRows /\ db'.reset = db.reset /\ db'.person = db.person /\ db'.session = db.session
      /\ db'.change[l] = c /\ (\A m \in Logins \ {l} : db'.change[m] = db.change[m])
  BY <1>1, <1>2, <1>3 DEF DbOK, SameRows
<1>5. /\ PastOK(loginsPast') /\ SameHistory /\ SameProofs /\ loginsPast'.minted = Pages!Mint
      /\ loginsPast'.broken = loginsPast.broken /\ loginsPast'.stale = loginsPast.stale
  BY <1>1, <1>p DEF PastOK, SameHistory, SameProofs
<1> QED BY <1>1, <1>2, <1>4, <1>5 DEF Typed, l, c

LEMMA TookIs ==
  ASSUME TypesOK, NEW r \in Callers, NEW fits, Took(r, fits), req[r] # Pages!Idle, req[r].op \in {"reset", "move"}
  PROVE  /\ PastOK(loginsPast') /\ SameProofs /\ loginsPast'.born = loginsPast.born /\ loginsPast'.minted = loginsPast.minted
         /\ loginsPast'.broken = loginsPast.broken /\ loginsPast'.stale = loginsPast.stale
         /\ \/ req'[r] = Pages!Idle /\ loginsPast'.used = loginsPast.used /\ loginsPast'.twice = loginsPast.twice
            \/ /\ loginsPast'.used = loginsPast.used \cup {req[r].token} /\ loginsPast'.twice = (loginsPast.twice \/ req[r].token \in loginsPast.used)
               /\ req'[r] \in Request /\ req'[r].op = req[r].op /\ req'[r].pc = "account" /\ req'[r].login \in fits
               /\ req'[r].email = req[r].email /\ req'[r].token = req[r].token /\ req'[r].acct = None
<1>1. PastOK(loginsPast) /\ req[r].token \in Pages!Tokens
  BY ActiveIs DEF TypesOK, Knows
<1>2. CASE req'[r] = Pages!Idle /\ loginsPast' = loginsPast
  BY <1>1, <1>2 DEF SameProofs
<1>3. CASE loginsPast' = [loginsPast EXCEPT !.used = @ \cup {req[r].token}, !.twice = @ \/ req[r].token \in loginsPast.used]
  <2> DEFINE tw == loginsPast.twice \/ req[r].token \in loginsPast.used
             us == loginsPast.used \cup {req[r].token}
  <2>1. tw \in BOOLEAN /\ us \in SUBSET Pages!Tokens
    BY <1>1 DEF PastOK
  <2>2. loginsPast' = [loginsPast EXCEPT !.used = us, !.twice = tw]
    BY <1>3
  <2> HIDE DEF tw, us
  <2>3. /\ PastOK(loginsPast') /\ SameProofs /\ loginsPast'.born = loginsPast.born /\ loginsPast'.minted = loginsPast.minted
        /\ loginsPast'.broken = loginsPast.broken /\ loginsPast'.stale = loginsPast.stale
        /\ loginsPast'.used = us /\ loginsPast'.twice = tw
    BY <1>1, <2>1, <2>2 DEF PastOK, SameProofs
  <2>4. \/ req'[r] = Pages!Idle /\ loginsPast' = loginsPast
        \/ /\ req'[r] \in Request /\ req'[r].op = req[r].op /\ req'[r].pc = "account" /\ req'[r].login \in fits
           /\ req'[r].email = req[r].email /\ req'[r].token = req[r].token /\ req'[r].acct = None
    BY DEF Took
  <2> QED BY <1>2, <2>3, <2>4 DEF tw, us
<1> QED BY <1>2, <1>3 DEF Took

LEMMA ResetTakenIs ==
  ASSUME TypesOK, NEW r \in Callers, ResetTaken(r)
  PROVE  /\ Typed /\ SameRows /\ db'.change = db.change /\ db'.person = db.person /\ db'.session = db.session
         /\ \A l \in Logins : db'.reset[l] = IF db.reset[l] = req[r].token THEN 0 ELSE db.reset[l]
         /\ letters' = letters /\ req[r] # Pages!Idle /\ req[r].op = "reset" /\ req[r].pc = "take"
         /\ Took(r, {l \in Logins : db.reset[l] = req[r].token})
<1>1. PastOK(loginsPast) /\ DbOK(db) /\ letters \subseteq Pages!Letter /\ req[r] # Pages!Idle
  BY IdleIs DEF TypesOK, ResetTaken
<1> DEFINE f == [l \in Logins |-> IF db.reset[l] = req[r].token THEN 0 ELSE db.reset[l]]
<1>2. db' = [db EXCEPT !.reset = f] /\ letters' = letters
  BY DEF ResetTaken
<1>3. f \in [Logins -> Nat] /\ \A l \in Logins : f[l] = IF db.reset[l] = req[r].token THEN 0 ELSE db.reset[l]
  BY <1>1 DEF DbOK
<1> HIDE DEF f
<1>4. /\ DbOK(db') /\ SameRows /\ db'.change = db.change /\ db'.person = db.person /\ db'.session = db.session
      /\ db'.reset = f
  BY <1>1, <1>2, <1>3 DEF DbOK, SameRows
<1>5. PastOK(loginsPast')
  BY <1>1, TookIs DEF ResetTaken
<1> QED BY <1>1, <1>2, <1>3, <1>4, <1>5 DEF Typed, ResetTaken

LEMMA ChangeTakenIs ==
  ASSUME TypesOK, NEW r \in Callers, ChangeTaken(r)
  PROVE  /\ Typed /\ SameRows /\ db'.reset = db.reset /\ db'.person = db.person /\ db'.session = db.session
         /\ \A l \in Logins : db'.change[l] = IF db.change[l].token = req[r].token THEN [token |-> 0] ELSE db.change[l]
         /\ letters' = letters /\ req[r] # Pages!Idle /\ req[r].op = "move" /\ req[r].pc = "take"
         /\ Took(r, {l \in Logins : db.change[l].token = req[r].token})
<1>1. PastOK(loginsPast) /\ DbOK(db) /\ letters \subseteq Pages!Letter /\ req[r] # Pages!Idle
  BY IdleIs DEF TypesOK, ChangeTaken
<1> DEFINE f == [l \in Logins |-> IF db.change[l].token = req[r].token THEN [token |-> 0] ELSE db.change[l]]
<1>2. db' = [db EXCEPT !.change = f] /\ letters' = letters
  BY DEF ChangeTaken
<1>3. f \in [Logins -> Link] /\ \A l \in Logins : f[l] = IF db.change[l].token = req[r].token THEN [token |-> 0] ELSE db.change[l]
  BY <1>1 DEF DbOK, Link
<1> HIDE DEF f
<1>4. /\ DbOK(db') /\ SameRows /\ db'.reset = db.reset /\ db'.person = db.person /\ db'.session = db.session
      /\ db'.change = f
  BY <1>1, <1>2, <1>3 DEF DbOK, SameRows
<1>5. PastOK(loginsPast')
  BY <1>1, TookIs DEF ChangeTaken
<1> QED BY <1>1, <1>2, <1>3, <1>4, <1>5 DEF Typed, ChangeTaken

LEMMA GoneIs ==
  ASSUME TypesOK, NEW r \in Callers, Gone(r)
  PROVE  LET l == req[r].login IN
         /\ Typed /\ db'.person = db.person /\ l \in Logins
         /\ db'.row[l] = None /\ db'.reset[l] = 0 /\ db'.change[l] = [token |-> 0]
         /\ db'.session = {s \in db.session : s.login # l}
         /\ \A m \in Logins \ {l} : db'.row[m] = db.row[m] /\ db'.reset[m] = db.reset[m] /\ db'.change[m] = db.change[m]
         /\ letters' = letters /\ SameHistory /\ SameProofs
         /\ loginsPast'.minted = loginsPast.minted /\ loginsPast'.broken = loginsPast.broken /\ loginsPast'.stale = loginsPast.stale
<1> DEFINE l == req[r].login
<1>1. PastOK(loginsPast) /\ DbOK(db) /\ letters \subseteq Pages!Letter /\ l \in Logins
  BY DEF TypesOK, Gone
<1>2. /\ db' = [db EXCEPT !.row = [db.row EXCEPT ![l] = None], !.session = {s \in db.session : s.login # l},
                          !.reset = [db.reset EXCEPT ![l] = 0], !.change = [db.change EXCEPT ![l] = [token |-> 0]]]
      /\ letters' = letters
  BY DEF Gone
<1>p. loginsPast' = [loginsPast EXCEPT !.deleted = loginsPast.deleted \cup {l}]
  BY DEF Gone
<1> HIDE DEF l
<1>3. /\ [db.row EXCEPT ![l] = None] \in [Logins -> Pages!Row \cup {None}]
      /\ [db.reset EXCEPT ![l] = 0] \in [Logins -> Nat]
      /\ {s \in db.session : s.login # l} \subseteq SessionRow
  BY <1>1 DEF DbOK
<1>4. [db.change EXCEPT ![l] = [token |-> 0]] \in [Logins -> Link]
  <2>1. [token |-> 0] \in Link /\ db.change \in [Logins -> Link]
    BY <1>1 DEF DbOK, Link
  <2> QED BY <2>1
<1>5. /\ DbOK(db') /\ db'.person = db.person
      /\ db'.row = [db.row EXCEPT ![l] = None] /\ db'.session = {s \in db.session : s.login # l}
      /\ db'.reset = [db.reset EXCEPT ![l] = 0] /\ db'.change = [db.change EXCEPT ![l] = [token |-> 0]]
  BY <1>1, <1>2, <1>3, <1>4 DEF DbOK
<1>6. /\ db'.row[l] = None /\ db'.reset[l] = 0 /\ db'.change[l] = [token |-> 0]
      /\ \A m \in Logins \ {l} : db'.row[m] = db.row[m] /\ db'.reset[m] = db.reset[m] /\ db'.change[m] = db.change[m]
  BY <1>1, <1>5 DEF DbOK
<1>7. /\ PastOK(loginsPast') /\ SameHistory /\ SameProofs
      /\ loginsPast'.minted = loginsPast.minted /\ loginsPast'.broken = loginsPast.broken /\ loginsPast'.stale = loginsPast.stale
  BY <1>1, <1>p DEF PastOK, SameHistory, SameProofs
<1> QED BY <1>1, <1>2, <1>5, <1>6, <1>7 DEF Typed, l

LEMMA OpenedIs ==
  ASSUME TypesOK, NEW r \in Callers, Opened(r), ReqOK(req'[r])
  PROVE  /\ Typed /\ UNCHANGED <<db, letters>> /\ SameProofs
         /\ loginsPast'.twice = loginsPast.twice /\ loginsPast'.used = loginsPast.used
         /\ loginsPast'.born = (IF req'[r].op = "register" THEN loginsPast.born \cup {req'[r].login} ELSE loginsPast.born)
         /\ loginsPast'.minted = loginsPast.minted /\ loginsPast'.broken = loginsPast.broken /\ loginsPast'.stale = loginsPast.stale
<1> DEFINE b == IF req'[r].op = "register" THEN loginsPast.born \cup {req'[r].login} ELSE loginsPast.born
<1>1. PastOK(loginsPast) /\ DbOK(db) /\ letters \subseteq Pages!Letter
  BY DEF TypesOK
<1>2. b \in SUBSET Logins
  BY <1>1 DEF Opened, PastOK
<1> DEFINE a == loginsPast.asked + 1
<1>3. loginsPast' = [loginsPast EXCEPT !.asked = a, !.born = b]
  BY DEF Opened
<1>a. a \in Nat
  BY <1>1 DEF PastOK
<1> HIDE DEF a, b
<1>5. PastOK(loginsPast')
  BY <1>1, <1>2, <1>3, <1>a DEF PastOK
<1>4. /\ SameProofs /\ loginsPast'.twice = loginsPast.twice /\ loginsPast'.used = loginsPast.used /\ loginsPast'.born = b
      /\ loginsPast'.minted = loginsPast.minted /\ loginsPast'.broken = loginsPast.broken /\ loginsPast'.stale = loginsPast.stale
  BY <1>1, <1>2, <1>3 DEF PastOK, SameProofs
<1> QED BY <1>1, <1>4, <1>5 DEF Opened, Typed, b

LEMMA SentIs ==
  ASSUME TypesOK, NEW r \in Callers, NEW m \in Pages!Letter, Sent(r, m)
  PROVE  Typed /\ UNCHANGED <<db, loginsPast>>
BY DEF TypesOK, Sent, Typed


LEMMA DoneTypes ==
  ASSUME TypesOK, ClaimsOK, NEW r \in Callers, Done(r) PROVE Typed
<1>1. ASSUME Opened(r) PROVE Typed
  BY <1>1, OpenedIs DEF Done
<1>2. ASSUME NEW new \in Pages!Row, Saved(r, new) PROVE Typed
  BY <1>2, SavedIs
<1>3. ASSUME NEW m \in Pages!Letter, Sent(r, m) PROVE Typed
  BY <1>3, SentIs
<1>4. Kinds(r)
  BY DEF Done
<1> QED BY <1>1, <1>2, <1>3, <1>4, QuietIs, PeopledIs, EndedIs, StartedIs, ResetMadeIs, ChangeMadeIs,
           ResetTakenIs, ChangeTakenIs, GoneIs DEF Kinds

LEMMA TypesKept ==
  ASSUME TypesOK, ClaimsOK, NEW r \in Callers, Done(r) PROVE TypesOK'
<1>1. Typed /\ Only(r, req'[r]) /\ ReqOK(req'[r]) /\ MemOK(mem')
  BY DoneTypes DEF Done
<1>2. \A s \in Callers : ReqOK(req'[s])
  BY <1>1 DEF Only, TypesOK
<1> QED BY <1>1, <1>2 DEF TypesOK, Typed, Only

-----------------------------------------------------------------------------
(* Accounts: a link's token is new when it is made, of one kind, and gone    *)
(* when used.                                                                *)

LEMMA LinksKept ==
  ASSUME TypesOK, ClaimsOK, LinksOK, NEW r \in Callers, Done(r) PROVE LinksOK'
<1> DEFINE Reset(l) == db.reset[l] \in (0 .. loginsPast.minted) \ loginsPast.used
           Change(l) == db.change[l].token \in (0 .. loginsPast.minted) \ loginsPast.used
<1>0. /\ loginsPast.minted \in Nat \ {0} /\ loginsPast.used \subseteq 1 .. loginsPast.minted /\ ~loginsPast.twice /\ Pages!Mint = loginsPast.minted + 1
      /\ 0 \notin loginsPast.used /\ Pages!Mint \notin loginsPast.used /\ Pages!Mint # 0
      /\ \A l \in Logins : db.reset[l] \in Nat /\ db.change[l].token \in Nat
  <2>1. PastOK(loginsPast) /\ DbOK(db)
    BY DEF TypesOK
  <2> QED BY <2>1 DEF PastOK, DbOK, Link, Pages!Tokens, LinksOK, Pages!Mint
<1>m. \A l \in Logins : db.reset[l] <= loginsPast.minted /\ db.reset[l] \notin loginsPast.used
                        /\ db.change[l].token <= loginsPast.minted /\ db.change[l].token \notin loginsPast.used
  BY <1>0 DEF LinksOK
<1>1. ASSUME SameLinks, loginsPast'.used = loginsPast.used, loginsPast'.twice = loginsPast.twice, loginsPast'.minted \in {loginsPast.minted, Pages!Mint}
      PROVE  LinksOK'
  BY <1>0, <1>m, <1>1 DEF LinksOK, SameLinks
<1>2. ASSUME Quiet(r) \/ Peopled(r) \/ Ended(r) \/ Started(r) \/ Opened(r) PROVE LinksOK'
  BY <1>1, <1>2, QuietIs, PeopledIs, EndedIs, StartedIs, OpenedIs DEF SameLinks, SameHistory, Done
<1>3. ASSUME NEW new \in Pages!Row, Saved(r, new) PROVE LinksOK'
  BY <1>1, <1>3, SavedIs DEF SameHistory
<1>4. ASSUME NEW m \in Pages!Letter, Sent(r, m) PROVE LinksOK'
  BY <1>1, <1>4, SentIs DEF SameLinks
<1>5. ASSUME ResetMade(r) PROVE LinksOK'
  BY <1>0, <1>m, <1>5, ResetMadeIs DEF LinksOK, SameHistory
<1>6. ASSUME ChangeMade(r) PROVE LinksOK'
  <2>0. /\ \A l \in Logins : db'.change[l] \in {[token |-> Pages!Mint, email |-> req[r].email], db.change[l]}
    BY <1>6, ChangeMadeIs
  <2>1. \A l \in Logins : db'.change[l].token \in {Pages!Mint, db.change[l].token}
    BY <2>0
  <2>2. /\ db'.reset = db.reset /\ loginsPast'.used = loginsPast.used /\ loginsPast'.twice = loginsPast.twice /\ loginsPast'.minted = Pages!Mint
    BY <1>6, ChangeMadeIs DEF SameHistory
  <2> QED BY <1>0, <1>m, <2>1, <2>2 DEF LinksOK
<1>7. ASSUME ResetTaken(r) PROVE LinksOK'
  <2>1. /\ db'.change = db.change /\ req[r].token \in Nat
        /\ \A l \in Logins : db'.reset[l] = IF db.reset[l] = req[r].token THEN 0 ELSE db.reset[l]
    BY <1>7, ResetTakenIs, ActiveIs DEF Request
  <2>2. /\ loginsPast'.minted = loginsPast.minted
        /\ \/ loginsPast'.used = loginsPast.used /\ loginsPast'.twice = loginsPast.twice
           \/ /\ loginsPast'.used = loginsPast.used \cup {req[r].token} /\ loginsPast'.twice = (loginsPast.twice \/ req[r].token \in loginsPast.used)
              /\ req'[r].login \in {l \in Logins : db.reset[l] = req[r].token}
    BY <1>7, ResetTakenIs, TookIs
  <2>3. req[r].token \in Pages!Tokens
    BY <1>7, ResetTakenIs, ActiveIs DEF Knows
  <2>4. CASE loginsPast'.used = loginsPast.used /\ loginsPast'.twice = loginsPast.twice
    BY <1>0, <1>m, <2>1, <2>2, <2>4 DEF LinksOK
  <2>5. ASSUME NEW l \in Logins, db.reset[l] = req[r].token, loginsPast'.used = loginsPast.used \cup {req[r].token},
               loginsPast'.twice = (loginsPast.twice \/ req[r].token \in loginsPast.used)
        PROVE  LinksOK'
    <3>0. req[r].token \notin loginsPast.used /\ req[r].token \in 1 .. loginsPast.minted
      BY <1>0, <1>m, <2>3, <2>5 DEF Pages!Tokens
    <3>t. ~loginsPast'.twice
      BY <1>0, <2>5, <3>0
    <3>1. loginsPast'.used \subseteq 1 .. loginsPast'.minted
      BY <1>0, <2>2, <2>5, <3>0
    <3>2. \A m \in Logins : db'.reset[m] \in (0 .. loginsPast'.minted) \ loginsPast'.used
      BY <1>0, <1>m, <2>1, <2>2, <2>3, <2>5 DEF Pages!Tokens
    <3>3. \A m \in Logins : db.change[m].token # req[r].token
      BY <2>3, <2>5 DEF LinksOK, Pages!Tokens
    <3>4. \A m \in Logins : db'.change[m].token \in (0 .. loginsPast'.minted) \ loginsPast'.used
      BY <1>0, <1>m, <2>1, <2>2, <2>5, <3>3
    <3>5. \A k, m \in Logins : db'.reset[k] # 0 => db'.reset[k] # db'.change[m].token
      BY <2>1 DEF LinksOK
    <3> QED BY <3>t, <3>1, <3>2, <3>4, <3>5 DEF LinksOK
  <2> QED BY <2>2, <2>4, <2>5
<1>8. ASSUME ChangeTaken(r) PROVE LinksOK'
  <2>0. \A l \in Logins : db'.change[l] = IF db.change[l].token = req[r].token THEN [token |-> 0] ELSE db.change[l]
    BY <1>8, ChangeTakenIs
  <2>t. \A l \in Logins : db'.change[l].token = IF db.change[l].token = req[r].token THEN 0 ELSE db.change[l].token
    BY <2>0
  <2>r. db'.reset = db.reset
    BY <1>8, ChangeTakenIs
  <2>1. /\ db'.reset = db.reset
        /\ \A l \in Logins : db'.change[l].token = IF db.change[l].token = req[r].token THEN 0 ELSE db.change[l].token
    BY <2>t, <2>r
  <2>2. /\ loginsPast'.minted = loginsPast.minted
        /\ \/ loginsPast'.used = loginsPast.used /\ loginsPast'.twice = loginsPast.twice
           \/ /\ loginsPast'.used = loginsPast.used \cup {req[r].token} /\ loginsPast'.twice = (loginsPast.twice \/ req[r].token \in loginsPast.used)
              /\ req'[r].login \in {l \in Logins : db.change[l].token = req[r].token}
    BY <1>8, ChangeTakenIs, TookIs
  <2>3. req[r].token \in Pages!Tokens
    BY <1>8, ChangeTakenIs, ActiveIs DEF Knows
  <2>4. CASE loginsPast'.used = loginsPast.used /\ loginsPast'.twice = loginsPast.twice
    BY <1>0, <1>m, <2>1, <2>2, <2>4 DEF LinksOK
  <2>5. ASSUME NEW l \in Logins, db.change[l].token = req[r].token, loginsPast'.used = loginsPast.used \cup {req[r].token},
               loginsPast'.twice = (loginsPast.twice \/ req[r].token \in loginsPast.used)
        PROVE  LinksOK'
    <3>0. req[r].token \notin loginsPast.used /\ req[r].token \in 1 .. loginsPast.minted
      BY <1>0, <1>m, <2>3, <2>5 DEF Pages!Tokens
    <3>t. ~loginsPast'.twice
      BY <1>0, <2>5, <3>0
    <3>1. loginsPast'.used \subseteq 1 .. loginsPast'.minted
      BY <1>0, <2>2, <2>5, <3>0
    <3>2. \A m \in Logins : db'.change[m].token \in (0 .. loginsPast'.minted) \ loginsPast'.used
      BY <1>0, <1>m, <2>1, <2>2, <2>3, <2>5 DEF Pages!Tokens
    <3>3. \A m \in Logins : db.reset[m] # req[r].token
      BY <2>3, <2>5 DEF LinksOK, Pages!Tokens
    <3>4. \A m \in Logins : db'.reset[m] \in (0 .. loginsPast'.minted) \ loginsPast'.used
      BY <1>0, <1>m, <2>1, <2>2, <2>5, <3>3
    <3>5. \A k, m \in Logins : db'.reset[k] # 0 => db'.reset[k] # db'.change[m].token
      BY <2>1 DEF LinksOK
    <3> QED BY <3>t, <3>1, <3>2, <3>4, <3>5 DEF LinksOK
  <2> QED BY <2>2, <2>4, <2>5
<1>9. ASSUME Gone(r) PROVE LinksOK'
  <2>1. /\ \A l \in Logins : db'.change[l].token \in {0, db.change[l].token} /\ db'.reset[l] \in {0, db.reset[l]}
        /\ loginsPast'.used = loginsPast.used /\ loginsPast'.twice = loginsPast.twice /\ loginsPast'.minted = loginsPast.minted
    BY <1>9, GoneIs DEF SameHistory
  <2> QED BY <1>0, <1>m, <2>1 DEF LinksOK
<1> QED BY <1>2, <1>3, <1>4, <1>5, <1>6, <1>7, <1>8, <1>9 DEF Done, Kinds


-----------------------------------------------------------------------------
(* Accounts: a confirmation's token is one address's. *)

(* The copy a request goes on with is of an address that has the token.      *)
Copied(r) ==
  \/ req'[r] = Pages!Idle \/ req'[r].acct = None
  \/ \A t \in Pages!Tokens, e \in Emails : req'[r].acct.token = t /\ req'[r].acct.email = e => Claims(t, e)

LEMMA ClaimsFrom ==
  ASSUME TypesOK, NEW r \in Callers, Only(r, req'[r]), Copied(r), letters' = letters,
         \A l \in Logins : db'.row[l] \in {db.row[l], None}
  PROVE  \A t \in Pages!Tokens, e \in Emails : Claims(t, e)' => Claims(t, e)
<1> SUFFICES ASSUME NEW t \in Pages!Tokens, NEW e \in Emails, Claims(t, e)' PROVE Claims(t, e)
  OBVIOUS
<1>1. CASE \E l \in Logins : db'.row[l] # None /\ db'.row[l].token = t /\ db'.row[l].email = e
  BY <1>1 DEF Claims
<1>2. CASE \E s \in Callers : req'[s] # Pages!Idle /\ req'[s].acct # None /\ req'[s].acct.token = t /\ req'[s].acct.email = e
  <2>1. PICK s \in Callers : req'[s] # Pages!Idle /\ req'[s].acct # None /\ req'[s].acct.token = t /\ req'[s].acct.email = e
    BY <1>2
  <2>2. CASE s = r
    BY <2>1, <2>2 DEF Copied
  <2>3. CASE s # r
    BY <2>1, <2>3 DEF Claims, Holds, Only
  <2> QED BY <2>2, <2>3
<1>3. CASE \E m \in letters' : m.kind = "verify" /\ m.token = t /\ m.to = e
  BY <1>3 DEF Claims
<1> QED BY <1>1, <1>2, <1>3 DEF Claims, Holds

LEMMA LikeCopied ==
  ASSUME TypesOK, NEW r \in Callers, Like(req[r], req'[r]) PROVE Copied(r)
<1>1. ASSUME req[r] # Pages!Idle, req[r].acct # None, req'[r].acct.email = req[r].acct.email,
             req'[r].acct.token \in {0, req[r].acct.token}
      PROVE  Copied(r)
  BY <1>1 DEF Copied, Claims, Holds, Pages!Tokens
<1>2. ASSUME req'[r].login \in Logins, req'[r].acct = db.row[req'[r].login], req'[r].acct # None
      PROVE  Copied(r)
  BY <1>2 DEF Copied, Claims
<1>3. CASE req'[r] = Pages!Idle \/ req'[r].acct = None
  BY <1>3 DEF Copied
<1> QED BY <1>1, <1>2, <1>3 DEF Like

LEMMA ClaimsStay ==
  ASSUME ClaimsOK, loginsPast.minted \in Nat, loginsPast'.minted \in Nat, loginsPast.minted <= loginsPast'.minted,
         \A t \in Pages!Tokens, e \in Emails : Claims(t, e)' => Claims(t, e)
  PROVE  ClaimsOK'
<1>1. \A t \in Pages!Tokens, e \in Emails : Claims(t, e)' => t <= loginsPast'.minted
  BY DEF ClaimsOK, Pages!Tokens
<1>2. \A t \in Pages!Tokens, e, f \in Emails : Claims(t, e)' /\ Claims(t, f)' => e = f
  BY DEF ClaimsOK
<1> QED BY <1>1, <1>2 DEF ClaimsOK

LEMMA SavedClaims ==
  ASSUME TypesOK, ClaimsOK, NEW r \in Callers, Only(r, req'[r]), NEW new \in Pages!Row, Saved(r, new) PROVE ClaimsOK'
<1> DEFINE l == req[r].login
<1>f. l \in Logins
  BY DEF Saved
<1>0. /\ letters' = letters /\ db'.row[l] = new /\ l \in Logins /\ (\A m \in Logins \ {l} : db'.row[m] = db.row[m])
      /\ loginsPast'.minted = IF new.token = Pages!Mint THEN Pages!Mint ELSE loginsPast.minted
  BY <1>f, SavedIs
<1>1. loginsPast.minted \in Nat /\ Pages!Mint = loginsPast.minted + 1 /\ new.email \in Emails /\ new.token \in Nat /\ req[r] # Pages!Idle
  BY MintIs DEF Pages!Mint, Pages!Row, Pages!Tokens, Saved
<1>2. req'[r] = Pages!Idle \/ req'[r].acct = new
  BY DEF Saved
<1>3. ASSUME new.token # Pages!Mint, new.token \in Pages!Tokens PROVE Claims(new.token, new.email)
  BY <1>1, <1>3 DEF Saved, Claims, Holds, Pages!Tokens
<1>4. ASSUME NEW t \in Pages!Tokens, NEW e \in Emails, Claims(t, e)'
      PROVE  Claims(t, e) \/ (t = new.token /\ e = new.email)
  <2>1. CASE \E m \in Logins : db'.row[m] # None /\ db'.row[m].token = t /\ db'.row[m].email = e
    BY <1>0, <2>1 DEF Claims
  <2>2. CASE \E s \in Callers : req'[s] # Pages!Idle /\ req'[s].acct # None /\ req'[s].acct.token = t /\ req'[s].acct.email = e
    <3>1. PICK s \in Callers : req'[s] # Pages!Idle /\ req'[s].acct # None /\ req'[s].acct.token = t /\ req'[s].acct.email = e
      BY <2>2
    <3>2. CASE s = r
      BY <1>2, <3>1, <3>2
    <3>3. CASE s # r
      BY <3>1, <3>3 DEF Claims, Holds, Only
    <3> QED BY <3>2, <3>3
  <2>3. CASE \E m \in letters' : m.kind = "verify" /\ m.token = t /\ m.to = e
    BY <1>0, <2>3 DEF Claims
  <2> QED BY <1>4, <2>1, <2>2, <2>3 DEF Claims, Holds
<1>5. CASE new.token = Pages!Mint
  <2>1. \A t \in Pages!Tokens, e \in Emails : Claims(t, e) => t <= loginsPast.minted
    BY DEF ClaimsOK
  <2>2. \A t \in Pages!Tokens, e \in Emails : Claims(t, e)' => t <= loginsPast'.minted
    <3>1. loginsPast'.minted = loginsPast.minted + 1 /\ new.token <= loginsPast'.minted
      BY <1>0, <1>1, <1>5
    <3>2. \A t \in Pages!Tokens : t <= loginsPast.minted => t <= loginsPast'.minted
      BY <1>1, <3>1 DEF Pages!Tokens
    <3> QED BY <1>4, <2>1, <3>1, <3>2
  <2>3. \A t \in Pages!Tokens, e, f \in Emails : Claims(t, e)' /\ Claims(t, f)' => e = f
    <3>1. \A e \in Emails : ~Claims(new.token, e)
      BY <1>1, <1>5, <2>1 DEF Pages!Tokens
    <3> QED BY <1>4, <3>1 DEF ClaimsOK
  <2> QED BY <2>2, <2>3 DEF ClaimsOK
<1>6. CASE new.token # Pages!Mint
  <2>1. \A t \in Pages!Tokens, e \in Emails : Claims(t, e)' => Claims(t, e)
    BY <1>3, <1>4, <1>6
  <2> QED BY <1>0, <1>1, <1>6, <2>1, ClaimsStay
<1> QED BY <1>5, <1>6

LEMMA ClaimsKept ==
  ASSUME TypesOK, ClaimsOK, NEW r \in Callers, Done(r) PROVE ClaimsOK'
<1>0. Only(r, req'[r]) /\ ReqOK(req'[r]) /\ loginsPast.minted \in Nat /\ Pages!Mint = loginsPast.minted + 1
  BY MintIs DEF Done, Pages!Mint
<1>1. ASSUME Copied(r), letters' = letters, \A l \in Logins : db'.row[l] \in {db.row[l], None},
             loginsPast'.minted \in {loginsPast.minted, Pages!Mint}
      PROVE  ClaimsOK'
  <2>1. \A t \in Pages!Tokens, e \in Emails : Claims(t, e)' => Claims(t, e)
    BY <1>0, <1>1, ClaimsFrom
  <2> QED BY <1>0, <1>1, <2>1, ClaimsStay
<1>2. ASSUME req'[r] = Pages!Idle \/ req'[r].acct = None PROVE Copied(r)
  BY <1>2 DEF Copied
<1>3. ASSUME Quiet(r) PROVE ClaimsOK'
  BY <1>1, <1>3, QuietIs, LikeCopied DEF Quiet
<1>4. ASSUME Peopled(r) PROVE ClaimsOK'
  BY <1>1, <1>4, PeopledIs, LikeCopied DEF Peopled, SameRows
<1>5. ASSUME Ended(r) PROVE ClaimsOK'
  BY <1>1, <1>2, <1>5, EndedIs DEF Ended, SameRows
<1>6. ASSUME Started(r) PROVE ClaimsOK'
  <2>1. req'[r] = Pages!Idle
    BY <1>6 DEF Started
  <2> QED BY <1>1, <1>2, <1>6, <2>1, StartedIs DEF SameRows
<1>7. ASSUME ResetMade(r) \/ ChangeMade(r) PROVE ClaimsOK'
  <2>1. req[r] # Pages!Idle /\ req'[r].acct = req[r].acct
    BY <1>7, IdleIs DEF ResetMade, ChangeMade
  <2>2. Copied(r)
    BY <2>1 DEF Copied, Claims, Holds
  <2> QED BY <1>1, <1>7, <2>2, ResetMadeIs, ChangeMadeIs DEF SameRows
<1>8. ASSUME ResetTaken(r) PROVE ClaimsOK'
  <2>1. (req'[r] = Pages!Idle \/ req'[r].acct = None) /\ loginsPast'.minted = loginsPast.minted
    BY <1>8, ResetTakenIs, TookIs
  <2> QED BY <1>1, <1>2, <1>8, <2>1, ResetTakenIs DEF SameRows
<1>9. ASSUME ChangeTaken(r) PROVE ClaimsOK'
  <2>1. (req'[r] = Pages!Idle \/ req'[r].acct = None) /\ loginsPast'.minted = loginsPast.minted
    BY <1>9, ChangeTakenIs, TookIs
  <2> QED BY <1>1, <1>2, <1>9, <2>1, ChangeTakenIs DEF SameRows
<1>10. ASSUME Gone(r) PROVE ClaimsOK'
  <2>1. req'[r] = Pages!Idle /\ \A l \in Logins : db'.row[l] \in {db.row[l], None}
    BY <1>10, GoneIs DEF Gone
  <2> QED BY <1>1, <1>2, <1>10, <2>1, GoneIs
<1>11. ASSUME Opened(r) PROVE ClaimsOK'
  BY <1>0, <1>1, <1>2, <1>11, OpenedIs DEF Opened
<1>12. ASSUME NEW new \in Pages!Row, Saved(r, new) PROVE ClaimsOK'
  BY <1>0, <1>12, SavedClaims
<1>13. ASSUME NEW m \in Pages!Letter, Sent(r, m) PROVE ClaimsOK'
  <2>1. UNCHANGED <<db, loginsPast>> /\ req'[r] = Pages!Idle /\ letters' = letters \cup {m} /\ req[r] # Pages!Idle /\ req[r].pc = "send"
    BY <1>13 DEF Sent
  <2>2. ASSUME m.kind = "verify" PROVE Claims(m.token, m.to)
    <3>1. req[r].acct \in Pages!Row /\ m.to = req[r].acct.email /\ m.token = req[r].acct.token
      BY <1>13, <2>1, <2>2, ActiveIs DEF Sent, Knows, Begun
    <3> QED BY <2>1, <3>1, ConstantsAre DEF Claims, Holds
  <2>3. ASSUME NEW t \in Pages!Tokens, NEW e \in Emails, Claims(t, e)' PROVE Claims(t, e)
    <3>1. CASE \E k \in Logins : db'.row[k] # None /\ db'.row[k].token = t /\ db'.row[k].email = e
      BY <2>1, <3>1 DEF Claims
    <3>2. CASE \E s \in Callers : req'[s] # Pages!Idle /\ req'[s].acct # None /\ req'[s].acct.token = t /\ req'[s].acct.email = e
      BY <1>0, <2>1, <3>2 DEF Claims, Holds, Only
    <3>3. CASE \E k \in letters' : k.kind = "verify" /\ k.token = t /\ k.to = e
      <4>1. PICK k \in letters' : k.kind = "verify" /\ k.token = t /\ k.to = e
        BY <3>3
      <4> QED BY <2>1, <2>2, <4>1 DEF Claims
    <3> QED BY <2>3, <3>1, <3>2, <3>3 DEF Claims, Holds
  <2>4. loginsPast'.minted = loginsPast.minted
    BY <2>1
  <2> QED BY <1>0, <2>3, <2>4, ClaimsStay
<1> QED BY <1>3, <1>4, <1>5, <1>6, <1>7, <1>8, <1>9, <1>10, <1>11, <1>12, <1>13 DEF Done, Kinds


-----------------------------------------------------------------------------
(* Accounts: a login has one unproved address, or only proved ones. *)

(* What a request goes on with was the login's before.                       *)
Homely(r) ==
  /\ \/ req'[r] = Pages!Idle \/ req'[r].acct = None
     \/ \A l \in Logins, e \in Emails : req'[r].login = l /\ req'[r].acct.email = e => Lives(l, e)
  /\ Comes(req'[r]) => \A l \in Logins, e \in Emails : req'[r].login = l /\ req'[r].email = e => Lives(l, e)

LEMMA LivesFrom ==
  ASSUME TypesOK, NEW r \in Callers, Only(r, req'[r]), Homely(r), letters' = letters,
         \A l \in Logins : db'.row[l] \in {db.row[l], None},
         \A l \in Logins : db'.reset[l] \in {db.reset[l], 0}
  PROVE  \A l \in Logins, e \in Emails : Lives(l, e)' => Lives(l, e)
<1> SUFFICES ASSUME NEW l \in Logins, NEW e \in Emails, Lives(l, e)' PROVE Lives(l, e)
  OBVIOUS
<1>1. CASE db'.row[l] # None /\ db'.row[l].email = e
  BY <1>1 DEF Lives
<1>2. CASE \E s \in Callers : req'[s] # Pages!Idle /\ req'[s].acct # None /\ req'[s].login = l /\ req'[s].acct.email = e
  <2>1. PICK s \in Callers : req'[s] # Pages!Idle /\ req'[s].acct # None /\ req'[s].login = l /\ req'[s].acct.email = e
    BY <1>2
  <2>2. CASE s = r
    BY <2>1, <2>2 DEF Homely
  <2>3. CASE s # r
    BY <2>1, <2>3 DEF Lives, Holds, Only
  <2> QED BY <2>2, <2>3
<1>3. CASE \E s \in Callers : Comes(req'[s]) /\ req'[s].login = l /\ req'[s].email = e
  <2>1. PICK s \in Callers : Comes(req'[s]) /\ req'[s].login = l /\ req'[s].email = e
    BY <1>3
  <2>2. CASE s = r
    BY <2>1, <2>2 DEF Homely
  <2>3. CASE s # r
    BY <2>1, <2>3 DEF Lives, Only
  <2> QED BY <2>2, <2>3
<1>4. CASE \E m \in letters' : m.kind = "reset" /\ m.token = db'.reset[l] /\ m.to = e
  <2>1. PICK m \in letters : m.kind = "reset" /\ m.token = db'.reset[l] /\ m.to = e
    BY <1>4
  <2>2. m.token # 0
    BY DEF TypesOK, Pages!Letter, Pages!Tokens
  <2> QED BY <2>1, <2>2 DEF Lives
<1>5. Lives(l, e)' <=> \/ db'.row[l] # None /\ db'.row[l].email = e
                       \/ \E s \in Callers : req'[s] # Pages!Idle /\ req'[s].acct # None /\ req'[s].login = l /\ req'[s].acct.email = e
                       \/ \E s \in Callers : Comes(req'[s]) /\ req'[s].login = l /\ req'[s].email = e
                       \/ \E m \in letters' : m.kind = "reset" /\ m.token = db'.reset[l] /\ m.to = e
  BY DEF Lives, Holds, Comes
<1> QED BY <1>1, <1>2, <1>3, <1>4, <1>5

LEMMA LikeHomely ==
  ASSUME TypesOK, NEW r \in Callers, Like(req[r], req'[r]) PROVE Homely(r)
<1>1. ASSUME Comes(req'[r]), NEW l \in Logins, NEW e \in Emails, req'[r].login = l, req'[r].email = e
      PROVE  Lives(l, e)
  <2>1. req'[r] # Pages!Idle
    BY <1>1, IdleIs DEF Comes
  <2> QED BY <1>1, <2>1 DEF Like, Lives
<1>2. ASSUME req'[r] # Pages!Idle, req'[r].acct # None, NEW l \in Logins, NEW e \in Emails,
             req'[r].login = l, req'[r].acct.email = e
      PROVE  Lives(l, e)
  BY <1>2 DEF Like, Lives, Holds
<1> QED BY <1>1, <1>2 DEF Homely

LEMMA HomesStay ==
  ASSUME HomesOK, loginsPast.born \subseteq loginsPast'.born, loginsPast'.proved = loginsPast.proved,
         \A l \in Logins, e \in Emails : Lives(l, e)' => Lives(l, e)
  PROVE  HomesOK'
<1> SUFFICES ASSUME NEW l \in Logins, NEW e \in Emails, Lives(l, e)'
             PROVE  /\ l \in loginsPast'.born
                    /\ \/ e \in loginsPast'.proved[l]
                       \/ loginsPast'.proved[l] = {} /\ \A f \in Emails : Lives(l, f)' => f = e
  BY DEF HomesOK
<1>1. Lives(l, e)
  OBVIOUS
<1> QED BY <1>1 DEF HomesOK


LEMMA SavedHomes ==
  ASSUME TypesOK, ClaimsOK, HomesOK, Entered, NEW r \in Callers, Only(r, req'[r]), NEW new \in Pages!Row, Saved(r, new)
  PROVE  HomesOK'
<1> DEFINE q == req[r]  l == req[r].login
<1>f. l \in Logins
  BY DEF Saved
<1>0. /\ letters' = letters /\ db'.row[l] = new /\ l \in Logins /\ (\A k \in Logins \ {l} : db'.row[k] = db.row[k])
      /\ db'.reset = db.reset /\ loginsPast'.born = loginsPast.born
      /\ loginsPast'.proved[l] = (IF q.op \in {"confirm", "reset", "move"} THEN loginsPast.proved[l] \cup {q.email}
                            ELSE loginsPast.proved[l])
      /\ \A k \in Logins \ {l} : loginsPast'.proved[k] = loginsPast.proved[k]
  BY <1>f, SavedIs DEF SameLinks, SameHistory
<1>1. req[r] # Pages!Idle /\ req[r] \in Request /\ Knows(req[r]) /\ new.email \in Emails
  BY ActiveIs DEF Saved, Pages!Row
<1>2. \/ req'[r] = Pages!Idle
      \/ req'[r] # Pages!Idle /\ req'[r].acct = new /\ req'[r].login = l /\ req'[r].op = q.op /\ req'[r].email = q.email
         /\ Reads(req'[r]) /\ q.op # "move"
  BY IdleIs DEF Saved
<1>3. q.op = "reset" => Comes(q)
  BY <1>1 DEF Comes, Saved, Knows, Begun, Reads, Signed
<1>4. Comes(req'[r]) => Comes(q) /\ req'[r].email = q.email /\ req'[r].login = l
  <2>1. CASE req'[r] = Pages!Idle
    BY <2>1, IdleIs DEF Comes
  <2>2. CASE req'[r] # Pages!Idle
    BY <1>2, <1>3, <2>2 DEF Comes, Reads, Signed
  <2> QED BY <2>1, <2>2
<1>5. (new.email = q.email /\ q.op = "move" /\ q.pc = "save") \/ Lives(l, new.email)
  BY <1>0, <1>1 DEF Saved, Lives, Holds
<1>6. ASSUME NEW k \in Logins, NEW e \in Emails, Lives(k, e)'
      PROVE  Lives(k, e) \/ (k = l /\ e = new.email)
  <2>1. CASE db'.row[k] # None /\ db'.row[k].email = e
    BY <1>0, <2>1 DEF Lives
  <2>2. CASE \E s \in Callers : req'[s] # Pages!Idle /\ req'[s].acct # None /\ req'[s].login = k /\ req'[s].acct.email = e
    <3>1. PICK s \in Callers : req'[s] # Pages!Idle /\ req'[s].acct # None /\ req'[s].login = k /\ req'[s].acct.email = e
      BY <2>2
    <3>2. CASE s = r
      BY <1>2, <3>1, <3>2
    <3>3. CASE s # r
      BY <3>1, <3>3 DEF Lives, Holds, Only
    <3> QED BY <3>2, <3>3
  <2>3. CASE \E s \in Callers : Comes(req'[s]) /\ req'[s].login = k /\ req'[s].email = e
    <3>1. PICK s \in Callers : Comes(req'[s]) /\ req'[s].login = k /\ req'[s].email = e
      BY <2>3
    <3>2. CASE s = r
      BY <1>4, <3>1, <3>2 DEF Lives
    <3>3. CASE s # r
      BY <3>1, <3>3 DEF Lives, Only
    <3> QED BY <3>2, <3>3
  <2>4. CASE \E m \in letters' : m.kind = "reset" /\ m.token = db'.reset[k] /\ m.to = e
    BY <1>0, <2>4 DEF Lives
  <2>5. Lives(k, e)' <=> \/ db'.row[k] # None /\ db'.row[k].email = e
                         \/ \E s \in Callers : req'[s] # Pages!Idle /\ req'[s].acct # None /\ req'[s].login = k /\ req'[s].acct.email = e
                         \/ \E s \in Callers : Comes(req'[s]) /\ req'[s].login = k /\ req'[s].email = e
                         \/ \E m \in letters' : m.kind = "reset" /\ m.token = db'.reset[k] /\ m.to = e
    BY DEF Lives, Holds, Comes
  <2> QED BY <1>6, <2>1, <2>2, <2>3, <2>4, <2>5
<1>7. ASSUME q.op = "move" PROVE \E e \in Emails : Lives(l, e) /\ loginsPast.proved[l] # {}
  <2>1. Reads(q) /\ q.pc # "take" /\ q.acct \in Pages!Row
    BY <1>1, <1>7 DEF Saved, Knows, Begun, Reads, Signed, Comes
  <2>2. Lives(l, q.acct.email) /\ q.acct.email \in Emails
    BY <1>1, <2>1, ConstantsAre DEF Lives, Holds, Pages!Row
  <2>3. loginsPast.proved[l] # {}
    BY <1>7, <2>1 DEF Entered, In
  <2> QED BY <2>2, <2>3
<1>8. l \in loginsPast.born
  BY <1>5, <1>7, <1>0, <1>1 DEF HomesOK
<1>9. q.op \in {"confirm", "reset"} => Lives(l, q.email) /\ q.email \in Emails
  <2>1. q.op \in {"confirm", "reset"} => q.email \in Emails
    BY <1>1 DEF Knows
  <2>2. q.op = "reset" => Lives(l, q.email)
    BY <1>3 DEF Lives
  <2>3. q.op = "confirm" => new.email = q.email
    BY DEF Saved
  <2> QED BY <1>5, <2>1, <2>2, <2>3
<1> HIDE DEF q, l
<1> SUFFICES ASSUME NEW k \in Logins, NEW e \in Emails, Lives(k, e)'
             PROVE  /\ k \in loginsPast'.born
                    /\ \/ e \in loginsPast'.proved[k]
                       \/ loginsPast'.proved[k] = {} /\ \A f \in Emails : Lives(k, f)' => f = e
  BY DEF HomesOK
<1>10. CASE k # l
  <2>1. \A f \in Emails : Lives(k, f)' => Lives(k, f)
    BY <1>6, <1>10
  <2> QED BY <1>0, <1>10, <2>1 DEF HomesOK
<1>11. CASE k = l /\ q.op = "move" /\ ~Lives(l, new.email)
  <2>1. loginsPast.proved[l] # {} /\ q.email \in loginsPast'.proved[l] /\ loginsPast.proved[l] \subseteq loginsPast'.proved[l]
    BY <1>0, <1>7, <1>11
  <2>2. e \in loginsPast'.proved[l]
    BY <1>5, <1>6, <1>11, <2>1 DEF HomesOK
  <2> QED BY <1>0, <1>8, <1>11, <2>2
<1>12. CASE k = l /\ Lives(l, new.email)
  <2>1. \A f \in Emails : Lives(k, f)' => Lives(k, f)
    BY <1>6, <1>12
  <2>p. loginsPast.proved[l] \subseteq loginsPast'.proved[l]
    BY <1>0
  <2>e. Lives(l, e)
    BY <1>0, <1>6, <1>12
  <2>h. e \in loginsPast.proved[l] \/ (loginsPast.proved[l] = {} /\ \A f \in Emails : Lives(l, f) => f = e)
    BY <1>0, <2>e DEF HomesOK
  <2>2. CASE e \in loginsPast.proved[l]
    BY <1>0, <1>8, <1>12, <2>p, <2>2
  <2>3. CASE loginsPast.proved[l] = {} /\ (\A f \in Emails : Lives(l, f) => f = e) /\ q.op \in {"confirm", "reset"}
    <3>1. e = q.email
      BY <1>9, <2>3
    <3> QED BY <1>0, <1>8, <1>12, <2>3, <3>1
  <2>4. CASE loginsPast.proved[l] = {} /\ (\A f \in Emails : Lives(l, f) => f = e) /\ q.op \notin {"confirm", "reset"}
    <3>1. loginsPast'.proved[l] = {}
      BY <1>0, <1>7, <2>4
    <3> QED BY <1>8, <1>12, <1>0, <2>1, <2>4, <3>1
  <2> QED BY <2>h, <2>2, <2>3, <2>4
<1> QED BY <1>5, <1>10, <1>11, <1>12

LEMMA HomesKept ==
  ASSUME TypesOK, ClaimsOK, HomesOK, Proofs, LettersOK, Entered, NEW r \in Callers, Done(r) PROVE HomesOK'
<1>0. Only(r, req'[r]) /\ ReqOK(req'[r]) /\ loginsPast.minted \in Nat /\ Pages!Mint = loginsPast.minted + 1
  BY MintIs DEF Done, Pages!Mint
<1>1. ASSUME Homely(r), letters' = letters, \A l \in Logins : db'.row[l] \in {db.row[l], None},
             \A l \in Logins : db'.reset[l] \in {db.reset[l], 0},
             loginsPast.born \subseteq loginsPast'.born, loginsPast'.proved = loginsPast.proved
      PROVE  HomesOK'
  <2>1. \A l \in Logins, e \in Emails : Lives(l, e)' => Lives(l, e)
    BY <1>0, <1>1, LivesFrom
  <2> QED BY <1>1, <2>1, HomesStay
<1>2. ASSUME req'[r] = Pages!Idle \/ req'[r].acct = None, ~Comes(req'[r]) PROVE Homely(r)
  BY <1>2 DEF Homely
<1>i. ~Comes(Pages!Idle)
  BY IdleIs DEF Comes
<1>3. ASSUME Quiet(r) PROVE HomesOK'
  <2>1. Homely(r)
    BY <1>3, LikeHomely DEF Quiet
  <2> QED BY <1>1, <1>3, <2>1, QuietIs DEF SameHistory, SameProofs
<1>4. ASSUME Peopled(r) PROVE HomesOK'
  <2>1. Homely(r)
    BY <1>4, LikeHomely DEF Peopled
  <2> QED BY <1>1, <1>4, <2>1, PeopledIs DEF SameRows, SameLinks
<1>5. ASSUME Ended(r) PROVE HomesOK'
  <2>1. Homely(r)
    BY <1>2, <1>5, <1>i DEF Ended
  <2> QED BY <1>1, <1>5, <2>1, EndedIs DEF SameRows, SameLinks
<1>6. ASSUME Started(r) PROVE HomesOK'
  <2>1. Homely(r)
    BY <1>2, <1>6, <1>i DEF Started
  <2> QED BY <1>1, <1>6, <2>1, StartedIs DEF SameRows, SameLinks, SameHistory, SameProofs
<1>7. ASSUME ResetMade(r) PROVE HomesOK'
  <2> DEFINE l == req[r].login
  <2>0. /\ db'.row = db.row /\ db'.reset[l] = Pages!Mint /\ (\A k \in Logins \ {l} : db'.reset[k] = db.reset[k])
        /\ letters' = letters /\ loginsPast'.born = loginsPast.born /\ loginsPast'.proved = loginsPast.proved
    BY <1>7, ResetMadeIs DEF SameRows, SameHistory, SameProofs
  <2>1. req[r] # Pages!Idle /\ req'[r] # Pages!Idle /\ req'[r].acct = req[r].acct /\ req'[r].login = l /\ ~Comes(req'[r])
    BY <1>7, IdleIs DEF ResetMade, Comes
  <2>2. \A m \in letters : m.token # Pages!Mint
    BY <1>0 DEF LettersOK, TypesOK, Pages!Letter, Pages!Tokens
  <2>3. ASSUME NEW k \in Logins, NEW e \in Emails, Lives(k, e)' PROVE Lives(k, e)
    <3>1. CASE db'.row[k] # None /\ db'.row[k].email = e
      BY <2>0, <3>1 DEF Lives
    <3>2. CASE \E s \in Callers : req'[s] # Pages!Idle /\ req'[s].acct # None /\ req'[s].login = k /\ req'[s].acct.email = e
      BY <1>0, <2>1, <3>2 DEF Lives, Holds, Only
    <3>3. CASE \E s \in Callers : Comes(req'[s]) /\ req'[s].login = k /\ req'[s].email = e
      BY <1>0, <2>1, <3>3 DEF Lives, Only
    <3>4. CASE \E m \in letters' : m.kind = "reset" /\ m.token = db'.reset[k] /\ m.to = e
      BY <2>0, <2>2, <3>4 DEF Lives
    <3>5. Lives(k, e)' <=> \/ db'.row[k] # None /\ db'.row[k].email = e
                           \/ \E s \in Callers : req'[s] # Pages!Idle /\ req'[s].acct # None /\ req'[s].login = k /\ req'[s].acct.email = e
                           \/ \E s \in Callers : Comes(req'[s]) /\ req'[s].login = k /\ req'[s].email = e
                           \/ \E m \in letters' : m.kind = "reset" /\ m.token = db'.reset[k] /\ m.to = e
      BY DEF Lives, Holds, Comes
    <3> QED BY <2>3, <3>1, <3>2, <3>3, <3>4, <3>5
  <2> QED BY <2>0, <2>3, HomesStay
<1>8. ASSUME ChangeMade(r) PROVE HomesOK'
  <2>1. req[r] # Pages!Idle /\ req'[r].acct = req[r].acct /\ req'[r].login = req[r].login /\ ~Comes(req'[r])
    BY <1>8, IdleIs DEF ChangeMade, Comes
  <2>2. Homely(r)
    BY <2>1 DEF Homely, Lives, Holds
  <2> QED BY <1>1, <1>8, <2>2, ChangeMadeIs DEF SameRows, SameHistory, SameProofs
<1>9. ASSUME ResetTaken(r) PROVE HomesOK'
  <2>1. /\ req[r] # Pages!Idle /\ req[r].op = "reset" /\ loginsPast'.proved = loginsPast.proved /\ loginsPast'.born = loginsPast.born
        /\ \/ req'[r] = Pages!Idle
           \/ /\ req'[r].op = "reset" /\ req'[r].acct = None
              /\ req'[r].login \in {l \in Logins : db.reset[l] = req[r].token} /\ req'[r].email = req[r].email
    <3>1. req[r] # Pages!Idle /\ req[r].op = "reset" /\ Took(r, {l \in Logins : db.reset[l] = req[r].token})
      BY <1>9, ResetTakenIs
    <3> QED BY <3>1, TookIs DEF SameProofs
  <2>2. [kind |-> "reset", to |-> req[r].email, token |-> req[r].token] \in letters
    BY <2>1 DEF LettersOK
  <2>3. Homely(r)
    BY <1>i, <2>1, <2>2 DEF Homely, Lives
  <2>4. (\A l \in Logins : db'.reset[l] \in {db.reset[l], 0}) /\ db'.row = db.row /\ letters' = letters
    BY <1>9, ResetTakenIs DEF SameRows
  <2> QED BY <1>1, <2>1, <2>3, <2>4
<1>10. ASSUME ChangeTaken(r) PROVE HomesOK'
  <2>1. /\ loginsPast'.proved = loginsPast.proved /\ loginsPast'.born = loginsPast.born
        /\ req'[r] = Pages!Idle \/ (req'[r].op = "move" /\ req'[r].acct = None)
    <3>1. req[r] # Pages!Idle /\ req[r].op = "move" /\ Took(r, {l \in Logins : db.change[l].token = req[r].token})
      BY <1>10, ChangeTakenIs
    <3> QED BY <3>1, TookIs DEF SameProofs
  <2>2. Homely(r)
    BY <1>2, <1>i, <2>1 DEF Comes
  <2>3. db'.reset = db.reset /\ db'.row = db.row /\ letters' = letters
    BY <1>10, ChangeTakenIs DEF SameRows
  <2> QED BY <1>1, <2>1, <2>2, <2>3
<1>11. ASSUME Gone(r) PROVE HomesOK'
  <2>1. req'[r] = Pages!Idle /\ (\A l \in Logins : db'.row[l] \in {db.row[l], None})
        /\ \A l \in Logins : db'.reset[l] \in {db.reset[l], 0}
    BY <1>11, GoneIs DEF Gone
  <2> QED BY <1>1, <1>2, <1>i, <1>11, <2>1, GoneIs DEF SameHistory, SameProofs
<1>12. ASSUME Opened(r) PROVE HomesOK'
  <2>0. /\ db' = db /\ letters' = letters /\ loginsPast'.proved = loginsPast.proved
        /\ loginsPast'.born = (IF req'[r].op = "register" THEN loginsPast.born \cup {req'[r].login} ELSE loginsPast.born)
        /\ req'[r].acct = None
    BY <1>0, <1>12, OpenedIs DEF SameProofs, Opened
  <2>1. CASE req'[r].op # "register"
    <3>1. Homely(r)
      BY <1>2, <1>12, <2>0, <2>1 DEF Opened, Comes
    <3> QED BY <1>1, <2>0, <2>1, <3>1
  <2>2. CASE req'[r].op = "register"
    <3> DEFINE x == req'[r].login
    <3>1. x \in Logins \ loginsPast.born /\ loginsPast.proved[x] = {} /\ \A e \in Emails : ~Lives(x, e)
      BY <1>12, <2>2 DEF Opened, Proofs, HomesOK
    <3>2. ASSUME NEW k \in Logins, NEW e \in Emails, Lives(k, e)'
          PROVE  Lives(k, e) \/ (k = x /\ e = req'[r].email)
      <4>1. CASE db'.row[k] # None /\ db'.row[k].email = e
        BY <2>0, <4>1 DEF Lives
      <4>2. CASE \E s \in Callers : req'[s] # Pages!Idle /\ req'[s].acct # None /\ req'[s].login = k /\ req'[s].acct.email = e
        BY <1>0, <2>0, <4>2 DEF Lives, Holds, Only
      <4>3. CASE \E s \in Callers : Comes(req'[s]) /\ req'[s].login = k /\ req'[s].email = e
        BY <1>0, <4>3 DEF Lives, Only
      <4>4. CASE \E m \in letters' : m.kind = "reset" /\ m.token = db'.reset[k] /\ m.to = e
        BY <2>0, <4>4 DEF Lives
      <4>5. Lives(k, e)' <=> \/ db'.row[k] # None /\ db'.row[k].email = e
                             \/ \E s \in Callers : req'[s] # Pages!Idle /\ req'[s].acct # None /\ req'[s].login = k /\ req'[s].acct.email = e
                             \/ \E s \in Callers : Comes(req'[s]) /\ req'[s].login = k /\ req'[s].email = e
                             \/ \E m \in letters' : m.kind = "reset" /\ m.token = db'.reset[k] /\ m.to = e
        BY DEF Lives, Holds, Comes
      <4> QED BY <3>2, <4>1, <4>2, <4>3, <4>4, <4>5
    <3> HIDE DEF x
    <3>3. ASSUME NEW k \in Logins, NEW e \in Emails, Lives(k, e)'
          PROVE  /\ k \in loginsPast'.born
                 /\ \/ e \in loginsPast'.proved[k]
                    \/ loginsPast'.proved[k] = {} /\ \A f \in Emails : Lives(k, f)' => f = e
      <4>1. CASE k = x
        BY <2>0, <2>2, <3>1, <3>2, <3>3, <4>1 DEF x
      <4>2. CASE k # x
        <5>1. \A f \in Emails : Lives(k, f)' => Lives(k, f)
          BY <3>2, <4>2
        <5> QED BY <2>0, <2>2, <3>3, <5>1 DEF HomesOK
      <4> QED BY <4>1, <4>2
    <3> QED BY <3>3 DEF HomesOK
  <2> QED BY <2>1, <2>2
<1>13. ASSUME NEW new \in Pages!Row, Saved(r, new) PROVE HomesOK'
  BY <1>0, <1>13, SavedHomes
<1>14. ASSUME NEW m \in Pages!Letter, Sent(r, m) PROVE HomesOK'
  <2>1. db' = db /\ loginsPast' = loginsPast /\ req'[r] = Pages!Idle /\ letters' = letters \cup {m} /\ req[r] # Pages!Idle /\ req[r].pc = "send"
    BY <1>14 DEF Sent
  <2>2. ASSUME m.kind = "reset", NEW k \in Logins, db.reset[k] = m.token PROVE Lives(k, m.to)
    <3>1. req[r].op = "forgot" /\ m.to = req[r].acct.email /\ m.token = req[r].token
      BY <1>14, <2>2 DEF Sent
    <3>2. req[r].acct \in Pages!Row /\ req[r].login = k
      BY <2>1, <2>2, <3>1, ActiveIs DEF Knows, Begun, Signed, LettersOK
    <3> QED BY <2>1, <3>1, <3>2, ConstantsAre DEF Lives, Holds
  <2>3. ASSUME NEW k \in Logins, NEW e \in Emails, Lives(k, e)' PROVE Lives(k, e)
    <3>1. CASE db'.row[k] # None /\ db'.row[k].email = e
      BY <2>1, <3>1 DEF Lives
    <3>2. CASE \E s \in Callers : req'[s] # Pages!Idle /\ req'[s].acct # None /\ req'[s].login = k /\ req'[s].acct.email = e
      BY <1>0, <2>1, <3>2 DEF Lives, Holds, Only
    <3>3. CASE \E s \in Callers : Comes(req'[s]) /\ req'[s].login = k /\ req'[s].email = e
      BY <1>0, <1>i, <2>1, <3>3 DEF Lives, Only
    <3>4. CASE \E j \in letters' : j.kind = "reset" /\ j.token = db'.reset[k] /\ j.to = e
      <4>1. PICK j \in letters' : j.kind = "reset" /\ j.token = db'.reset[k] /\ j.to = e
        BY <3>4
      <4>2. CASE j = m
        BY <2>1, <2>2, <4>1, <4>2
      <4>3. CASE j \in letters
        BY <2>1, <4>1, <4>3 DEF Lives
      <4> QED BY <2>1, <4>1, <4>2, <4>3
    <3>5. Lives(k, e)' <=> \/ db'.row[k] # None /\ db'.row[k].email = e
                           \/ \E s \in Callers : req'[s] # Pages!Idle /\ req'[s].acct # None /\ req'[s].login = k /\ req'[s].acct.email = e
                           \/ \E s \in Callers : Comes(req'[s]) /\ req'[s].login = k /\ req'[s].email = e
                           \/ \E j \in letters' : j.kind = "reset" /\ j.token = db'.reset[k] /\ j.to = e
      BY DEF Lives, Holds, Comes
    <3> QED BY <2>3, <3>1, <3>2, <3>3, <3>4, <3>5
  <2> QED BY <2>1, <2>3, HomesStay
<1> QED BY <1>3, <1>4, <1>5, <1>6, <1>7, <1>8, <1>9, <1>10, <1>11, <1>12, <1>13, <1>14 DEF Done, Kinds


-----------------------------------------------------------------------------
(* Accounts: what is confirmed was proved. *)

LEMMA ProofsStay ==
  ASSUME TypesOK, Proofs, NEW r \in Callers, Only(r, req'[r]), loginsPast'.proved = loginsPast.proved,
         loginsPast.born \subseteq loginsPast'.born, \A l \in Logins : db'.row[l] \in {db.row[l], None},
         req'[r] # Pages!Idle /\ req'[r].acct # None /\ req'[r].acct.verified =>
           req'[r].acct.email \in loginsPast.proved[req'[r].login]
  PROVE  Proofs'
<1>1. Pages!OwnAddress'
  BY DEF Proofs, Pages!OwnAddress
<1>2. \A l \in Logins \ loginsPast'.born : loginsPast'.proved[l] = {}
  BY DEF Proofs
<1>3. \A s \in Callers : req'[s] # Pages!Idle /\ req'[s].acct # None /\ req'[s].acct.verified
        => req'[s].acct.email \in loginsPast'.proved[req'[s].login]
  BY DEF Proofs, Only, Holds
<1> QED BY <1>1, <1>2, <1>3 DEF Proofs, Holds

LEMMA LikeProofs ==
  ASSUME TypesOK, Proofs, NEW r \in Callers, Like(req[r], req'[r]),
         req'[r] # Pages!Idle, req'[r].acct # None, req'[r].acct.verified
  PROVE  req'[r].acct.email \in loginsPast.proved[req'[r].login]
<1>1. CASE /\ req[r] # Pages!Idle /\ req[r].acct # None /\ req'[r].login = req[r].login
           /\ req'[r].acct.email = req[r].acct.email /\ req'[r].acct.verified = req[r].acct.verified
  BY <1>1 DEF Proofs, Holds
<1>2. CASE req'[r].login \in Logins /\ req'[r].acct = db.row[req'[r].login]
  BY <1>2 DEF Proofs, Pages!OwnAddress
<1> QED BY <1>1, <1>2 DEF Like

LEMMA SavedProofs ==
  ASSUME TypesOK, ClaimsOK, HomesOK, Proofs, Entered, NEW r \in Callers, Only(r, req'[r]),
         NEW new \in Pages!Row, Saved(r, new)
  PROVE  Proofs'
<1> DEFINE q == req[r]  l == req[r].login
<1>f. l \in Logins
  BY DEF Saved
<1>0. /\ db'.row[l] = new /\ l \in Logins /\ (\A k \in Logins \ {l} : db'.row[k] = db.row[k])
      /\ loginsPast'.born = loginsPast.born
      /\ loginsPast'.proved[l] = (IF q.op \in {"confirm", "reset", "move"} THEN loginsPast.proved[l] \cup {q.email}
                            ELSE loginsPast.proved[l])
      /\ \A k \in Logins \ {l} : loginsPast'.proved[k] = loginsPast.proved[k]
  BY <1>f, SavedIs DEF SameLinks, SameHistory
<1>1. q # Pages!Idle /\ q \in Request /\ Knows(q) /\ new.email \in Emails
  BY ActiveIs DEF Saved, Pages!Row
<1>2. q.acct # None => Lives(l, q.acct.email) /\ q.acct.email \in Emails
  BY <1>1, ConstantsAre DEF Lives, Holds, Knows, Pages!Row
<1>3. q.op = "reset" => Lives(l, q.email) /\ q.email \in Emails
  BY <1>1 DEF Comes, Saved, Knows, Begun, Reads, Signed, Lives
<1>4. q.op = "move" => loginsPast.proved[l] # {}
  <2>1. q.op = "move" => Reads(q) /\ q.pc # "take"
    BY <1>1 DEF Saved, Knows, Begun, Reads, Signed, Comes
  <2> QED BY <2>1 DEF Entered, In
<1>5. ASSUME new.verified PROVE new.email \in loginsPast'.proved[l]
  <2>1. CASE q.acct # None /\ q.acct.verified /\ new.email = q.acct.email
    <3>1. new.email \in loginsPast.proved[l]
      BY <1>1, <2>1 DEF Proofs, Holds
    <3> QED BY <1>0, <3>1
  <2>2. CASE q.op \in {"confirm", "reset", "move"} /\ new.email = q.email
    BY <1>0, <2>2
  <2>3. CASE q.op \in {"reset", "move"} /\ q.acct # None /\ new.email = q.acct.email
    <3>1. new.email \in loginsPast.proved[l] \/ (loginsPast.proved[l] = {} /\ \A f \in Emails : Lives(l, f) => f = new.email)
      BY <1>0, <1>2, <2>3 DEF HomesOK
    <3>2. CASE new.email \in loginsPast.proved[l]
      BY <1>0, <3>2
    <3>3. CASE loginsPast.proved[l] = {} /\ \A f \in Emails : Lives(l, f) => f = new.email
      <4>1. q.op = "reset" /\ q.email = new.email
        BY <1>3, <1>4, <2>3, <3>3
      <4> QED BY <1>0, <4>1
    <3> QED BY <3>1, <3>2, <3>3
  <2>4. q.op = "confirm" => new.email = q.email
    BY DEF Saved
  <2>5. \/ q.acct # None /\ q.acct.verified /\ new.email = q.acct.email
        \/ q.op \in {"confirm", "reset", "move"}
    BY <1>5 DEF Saved
  <2>6. \/ q.acct # None /\ new.email = q.acct.email
        \/ q.op = "move" /\ new.email = q.email
        \/ ~new.verified
    BY DEF Saved
  <2> QED BY <1>5, <2>1, <2>2, <2>3, <2>4, <2>5, <2>6
<1>6. \A k \in Logins : loginsPast.proved[k] \subseteq loginsPast'.proved[k]
  BY <1>0
<1>7. Pages!OwnAddress'
  <2> HIDE DEF l
  <2>1. \A k \in Logins : db'.row[k] # None /\ db'.row[k].verified => db'.row[k].email \in loginsPast'.proved[k]
    BY <1>0, <1>5, <1>6 DEF Proofs, Pages!OwnAddress
  <2> QED BY <2>1 DEF Pages!OwnAddress
<1>8. \A k \in Logins \ loginsPast'.born : loginsPast'.proved[k] = {}
  <2>1. l \in loginsPast.born
    <3>1. CASE q.acct # None
      BY <1>0, <1>2, <3>1 DEF HomesOK
    <3>2. CASE q.acct = None
      <4>0. Comes(q)
        <5>1. q.op # "move"
          BY <1>1, <3>2, ConstantsAre DEF Saved, Knows, Begun, Comes, Signed
        <5> QED BY <3>2, <5>1 DEF Saved
      <4>1. q.email \in Emails
        BY <1>1, <4>0 DEF Knows, Comes
      <4>2. Lives(l, q.email)
        BY <4>0 DEF Lives
      <4> QED BY <1>0, <4>1, <4>2 DEF HomesOK
    <3> QED BY <3>1, <3>2
  <2> QED BY <1>0, <2>1 DEF Proofs
<1>9. ASSUME NEW s \in Callers, req'[s] # Pages!Idle, req'[s].acct # None, req'[s].acct.verified
      PROVE  req'[s].acct.email \in loginsPast'.proved[req'[s].login]
  <2>1. CASE s = r
    <3>1. req'[r].acct = new /\ req'[r].login = l
      BY <1>9, <2>1 DEF Saved
    <3> QED BY <1>5, <1>9, <2>1, <3>1
  <2>2. CASE s # r
    <3>1. req'[s] = req[s] /\ req[s].acct.email \in loginsPast.proved[req[s].login]
      BY <1>9, <2>2 DEF Only, Proofs, Holds
    <3>2. req[s].login \in Logins
      BY <1>9, <3>1, ActiveIs DEF Knows
    <3> QED BY <1>6, <3>1, <3>2
  <2> QED BY <2>1, <2>2
<1> QED BY <1>7, <1>8, <1>9 DEF Proofs, Holds

LEMMA ProofsKept ==
  ASSUME TypesOK, ClaimsOK, HomesOK, Proofs, Entered, NEW r \in Callers, Done(r) PROVE Proofs'
<1>0. Only(r, req'[r]) /\ ReqOK(req'[r])
  BY DEF Done
<1>1. ASSUME loginsPast'.proved = loginsPast.proved, loginsPast.born \subseteq loginsPast'.born, \A l \in Logins : db'.row[l] \in {db.row[l], None},
             Like(req[r], req'[r]) \/ req'[r] = Pages!Idle \/ req'[r].acct = None
      PROVE  Proofs'
  BY <1>0, <1>1, ProofsStay, LikeProofs
<1>2. ASSUME Quiet(r) \/ Peopled(r) \/ Ended(r) PROVE Proofs'
  <2>1. loginsPast'.proved = loginsPast.proved /\ loginsPast'.born = loginsPast.born /\ db'.row = db.row
    BY <1>2, QuietIs, PeopledIs, EndedIs DEF SameProofs, SameHistory, SameRows
  <2>2. Like(req[r], req'[r]) \/ req'[r] = Pages!Idle
    BY <1>2 DEF Quiet, Peopled, Ended
  <2> QED BY <1>1, <2>1, <2>2
<1>3. ASSUME Started(r) \/ Opened(r) PROVE Proofs'
  <2>1. loginsPast'.proved = loginsPast.proved /\ loginsPast.born \subseteq loginsPast'.born /\ db'.row = db.row
    BY <1>0, <1>3, StartedIs, OpenedIs DEF SameProofs, SameHistory, SameRows
  <2>2. req'[r] = Pages!Idle \/ req'[r].acct = None
    BY <1>3 DEF Started, Opened
  <2> QED BY <1>1, <2>1, <2>2
<1>4. ASSUME ResetMade(r) \/ ChangeMade(r) PROVE Proofs'
  <2>1. loginsPast'.proved = loginsPast.proved /\ loginsPast'.born = loginsPast.born /\ db'.row = db.row
    BY <1>4, ResetMadeIs, ChangeMadeIs DEF SameProofs, SameHistory, SameRows
  <2>2. req[r] # Pages!Idle /\ req'[r].acct = req[r].acct /\ req'[r].login = req[r].login
    BY <1>4, IdleIs DEF ResetMade, ChangeMade
  <2>3. req'[r].acct # None /\ req'[r].acct.verified => req'[r].acct.email \in loginsPast.proved[req'[r].login]
    BY <2>2 DEF Proofs, Holds
  <2> QED BY <1>0, <2>1, <2>3, ProofsStay
<1>5. ASSUME ResetTaken(r) PROVE Proofs'
  <2>1. db'.row = db.row /\ req[r] # Pages!Idle /\ req[r].op = "reset" /\ Took(r, {l \in Logins : db.reset[l] = req[r].token})
    BY <1>5, ResetTakenIs DEF SameRows
  <2>2. loginsPast'.proved = loginsPast.proved /\ loginsPast'.born = loginsPast.born /\ (req'[r] = Pages!Idle \/ req'[r].acct = None)
    BY <2>1, TookIs DEF SameProofs
  <2> QED BY <1>1, <2>1, <2>2
<1>6. ASSUME ChangeTaken(r) PROVE Proofs'
  <2>1. db'.row = db.row /\ req[r] # Pages!Idle /\ req[r].op = "move" /\ Took(r, {l \in Logins : db.change[l].token = req[r].token})
    BY <1>6, ChangeTakenIs DEF SameRows
  <2>2. loginsPast'.proved = loginsPast.proved /\ loginsPast'.born = loginsPast.born /\ (req'[r] = Pages!Idle \/ req'[r].acct = None)
    BY <2>1, TookIs DEF SameProofs
  <2> QED BY <1>1, <2>1, <2>2
<1>7. ASSUME Gone(r) PROVE Proofs'
  <2>1. loginsPast'.proved = loginsPast.proved /\ loginsPast'.born = loginsPast.born /\ (\A l \in Logins : db'.row[l] \in {db.row[l], None})
        /\ req'[r] = Pages!Idle
    BY <1>7, GoneIs DEF Gone, SameProofs, SameHistory
  <2> QED BY <1>1, <2>1
<1>8. ASSUME NEW new \in Pages!Row, Saved(r, new) PROVE Proofs'
  BY <1>0, <1>8, SavedProofs
<1>9. ASSUME NEW m \in Pages!Letter, Sent(r, m) PROVE Proofs'
  <2>1. loginsPast' = loginsPast /\ db' = db /\ req'[r] = Pages!Idle
    BY <1>9 DEF Sent
  <2> QED BY <1>1, <2>1
<1> QED BY <1>2, <1>3, <1>4, <1>5, <1>6, <1>7, <1>8, <1>9 DEF Done, Kinds


-----------------------------------------------------------------------------
(* Accounts: letters, and the links of those who asked for them. *)

(* What a request was asked with stays, or it has a link it just made.       *)
Carries(r) ==
  \/ req'[r] = Pages!Idle
  \/ /\ req[r] # Pages!Idle /\ req'[r].op = req[r].op /\ req'[r].email = req[r].email /\ req'[r].token = req[r].token
     /\ req'[r].op \in {"forgot", "ask"} => req'[r].pc # "send"

LEMMA LettersStay ==
  ASSUME TypesOK, LettersOK, NEW r \in Callers, Only(r, req'[r]), Carries(r),
         loginsPast.minted \in Nat, loginsPast'.minted \in Nat, loginsPast.minted <= loginsPast'.minted, letters \subseteq letters',
         \A m \in letters' : m.token <= loginsPast'.minted,
         \A m \in letters', l \in Logins : m.kind = "change" /\ m.token = db'.change[l].token => m.to = db'.change[l].email,
         \A l \in Logins : db'.reset[l] \in {db.reset[l], 0},
         \A l \in Logins : db'.change[l] = db.change[l] \/ db'.change[l].token = 0
  PROVE  LettersOK'
<1>1. \A s \in Callers : \/ req'[s] = req[s]
                          \/ req'[s].op = "none"
                          \/ /\ req'[s].op = req[s].op /\ req'[s].email = req[s].email /\ req'[s].token = req[s].token
                             /\ req'[s].op \in {"forgot", "ask"} => req'[s].pc # "send"
  BY IdleIs DEF Carries, Only
<1>2. /\ \A s \in Callers : req'[s].op = "reset" => [kind |-> "reset", to |-> req'[s].email, token |-> req'[s].token] \in letters'
      /\ \A s \in Callers : req'[s].op = "move" => [kind |-> "change", to |-> req'[s].email, token |-> req'[s].token] \in letters'
      /\ \A s \in Callers : req'[s].op = "confirm" => [kind |-> "verify", to |-> req'[s].email, token |-> req'[s].token] \in letters'
  BY <1>1 DEF LettersOK
<1>3. ASSUME NEW s \in Callers, req'[s].op = "forgot", req'[s].pc = "send"
      PROVE  req'[s].token <= loginsPast'.minted /\ \A l \in Logins : db'.reset[l] = req'[s].token => l = req'[s].login
  <2>1. req'[s] = req[s] /\ req[s].token \in Pages!Tokens
    BY <1>1, <1>3, ActiveIs, IdleIs DEF Knows
  <2>2. req[s].token <= loginsPast.minted /\ \A l \in Logins : db.reset[l] = req[s].token => l = req[s].login
    BY <1>3, <2>1 DEF LettersOK
  <2> QED BY <2>1, <2>2 DEF Pages!Tokens
<1>4. ASSUME NEW s \in Callers, req'[s].op = "ask", req'[s].pc = "send"
      PROVE  req'[s].token <= loginsPast'.minted
             /\ \A l \in Logins : db'.change[l].token = req'[s].token => db'.change[l].email = req'[s].email
  <2>1. req'[s] = req[s] /\ req[s].token \in Pages!Tokens
    BY <1>1, <1>4, ActiveIs, IdleIs DEF Knows
  <2>2. req[s].token <= loginsPast.minted
        /\ \A l \in Logins : db.change[l].token = req[s].token => db.change[l].email = req[s].email
    BY <1>4, <2>1 DEF LettersOK
  <2> QED BY <2>1, <2>2 DEF Pages!Tokens
<1> QED BY <1>2, <1>3, <1>4 DEF LettersOK

LEMMA LettersKept ==
  ASSUME TypesOK, ClaimsOK, LinksOK, LettersOK, NEW r \in Callers, Done(r) PROVE LettersOK'
<1>0. Only(r, req'[r]) /\ ReqOK(req'[r]) /\ loginsPast.minted \in Nat /\ Pages!Mint = loginsPast.minted + 1
  BY MintIs DEF Done, Pages!Mint
<1>t. \A m \in letters : m.token \in Nat /\ m.token # 0 /\ m.token <= loginsPast.minted
  BY DEF TypesOK, Pages!Letter, Pages!Tokens, LettersOK
<1>1. ASSUME Carries(r), letters' = letters, loginsPast'.minted \in {loginsPast.minted, Pages!Mint},
             \A l \in Logins : db'.reset[l] \in {db.reset[l], 0},
             \A l \in Logins : db'.change[l] = db.change[l] \/ db'.change[l].token = 0
      PROVE  LettersOK'
  <2>1. \A m \in letters' : m.token <= loginsPast'.minted
    BY <1>0, <1>t, <1>1
  <2>2. \A m \in letters', l \in Logins : m.kind = "change" /\ m.token = db'.change[l].token => m.to = db'.change[l].email
    BY <1>t, <1>1 DEF LettersOK
  <2>3. loginsPast'.minted \in Nat /\ loginsPast.minted <= loginsPast'.minted
    BY <1>0, <1>1
  <2> QED BY <1>0, <1>1, <2>1, <2>2, <2>3, LettersStay
<1>2. ASSUME Like(req[r], req'[r]) PROVE Carries(r)
  BY <1>2 DEF Like, Carries
<1>3. ASSUME Quiet(r) \/ Peopled(r) \/ Ended(r) \/ Started(r) PROVE LettersOK'
  <2>1. letters' = letters /\ db'.reset = db.reset /\ db'.change = db.change /\ loginsPast'.minted \in {loginsPast.minted, Pages!Mint}
    BY <1>3, QuietIs, PeopledIs, EndedIs, StartedIs DEF SameLinks
  <2>2. Carries(r)
    BY <1>2, <1>3 DEF Quiet, Peopled, Ended, Started, Carries
  <2> QED BY <1>1, <2>1, <2>2
<1>4. ASSUME NEW new \in Pages!Row, Saved(r, new) PROVE LettersOK'
  <2>1. letters' = letters /\ db'.reset = db.reset /\ db'.change = db.change /\ loginsPast'.minted \in {loginsPast.minted, Pages!Mint}
    BY <1>4, SavedIs DEF SameLinks
  <2>2. Carries(r)
    BY <1>4 DEF Saved, Carries
  <2> QED BY <1>1, <2>1, <2>2
<1>5. ASSUME ResetTaken(r) PROVE LettersOK'
  <2>1. /\ db'.change = db.change /\ letters' = letters /\ \A l \in Logins : db'.reset[l] \in {db.reset[l], 0}
        /\ req[r] # Pages!Idle /\ req[r].op = "reset" /\ Took(r, {l \in Logins : db.reset[l] = req[r].token})
    BY <1>5, ResetTakenIs
  <2>2. Carries(r) /\ loginsPast'.minted = loginsPast.minted
    BY <2>1, TookIs DEF Carries
  <2> QED BY <1>1, <2>1, <2>2
<1>6. ASSUME ChangeTaken(r) PROVE LettersOK'
  <2>1. /\ db'.reset = db.reset /\ letters' = letters
        /\ req[r] # Pages!Idle /\ req[r].op = "move" /\ Took(r, {l \in Logins : db.change[l].token = req[r].token})
    BY <1>6, ChangeTakenIs
  <2>2. Carries(r) /\ loginsPast'.minted = loginsPast.minted
    BY <2>1, TookIs DEF Carries
  <2>3. \A l \in Logins : db'.change[l] = db.change[l] \/ db'.change[l] = [token |-> 0]
    BY <1>6, ChangeTakenIs
  <2>4. \A l \in Logins : db'.change[l] = db.change[l] \/ db'.change[l].token = 0
    BY <2>3
  <2> QED BY <1>1, <2>1, <2>2, <2>4
<1>7. ASSUME Gone(r) PROVE LettersOK'
  <2>1. /\ \A l \in Logins : db'.change[l] = db.change[l] \/ db'.change[l] = [token |-> 0]
        /\ \A l \in Logins : db'.reset[l] \in {db.reset[l], 0}
        /\ letters' = letters /\ loginsPast'.minted = loginsPast.minted
    BY <1>7, GoneIs
  <2>2. \A l \in Logins : db'.change[l] = db.change[l] \/ db'.change[l].token = 0
    BY <2>1
  <2>3. Carries(r)
    BY <1>7 DEF Gone, Carries
  <2> QED BY <1>1, <2>1, <2>2, <2>3
<1>8. ASSUME ResetMade(r) PROVE LettersOK'
  <2> DEFINE l == req[r].login
  <2>0. /\ db'.change = db.change /\ db'.reset[l] = Pages!Mint /\ (\A k \in Logins \ {l} : db'.reset[k] = db.reset[k])
        /\ letters' = letters /\ loginsPast'.minted = Pages!Mint
    BY <1>8, ResetMadeIs
  <2>1. req'[r].op = "forgot" /\ req'[r].login = l /\ req'[r].token = Pages!Mint
    BY <1>8 DEF ResetMade
  <2>2. \A s \in Callers \ {r} : req'[s] = req[s]
    BY <1>0 DEF Only
  <2>3. /\ \A m \in letters' : m.token <= loginsPast'.minted
        /\ \A m \in letters', k \in Logins : m.kind = "change" /\ m.token = db'.change[k].token => m.to = db'.change[k].email
    BY <1>0, <1>t, <2>0 DEF LettersOK
  <2>4. /\ \A s \in Callers : req'[s].op = "reset" => [kind |-> "reset", to |-> req'[s].email, token |-> req'[s].token] \in letters'
        /\ \A s \in Callers : req'[s].op = "move" => [kind |-> "change", to |-> req'[s].email, token |-> req'[s].token] \in letters'
        /\ \A s \in Callers : req'[s].op = "confirm" => [kind |-> "verify", to |-> req'[s].email, token |-> req'[s].token] \in letters'
    BY <2>0, <2>1, <2>2 DEF LettersOK
  <2>m. \A k \in Logins : db.reset[k] \in Nat /\ db.reset[k] <= loginsPast.minted
    BY <1>0 DEF LinksOK, TypesOK, DbOK
  <2>5. ASSUME NEW s \in Callers, req'[s].op = "forgot", req'[s].pc = "send"
        PROVE  req'[s].token <= loginsPast'.minted /\ \A k \in Logins : db'.reset[k] = req'[s].token => k = req'[s].login
    <3>1. CASE s = r
      BY <1>0, <2>0, <2>1, <2>m, <3>1
    <3>2. CASE s # r
      <4>1. req'[s] = req[s] /\ req[s].token \in Nat
        BY <2>2, <2>5, <3>2, ActiveIs, IdleIs DEF Request
      <4>2. req[s].token <= loginsPast.minted /\ \A k \in Logins : db.reset[k] = req[s].token => k = req[s].login
        BY <2>5, <4>1 DEF LettersOK
      <4> QED BY <1>0, <2>0, <4>1, <4>2
    <3> QED BY <3>1, <3>2
  <2>6. ASSUME NEW s \in Callers, req'[s].op = "ask", req'[s].pc = "send"
        PROVE  req'[s].token <= loginsPast'.minted
               /\ \A k \in Logins : db'.change[k].token = req'[s].token => db'.change[k].email = req'[s].email
    <3>1. req'[s] = req[s] /\ req[s].token \in Nat
      BY <2>1, <2>2, <2>6, ActiveIs, IdleIs DEF Request
    <3>2. req[s].token <= loginsPast.minted
          /\ \A k \in Logins : db.change[k].token = req[s].token => db.change[k].email = req[s].email
      BY <2>6, <3>1 DEF LettersOK
    <3> QED BY <1>0, <2>0, <3>1, <3>2
  <2> QED BY <2>3, <2>4, <2>5, <2>6 DEF LettersOK
<1>9. ASSUME ChangeMade(r) PROVE LettersOK'
  <2> DEFINE l == req[r].login
  <2>0. /\ db'.reset = db.reset /\ db'.change[l] = [token |-> Pages!Mint, email |-> req[r].email]
        /\ \A k \in Logins \ {l} : db'.change[k] = db.change[k]
        /\ letters' = letters /\ loginsPast'.minted = Pages!Mint
    BY <1>9, ChangeMadeIs
  <2>1. req'[r].op = "ask" /\ req'[r].token = Pages!Mint /\ req'[r].email = req[r].email
    BY <1>9 DEF ChangeMade
  <2>2. \A s \in Callers \ {r} : req'[s] = req[s]
    BY <1>0 DEF Only
  <2>c. db'.change[l].token = Pages!Mint /\ db'.change[l].email = req[r].email
    BY <2>0
  <2> HIDE DEF l
  <2>3. /\ \A m \in letters' : m.token <= loginsPast'.minted
        /\ \A m \in letters', k \in Logins : m.kind = "change" /\ m.token = db'.change[k].token => m.to = db'.change[k].email
    <3>1. \A m \in letters : m.token # Pages!Mint
      BY <1>0, <1>t
    <3>2. \A m \in letters : m.token <= Pages!Mint
      BY <1>0, <1>t
    <3>3. ASSUME NEW m \in letters, NEW k \in Logins, m.kind = "change", m.token = db'.change[k].token
          PROVE  m.to = db'.change[k].email
      BY <2>0, <2>c, <3>1, <3>3 DEF LettersOK
    <3> QED BY <2>0, <3>2, <3>3
  <2>4. /\ \A s \in Callers : req'[s].op = "reset" => [kind |-> "reset", to |-> req'[s].email, token |-> req'[s].token] \in letters'
        /\ \A s \in Callers : req'[s].op = "move" => [kind |-> "change", to |-> req'[s].email, token |-> req'[s].token] \in letters'
        /\ \A s \in Callers : req'[s].op = "confirm" => [kind |-> "verify", to |-> req'[s].email, token |-> req'[s].token] \in letters'
    BY <2>0, <2>1, <2>2 DEF LettersOK
  <2>m. \A k \in Logins : db.change[k].token \in Nat /\ db.change[k].token <= loginsPast.minted
    BY <1>0 DEF LinksOK, TypesOK, DbOK, Link, Pages!Tokens
  <2>5. ASSUME NEW s \in Callers, req'[s].op = "ask", req'[s].pc = "send"
        PROVE  req'[s].token <= loginsPast'.minted
               /\ \A k \in Logins : db'.change[k].token = req'[s].token => db'.change[k].email = req'[s].email
    <3>1. CASE s = r
      <4>1. \A k \in Logins \ {l} : db'.change[k].token # Pages!Mint
        BY <1>0, <2>0, <2>m
      <4> QED BY <1>0, <2>0, <2>1, <2>c, <3>1, <4>1
    <3>2. CASE s # r
      <4>1. req'[s] = req[s] /\ req[s].token \in Nat
        BY <2>2, <2>5, <3>2, ActiveIs, IdleIs DEF Request
      <4>2. req[s].token <= loginsPast.minted
            /\ \A k \in Logins : db.change[k].token = req[s].token => db.change[k].email = req[s].email
        BY <2>5, <4>1 DEF LettersOK
      <4>3. req[s].token # Pages!Mint
        BY <1>0, <4>1, <4>2
      <4>4. \A k \in Logins : db'.change[k].token = req[s].token => db'.change[k].email = req[s].email
        BY <2>0, <2>c, <4>2, <4>3
      <4> QED BY <1>0, <2>0, <4>1, <4>2, <4>4
    <3> QED BY <3>1, <3>2
  <2>6. ASSUME NEW s \in Callers, req'[s].op = "forgot", req'[s].pc = "send"
        PROVE  req'[s].token <= loginsPast'.minted /\ \A k \in Logins : db'.reset[k] = req'[s].token => k = req'[s].login
    <3>1. req'[s] = req[s] /\ req[s].token \in Nat
      BY <2>1, <2>2, <2>6, ActiveIs, IdleIs DEF Request
    <3>2. req[s].token <= loginsPast.minted /\ \A k \in Logins : db.reset[k] = req[s].token => k = req[s].login
      BY <2>6, <3>1 DEF LettersOK
    <3> QED BY <1>0, <2>0, <3>1, <3>2
  <2> QED BY <2>3, <2>4, <2>5, <2>6 DEF LettersOK
<1>10. ASSUME NEW m \in Pages!Letter, Sent(r, m) PROVE LettersOK'
  <2>1. UNCHANGED <<db, loginsPast>> /\ req'[r] = Pages!Idle /\ letters' = letters \cup {m} /\ req[r] # Pages!Idle /\ req[r].pc = "send"
    BY <1>10 DEF Sent
  <2>2. m.token <= loginsPast.minted
    <3>1. ASSUME m.kind = "verify" PROVE m.token <= loginsPast.minted
      <4>1. req[r].acct \in Pages!Row /\ m.to = req[r].acct.email /\ m.token = req[r].acct.token
        BY <1>10, <2>1, <3>1, ActiveIs DEF Sent, Knows, Begun
      <4>2. Claims(m.token, m.to)
        BY <2>1, <4>1, ConstantsAre DEF Claims, Holds
      <4> QED BY <4>2 DEF ClaimsOK, Pages!Letter
    <3>2. ASSUME m.kind = "reset" \/ m.kind = "change" PROVE m.token <= loginsPast.minted
      BY <1>10, <2>1, <3>2 DEF Sent, LettersOK
    <3> QED BY <1>10, <3>1, <3>2 DEF Sent
  <2>3. \A l \in Logins : m.kind = "change" /\ m.token = db.change[l].token => m.to = db.change[l].email
    BY <1>10, <2>1 DEF Sent, LettersOK
  <2>4. Carries(r)
    BY <2>1 DEF Carries
  <2>5. /\ \A k \in letters' : k.token <= loginsPast'.minted
        /\ \A k \in letters', l \in Logins : k.kind = "change" /\ k.token = db'.change[l].token => k.to = db'.change[l].email
    BY <2>1, <2>2, <2>3 DEF LettersOK
  <2>6. loginsPast'.minted = loginsPast.minted /\ letters \subseteq letters' /\ db' = db
    BY <2>1
  <2> QED BY <1>0, <2>4, <2>5, <2>6, LettersStay
<1>11. ASSUME Opened(r) PROVE LettersOK'
  <2>1. /\ db' = db /\ letters' = letters /\ loginsPast'.minted = loginsPast.minted
    BY <1>0, <1>11, OpenedIs
  <2>2. /\ req'[r].op = "reset" => [kind |-> "reset", to |-> req'[r].email, token |-> req'[r].token] \in letters
        /\ req'[r].op = "move" => [kind |-> "change", to |-> req'[r].email, token |-> req'[r].token] \in letters
        /\ req'[r].op = "confirm" => [kind |-> "verify", to |-> req'[r].email, token |-> req'[r].token] \in letters
        /\ req'[r].pc # "send"
    BY <1>11 DEF Opened
  <2>3. \A s \in Callers \ {r} : req'[s] = req[s]
    BY <1>0 DEF Only
  <2>4. /\ \A s \in Callers : req'[s].op = "reset" => [kind |-> "reset", to |-> req'[s].email, token |-> req'[s].token] \in letters
        /\ \A s \in Callers : req'[s].op = "move" => [kind |-> "change", to |-> req'[s].email, token |-> req'[s].token] \in letters
        /\ \A s \in Callers : req'[s].op = "confirm" => [kind |-> "verify", to |-> req'[s].email, token |-> req'[s].token] \in letters
    BY <2>2, <2>3 DEF LettersOK
  <2>5. /\ \A s \in Callers : req'[s].op = "forgot" /\ req'[s].pc = "send" =>
             req'[s].token <= loginsPast.minted /\ \A l \in Logins : db.reset[l] = req'[s].token => l = req'[s].login
        /\ \A s \in Callers : req'[s].op = "ask" /\ req'[s].pc = "send" =>
             req'[s].token <= loginsPast.minted /\ \A l \in Logins : db.change[l].token = req'[s].token => db.change[l].email = req'[s].email
    BY <2>2, <2>3 DEF LettersOK
  <2> QED BY <2>1, <2>4, <2>5 DEF LettersOK
<1> QED BY <1>3, <1>4, <1>5, <1>6, <1>7, <1>8, <1>9, <1>10, <1>11 DEF Done, Kinds


-----------------------------------------------------------------------------
(* Accounts: whoever is signed in has proved an address. *)

LEMMA EnteredStay ==
  ASSUME TypesOK, Entered, NEW r \in Callers, Only(r, req'[r]),
         \A l \in Logins : loginsPast.proved[l] \subseteq loginsPast'.proved[l],
         \A s \in db'.session : \E t \in db.session : s.login = t.login,
         \A l \in Logins : db'.change[l].token # 0 => db'.change[l] = db.change[l],
         In(req'[r]) => req'[r].login \in Logins /\ loginsPast.proved[req'[r].login] # {}
  PROVE  Entered'
<1>1. \A s \in db'.session : loginsPast'.proved[s.login] # {}
  <2>1. \A t \in db.session : t.login \in Logins
    BY DEF TypesOK, DbOK, SessionRow
  <2> QED BY <2>1 DEF Entered
<1>2. \A l \in Logins : db'.change[l].token # 0 => loginsPast'.proved[l] # {}
  BY DEF Entered
<1>3. ASSUME NEW s \in Callers, In(req'[s]) PROVE loginsPast'.proved[req'[s].login] # {}
  <2>1. CASE s = r
    BY <1>3, <2>1
  <2>2. CASE s # r
    <3>1. req'[s] = req[s] /\ In(req[s])
      BY <1>3, <2>2 DEF Only
    <3>2. req[s].login \in Logins
      BY <3>1, ActiveIs, IdleIs DEF In, Knows, Begun, Reads, Signed
    <3> QED BY <3>1, <3>2 DEF Entered
  <2> QED BY <2>1, <2>2
<1> QED BY <1>1, <1>2, <1>3 DEF Entered, In

LEMMA EnteredKept ==
  ASSUME TypesOK, ClaimsOK, LinksOK, Proofs, Entered, NEW r \in Callers, Done(r) PROVE Entered'
<1>0. Only(r, req'[r]) /\ ReqOK(req'[r])
  BY DEF Done
<1>i. ~In(Pages!Idle)
  BY IdleIs DEF In, Signed
<1>1. ASSUME loginsPast'.proved = loginsPast.proved, db'.session = db.session, db'.change = db.change,
             In(req'[r]) => req'[r].login \in Logins /\ loginsPast.proved[req'[r].login] # {}
      PROVE  Entered'
  BY <1>0, <1>1, EnteredStay
<1>2. ASSUME Like(req[r], req'[r]), In(req'[r]) PROVE req'[r].login \in Logins /\ loginsPast.proved[req'[r].login] # {}
  <2>1. CASE In(req[r]) /\ req'[r].login = req[r].login
    <3>1. req[r].login \in Logins
      BY <2>1, ActiveIs, IdleIs DEF In, Knows, Begun, Reads, Signed
    <3> QED BY <2>1, <3>1 DEF Entered
  <2>2. CASE \E s \in db.session : req'[r].login = s.login
    BY <2>2 DEF Entered, TypesOK, DbOK, SessionRow
  <2> QED BY <1>2, <1>i, <2>1, <2>2 DEF Like
<1>3. ASSUME Quiet(r) PROVE Entered'
  <2>1. loginsPast'.proved = loginsPast.proved /\ db' = db /\ Like(req[r], req'[r])
    BY <1>3, QuietIs DEF SameProofs, Quiet
  <2> QED BY <1>1, <1>2, <2>1
<1>4. ASSUME Peopled(r) PROVE Entered'
  <2>1. loginsPast' = loginsPast /\ db'.session = db.session /\ db'.change = db.change /\ Like(req[r], req'[r])
    BY <1>4, PeopledIs DEF SameLinks, Peopled
  <2> QED BY <1>1, <1>2, <2>1
<1>5. ASSUME Ended(r) PROVE Entered'
  <2>1. loginsPast' = loginsPast /\ db'.change = db.change /\ req'[r] = Pages!Idle /\ \A s \in db'.session : \E t \in db.session : s.login = t.login
    BY <1>5, EndedIs DEF SameLinks, Ended
  <2> QED BY <1>0, <1>i, <2>1, EnteredStay
<1>6. ASSUME Started(r) PROVE Entered'
  <2> DEFINE x == [token |-> Pages!Mint, login |-> req[r].login, gen |-> req[r].gen]
  <2>1. /\ loginsPast'.proved = loginsPast.proved /\ db'.change = db.change /\ req'[r] = Pages!Idle /\ db'.session = db.session \cup {x}
    BY <1>6, StartedIs DEF SameLinks, SameProofs, Started
  <2>2. req[r] # Pages!Idle /\ req[r].pc = "session"
    BY <1>6, IdleIs DEF Started
  <2>3. req[r].acct \in Pages!Row /\ req[r].acct.verified /\ req[r].login \in Logins
    BY <2>2, ActiveIs DEF Knows, Begun, Reads, Signed
  <2>4. loginsPast.proved[req[r].login] # {}
    BY <2>2, <2>3, ConstantsAre DEF Proofs, Holds
  <2>5. \A s \in db'.session : loginsPast'.proved[s.login] # {}
    BY <2>1, <2>4 DEF Entered
  <2>6. \A s \in Callers : In(req'[s]) => In(req[s]) /\ req'[s] = req[s]
    BY <1>0, <1>i, <2>1 DEF Only
  <2> QED BY <2>1, <2>5, <2>6 DEF Entered
<1>7. ASSUME NEW new \in Pages!Row, Saved(r, new) PROVE Entered'
  <2> DEFINE l == req[r].login
  <2>1. /\ db'.session = db.session /\ db'.change = db.change
        /\ loginsPast.proved[l] \subseteq loginsPast'.proved[l] /\ \A m \in Logins \ {l} : loginsPast'.proved[m] = loginsPast.proved[m]
    BY <1>7, SavedIs DEF SameLinks
  <2>2. ~In(req'[r])
    BY <1>7, <1>i DEF Saved, Reads, Signed, In
  <2>3. \A m \in Logins : loginsPast.proved[m] \subseteq loginsPast'.proved[m]
    BY <2>1
  <2> QED BY <1>0, <2>1, <2>2, <2>3, EnteredStay
<1>8. ASSUME ResetMade(r) PROVE Entered'
  <2>1. loginsPast'.proved = loginsPast.proved /\ db'.session = db.session /\ db'.change = db.change
    BY <1>8, ResetMadeIs DEF SameProofs
  <2>2. ~In(req'[r])
    BY <1>8 DEF ResetMade, In, Signed
  <2> QED BY <1>1, <2>1, <2>2
<1>9. ASSUME ChangeMade(r) PROVE Entered'
  <2> DEFINE l == req[r].login
  <2>1. /\ loginsPast'.proved = loginsPast.proved /\ db'.session = db.session
        /\ \A m \in Logins \ {l} : db'.change[m] = db.change[m]
    BY <1>9, ChangeMadeIs DEF SameProofs
  <2>2. In(req[r]) /\ req'[r].login = l /\ l \in Logins
    BY <1>9 DEF ChangeMade, In
  <2>3. loginsPast.proved[l] # {}
    BY <2>2 DEF Entered
  <2>4. \A m \in Logins : db'.change[m].token # 0 => loginsPast'.proved[m] # {}
    BY <2>1, <2>3 DEF Entered
  <2>5. \A s \in Callers : In(req'[s]) => loginsPast'.proved[req'[s].login] # {}
    BY <1>0, <2>1, <2>2, <2>3 DEF Entered, Only
  <2>6. \A s \in db'.session : loginsPast'.proved[s.login] # {}
    BY <2>1 DEF Entered
  <2> QED BY <2>4, <2>5, <2>6 DEF Entered, In
<1>10. ASSUME ResetTaken(r) PROVE Entered'
  <2>1. /\ db'.session = db.session /\ db'.change = db.change
        /\ req[r] # Pages!Idle /\ req[r].op = "reset" /\ Took(r, {l \in Logins : db.reset[l] = req[r].token})
    BY <1>10, ResetTakenIs
  <2>2. loginsPast'.proved = loginsPast.proved /\ (req'[r] = Pages!Idle \/ req'[r].op = "reset")
    BY <2>1, TookIs DEF SameProofs
  <2>3. ~In(req'[r])
    BY <1>i, <2>2 DEF In, Signed
  <2> QED BY <1>1, <2>1, <2>2, <2>3
<1>11. ASSUME ChangeTaken(r) PROVE Entered'
  <2> DEFINE fits == {l \in Logins : db.change[l].token = req[r].token}
  <2>1. /\ db'.session = db.session
        /\ req[r] # Pages!Idle /\ req[r].op = "move" /\ Took(r, fits)
    BY <1>11, ChangeTakenIs
  <2>2. loginsPast'.proved = loginsPast.proved /\ (req'[r] = Pages!Idle \/ req'[r].login \in fits)
    BY <2>1, TookIs DEF SameProofs
  <2>t. req[r].token # 0
    BY <2>1, ActiveIs DEF Knows, Pages!Tokens
  <2>3. In(req'[r]) => req'[r].login \in Logins /\ loginsPast.proved[req'[r].login] # {}
    BY <1>i, <2>2, <2>t DEF Entered
  <2>4. \A l \in Logins : db'.change[l] = db.change[l] \/ db'.change[l] = [token |-> 0]
    BY <1>11, ChangeTakenIs
  <2>5. \A l \in Logins : db'.change[l].token # 0 => db'.change[l] = db.change[l]
    BY <2>4
  <2> QED BY <1>0, <2>1, <2>2, <2>3, <2>5, EnteredStay
<1>12. ASSUME Gone(r) PROVE Entered'
  <2>1. /\ loginsPast'.proved = loginsPast.proved /\ db'.session \subseteq db.session /\ req'[r] = Pages!Idle
        /\ \A l \in Logins : db'.change[l] = db.change[l] \/ db'.change[l] = [token |-> 0]
    BY <1>12, GoneIs DEF SameProofs, Gone
  <2>2. \A l \in Logins : db'.change[l].token # 0 => db'.change[l] = db.change[l]
    BY <2>1
  <2> QED BY <1>0, <1>i, <2>1, <2>2, EnteredStay
<1>13. ASSUME Opened(r) PROVE Entered'
  <2>1. loginsPast'.proved = loginsPast.proved /\ db' = db
    BY <1>0, <1>13, OpenedIs DEF SameProofs
  <2>2. ~In(req'[r])
    BY <1>13 DEF Opened, In, Signed
  <2> QED BY <1>1, <2>1, <2>2
<1>14. ASSUME NEW m \in Pages!Letter, Sent(r, m) PROVE Entered'
  <2>1. loginsPast' = loginsPast /\ db' = db /\ req'[r] = Pages!Idle
    BY <1>14 DEF Sent
  <2> QED BY <1>1, <1>i, <2>1
<1> QED BY <1>3, <1>4, <1>5, <1>6, <1>7, <1>8, <1>9, <1>10, <1>11, <1>12, <1>13, <1>14 DEF Done, Kinds


-----------------------------------------------------------------------------
(* Accounts: a refused sign-up leaves nobody behind. *)

(* A sign-up that has stored its person and not yet its row.                 *)
Signing(q, l) == q.op = "register" /\ q.login = l /\ q.pc \in {"save", "undo"}

LEMMA NobodyStays ==
  ASSUME Pages!NobodyLeft, NEW r \in Callers, Only(r, req'[r]), loginsPast.broken = 0 \/ loginsPast'.broken # 0,
         loginsPast.had \subseteq loginsPast'.had, db'.person \subseteq db.person,
         loginsPast'.broken # 0 \/ \A l \in db'.person : Signing(req[r], l) => l \in loginsPast'.had \/ Signing(req'[r], l)
  PROVE  Pages!NobodyLeft'
<1> SUFFICES ASSUME loginsPast'.broken = 0, NEW l \in db'.person
             PROVE  l \in loginsPast'.had \/ \E s \in Callers : Signing(req'[s], l)
  BY DEF Pages!NobodyLeft, Signing
<1>1. l \in loginsPast.had \/ \E s \in Callers : Signing(req[s], l)
  BY DEF Pages!NobodyLeft, Signing
<1>2. ASSUME NEW s \in Callers, Signing(req[s], l)
      PROVE  l \in loginsPast'.had \/ \E t \in Callers : Signing(req'[t], l)
  BY <1>2 DEF Only
<1> QED BY <1>1, <1>2

LEMMA NobodyKept ==
  ASSUME TypesOK, ClaimsOK, Pages!NobodyLeft, NEW r \in Callers, Done(r) PROVE Pages!NobodyLeft'
<1>0. Only(r, req'[r]) /\ ReqOK(req'[r]) /\ loginsPast.broken \in Nat
  BY DEF Done, TypesOK, PastOK
<1>1. ASSUME loginsPast'.broken = loginsPast.broken, loginsPast.had \subseteq loginsPast'.had, db'.person = db.person,
             \A l \in Logins : ~Signing(req[r], l)
      PROVE  Pages!NobodyLeft'
  <2>1. db.person \subseteq Logins
    BY DEF TypesOK, DbOK
  <2> QED BY <1>0, <1>1, <2>1, NobodyStays
<1>2. ASSUME Quiet(r) PROVE Pages!NobodyLeft'
  <2>1. UNCHANGED db /\ loginsPast'.had = loginsPast.had /\ ((loginsPast'.broken = loginsPast.broken /\ Stays(req[r], req'[r])) \/ loginsPast'.broken # 0)
    BY <1>2, QuietIs DEF SameProofs
  <2>2. ASSUME Stays(req[r], req'[r]), NEW l, Signing(req[r], l) PROVE Signing(req'[r], l)
    <3>1. req'[r].op = "register" /\ req'[r].login = l /\ Pending(req'[r])
      BY <2>2 DEF Stays, Signing, Pending
    <3>2. req'[r].pc # "signout"
      BY <1>0, <3>1, IdleIs DEF ReqOK, Knows, Begun, Reads, Signed
    <3> QED BY <3>1, <3>2 DEF Signing, Pending
  <2> QED BY <1>0, <2>1, <2>2, NobodyStays
<1>3. ASSUME Peopled(r) PROVE Pages!NobodyLeft'
  <2> DEFINE l == req[r].login
  <2>1. loginsPast' = loginsPast /\ req[r].op = "register" /\ l \in Logins
    BY <1>3, PeopledIs DEF Peopled
  <2>2. CASE /\ db'.person = db.person \cup {l}
             /\ req'[r].op = "register" /\ req'[r].pc = "save" /\ req'[r].login = l
    <3>1. Signing(req'[r], l)
      BY <2>2 DEF Signing
    <3> HIDE DEF l
    <3>2. ASSUME loginsPast.broken = 0, NEW k \in db'.person PROVE k \in loginsPast.had \/ \E s \in Callers : Signing(req'[s], k)
      <4>1. CASE k = l
        BY <3>1, <4>1
      <4>2. CASE k # l
        <5>1. ~Signing(req[r], k)
          BY <4>2 DEF Signing, l
        <5>2. k \in loginsPast.had \/ \E s \in Callers : Signing(req[s], k)
          BY <2>2, <3>2, <4>2 DEF Pages!NobodyLeft, Signing
        <5> QED BY <1>0, <5>1, <5>2 DEF Only
      <4> QED BY <4>1, <4>2
    <3> QED BY <2>1, <3>2 DEF Pages!NobodyLeft, Signing
  <2>3. CASE db'.person = db.person \ {l}
    BY <1>0, <2>1, <2>3, NobodyStays DEF Signing
  <2> QED BY <1>3, <2>2, <2>3 DEF Peopled
<1>4. ASSUME Ended(r) PROVE Pages!NobodyLeft'
  BY <1>1, <1>4, EndedIs DEF Ended, Signing
<1>5. ASSUME Started(r) PROVE Pages!NobodyLeft'
  BY <1>1, <1>5, StartedIs DEF Started, Signing, SameProofs
<1>6. ASSUME NEW new \in Pages!Row, Saved(r, new) PROVE Pages!NobodyLeft'
  <2> DEFINE l == req[r].login
  <2>1. db'.person = db.person /\ loginsPast'.broken = loginsPast.broken /\ loginsPast'.had = loginsPast.had \cup {l}
    BY <1>6, SavedIs
  <2>2. \A k \in db'.person : Signing(req[r], k) => k \in loginsPast'.had
    BY <2>1 DEF Signing
  <2> QED BY <1>0, <2>1, <2>2, NobodyStays
<1>7. ASSUME ResetMade(r) \/ ChangeMade(r) PROVE Pages!NobodyLeft'
  <2>1. loginsPast'.broken = loginsPast.broken /\ loginsPast'.had = loginsPast.had /\ db'.person = db.person
    BY <1>7, ResetMadeIs, ChangeMadeIs DEF SameProofs
  <2>2. req[r].op # "register"
    BY <1>7 DEF ResetMade, ChangeMade
  <2> QED BY <1>1, <2>1, <2>2 DEF Signing
<1>8. ASSUME ResetTaken(r) PROVE Pages!NobodyLeft'
  <2>1. db'.person = db.person /\ req[r] # Pages!Idle /\ req[r].op = "reset" /\ Took(r, {l \in Logins : db.reset[l] = req[r].token})
    BY <1>8, ResetTakenIs
  <2>2. loginsPast'.broken = loginsPast.broken /\ loginsPast'.had = loginsPast.had
    BY <2>1, TookIs DEF SameProofs
  <2> QED BY <1>1, <2>1, <2>2 DEF Signing
<1>9. ASSUME ChangeTaken(r) PROVE Pages!NobodyLeft'
  <2>1. db'.person = db.person /\ req[r] # Pages!Idle /\ req[r].op = "move" /\ Took(r, {l \in Logins : db.change[l].token = req[r].token})
    BY <1>9, ChangeTakenIs
  <2>2. loginsPast'.broken = loginsPast.broken /\ loginsPast'.had = loginsPast.had
    BY <2>1, TookIs DEF SameProofs
  <2> QED BY <1>1, <2>1, <2>2 DEF Signing
<1>10. ASSUME Gone(r) PROVE Pages!NobodyLeft'
  BY <1>1, <1>10, GoneIs DEF Gone, Signing, SameProofs
<1>11. ASSUME Opened(r) PROVE Pages!NobodyLeft'
  <2>1. loginsPast'.broken = loginsPast.broken /\ loginsPast'.had = loginsPast.had /\ db' = db /\ req[r].op # "register"
    BY <1>0, <1>11, OpenedIs, IdleIs DEF SameProofs, Opened
  <2> QED BY <1>1, <2>1 DEF Signing
<1>12. ASSUME NEW m \in Pages!Letter, Sent(r, m) PROVE Pages!NobodyLeft'
  BY <1>1, <1>12 DEF Sent, Signing
<1> QED BY <1>2, <1>3, <1>4, <1>5, <1>6, <1>7, <1>8, <1>9, <1>10, <1>11, <1>12 DEF Done, Kinds

-----------------------------------------------------------------------------
(* Accounts: tries stop at the limit; whoever was let in may add one. *)

LEMMA TryingIs ==
  ASSUME NEW e PROVE IsFiniteSet(Trying(e)) /\ Cardinality(Trying(e)) \in Nat /\ Cardinality(Callers) \in Nat
                     /\ Cardinality(Trying(e)) <= Cardinality(Callers)
<1>1. Trying(e) \subseteq Callers /\ IsFiniteSet(Callers)
  BY ConstantsAre DEF Trying
<1> QED BY <1>1, FS_Subset, FS_CardinalityType

LEMMA TriesKept ==
  ASSUME TypesOK, TriesOK, NEW r \in Callers, Done(r) PROVE TriesOK'
<1>0. Only(r, req'[r]) /\ MemOK(mem) /\ MemOK(mem') /\ Tried(r) /\ SigninMax \in Nat \ {0} /\ IsFiniteSet(Callers)
  BY ConstantsAre DEF Done, TypesOK
<1> DEFINE Now(e) == {s \in Callers : Tries(req'[s], e)}
<1> SUFFICES ASSUME NEW e \in Emails
             PROVE  mem'.tries[e] + Cardinality(Now(e)) < SigninMax + Cardinality(Callers)
  BY DEF TriesOK, Trying, Tries
<1>1. mem.tries[e] \in Nat /\ mem'.tries[e] \in Nat
  BY <1>0 DEF MemOK
<1>2. IsFiniteSet(Now(e)) /\ Cardinality(Now(e)) \in Nat /\ Cardinality(Callers) \in Nat
      /\ Cardinality(Now(e)) <= Cardinality(Callers)
  <2>1. Now(e) \subseteq Callers
    OBVIOUS
  <2> HIDE DEF Now
  <2> QED BY <1>0, <2>1, FS_Subset, FS_CardinalityType
<1>3. IsFiniteSet(Trying(e)) /\ Cardinality(Trying(e)) \in Nat
      /\ mem.tries[e] + Cardinality(Trying(e)) < SigninMax + Cardinality(Callers)
  BY TryingIs DEF TriesOK
<1>4. ASSUME mem'.tries[e] <= mem.tries[e], Tries(req'[r], e) => Tries(req[r], e)
      PROVE  mem'.tries[e] + Cardinality(Now(e)) < SigninMax + Cardinality(Callers)
  <2>1. Now(e) \subseteq Trying(e)
    BY <1>0, <1>4 DEF Only, Trying
  <2> HIDE DEF Now
  <2>2. Cardinality(Now(e)) <= Cardinality(Trying(e))
    BY <1>3, <2>1, FS_Subset
  <2> QED BY <1>0, <1>1, <1>2, <1>3, <1>4, <2>2
<1>5. ASSUME mem'.tries[e] = mem.tries[e], mem.tries[e] < SigninMax
      PROVE  mem'.tries[e] + Cardinality(Now(e)) < SigninMax + Cardinality(Callers)
  <2> HIDE DEF Now
  <2> QED BY <1>0, <1>1, <1>2, <1>5
<1>6. ASSUME mem'.tries[e] = mem.tries[e] + 1, ~Tries(req'[r], e), Tries(req[r], e)
      PROVE  mem'.tries[e] + Cardinality(Now(e)) < SigninMax + Cardinality(Callers)
  <2>1. Now(e) \subseteq Trying(e) \ {r} /\ r \in Trying(e)
    BY <1>0, <1>6 DEF Only, Trying
  <2> HIDE DEF Now
  <2>2. IsFiniteSet(Trying(e) \ {r}) /\ Cardinality(Trying(e) \ {r}) = Cardinality(Trying(e)) - 1
    BY <1>3, <2>1, FS_RemoveElement
  <2>3. Cardinality(Now(e)) <= Cardinality(Trying(e)) - 1
    BY <2>1, <2>2, FS_Subset
  <2> QED BY <1>0, <1>1, <1>2, <1>3, <1>6, <2>3
<1>7. ASSUME mem'.tries[e] = mem.tries[e] + 1, ~Tries(req'[r], e), mem.tries[e] < SigninMax
      PROVE  mem'.tries[e] + Cardinality(Now(e)) < SigninMax + Cardinality(Callers)
  <2>1. Now(e) \subseteq Callers \ {r}
    BY <1>0, <1>7 DEF Only
  <2> HIDE DEF Now
  <2>2. IsFiniteSet(Callers \ {r}) /\ Cardinality(Callers \ {r}) = Cardinality(Callers) - 1
    BY <1>0, FS_RemoveElement
  <2>3. Cardinality(Now(e)) <= Cardinality(Callers) - 1
    BY <2>1, <2>2, FS_Subset
  <2> QED BY <1>0, <1>1, <1>2, <1>7, <2>3
<1> QED BY <1>0, <1>4, <1>5, <1>6, <1>7 DEF Tried

-----------------------------------------------------------------------------
(* Accounts: a new password ends the sessions of the old one. *)

(* A new password whose other sessions are still to be ended.                *)
Leaving(q, l) == q # Pages!Idle /\ q.pc = "signout" /\ q.login = l

LEMMA SignedStay ==
  ASSUME TypesOK, SignedOK, NEW r \in Callers, Only(r, req'[r]),
         db'.row = db.row, loginsPast'.gen = loginsPast.gen, loginsPast'.stale \/ ~loginsPast.stale,
         loginsPast'.broken # 0 \/ (loginsPast.broken = 0 /\ \A l \in Logins : Leaving(req[r], l) => Leaving(req'[r], l)),
         db'.session \subseteq db.session
  PROVE  SignedOK'
<1> SUFFICES ASSUME ~loginsPast'.stale, loginsPast'.broken = 0, NEW s \in db'.session
             PROVE  /\ db'.row[s.login] # None /\ db'.row[s.login].verified
                    /\ s.gen = loginsPast'.gen[s.login] \/ \E t \in Callers : Leaving(req'[t], s.login)
  BY DEF SignedOK, Leaving
<1>1. s.login \in Logins
  BY DEF TypesOK, DbOK, SessionRow
<1>2. /\ db.row[s.login] # None /\ db.row[s.login].verified
      /\ s.gen = loginsPast.gen[s.login] \/ \E t \in Callers : Leaving(req[t], s.login)
  BY DEF SignedOK, Leaving
<1>3. ASSUME NEW t \in Callers, Leaving(req[t], s.login) PROVE \E u \in Callers : Leaving(req'[u], s.login)
  BY <1>1, <1>3 DEF Only
<1> QED BY <1>2, <1>3

LEMMA SavedSigned ==
  ASSUME TypesOK, ClaimsOK, SignedOK, NEW r \in Callers, Only(r, req'[r]), NEW new \in Pages!Row, Saved(r, new)
  PROVE  SignedOK'
<1> DEFINE l == req[r].login  q == req[r]
<1>f. l \in Logins
  BY DEF Saved
<1>0. /\ db'.session = db.session /\ db'.row[l] = new /\ (\A m \in Logins \ {l} : db'.row[m] = db.row[m])
      /\ l \in Logins /\ loginsPast'.broken = loginsPast.broken /\ loginsPast'.stale = (loginsPast.stale \/ Pages!Overtaken(r))
      /\ loginsPast'.gen[l] = (IF q.op \in {"register", "reset", "password"} THEN loginsPast.gen[l] + 1 ELSE loginsPast.gen[l])
      /\ \A m \in Logins \ {l} : loginsPast'.gen[m] = loginsPast.gen[m]
  BY <1>f, SavedIs
<1>1. q # Pages!Idle /\ Knows(q) /\ q.pc # "signout"
  BY ActiveIs DEF Saved
<1>2. new # None
  BY ConstantsAre
<1> SUFFICES ASSUME ~loginsPast'.stale, loginsPast'.broken = 0, NEW s \in db'.session
             PROVE  /\ db'.row[s.login] # None /\ db'.row[s.login].verified
                    /\ s.gen = loginsPast'.gen[s.login] \/ \E t \in Callers : Leaving(req'[t], s.login)
  BY DEF SignedOK, Leaving
<1>3. s.login \in Logins
  BY <1>0 DEF TypesOK, DbOK, SessionRow
<1>4. ~loginsPast.stale /\ loginsPast.broken = 0 /\ db.row[l] = q.seen
  BY <1>0 DEF Pages!Overtaken
<1>5. /\ db.row[s.login] # None /\ db.row[s.login].verified
      /\ s.gen = loginsPast.gen[s.login] \/ \E t \in Callers : Leaving(req[t], s.login)
  BY <1>0, <1>4 DEF SignedOK, Leaving
<1>6. (\E t \in Callers : Leaving(req[t], s.login)) => \E t \in Callers : Leaving(req'[t], s.login)
  BY <1>1 DEF Leaving, Only
<1>7. CASE s.login # l
  BY <1>0, <1>3, <1>5, <1>6, <1>7
<1>8. CASE s.login = l
  <2>1. q.acct # None /\ q.seen.verified /\ q.seen # None
    BY <1>1, <1>4, <1>5, <1>8, ConstantsAre DEF Knows
  <2>2. new.verified /\ q.op # "register"
    BY <2>1 DEF Saved
  <2>3. CASE q.op \in {"reset", "password"}
    <3>1. req'[r] # Pages!Idle /\ req'[r].pc = "signout" /\ req'[r].login = l
      BY <2>3 DEF Saved
    <3>2. Leaving(req'[r], s.login)
      BY <1>8, <3>1 DEF Leaving
    <3> QED BY <1>0, <1>2, <1>8, <2>2, <3>2
  <2>4. CASE q.op \notin {"reset", "password"}
    BY <1>0, <1>2, <1>5, <1>6, <1>8, <2>2, <2>4
  <2> QED BY <2>3, <2>4
<1> QED BY <1>7, <1>8

LEMMA StartedSigned ==
  ASSUME TypesOK, SignedOK, NEW r \in Callers, Only(r, req'[r]), Started(r) PROVE SignedOK'
<1> DEFINE l == req[r].login
           x == [token |-> Pages!Mint, login |-> l, gen |-> req[r].gen]
<1>0. /\ db'.row = db.row /\ loginsPast'.gen = loginsPast.gen /\ loginsPast'.broken = loginsPast.broken
      /\ loginsPast'.stale = (loginsPast.stale \/ Pages!Overtaken(r)) /\ db'.session = db.session \cup {x}
  BY StartedIs DEF SameRows, SameProofs
<1>1. req[r] # Pages!Idle /\ req[r].pc = "session" /\ db.row[l] # None
  BY IdleIs DEF Started
<1>2. req[r].seen.verified
  BY <1>1, ActiveIs DEF Knows
<1>x. x.login = l /\ x.gen = req[r].gen
  OBVIOUS
<1> HIDE DEF x
<1> SUFFICES ASSUME ~loginsPast'.stale, loginsPast'.broken = 0, NEW s \in db'.session
             PROVE  /\ db'.row[s.login] # None /\ db'.row[s.login].verified
                    /\ s.gen = loginsPast'.gen[s.login] \/ \E t \in Callers : Leaving(req'[t], s.login)
  BY DEF SignedOK, Leaving
<1>3. ~loginsPast.stale /\ loginsPast.broken = 0 /\ db.row[l] = req[r].seen /\ loginsPast.gen[l] = req[r].gen
  BY <1>0 DEF Pages!Overtaken
<1>4. CASE s = x
  BY <1>0, <1>1, <1>2, <1>3, <1>4, <1>x
<1>5. CASE s \in db.session
  <2>1. /\ db.row[s.login] # None /\ db.row[s.login].verified
        /\ s.gen = loginsPast.gen[s.login] \/ \E t \in Callers : Leaving(req[t], s.login)
    BY <1>3, <1>5 DEF SignedOK, Leaving
  <2>2. (\E t \in Callers : Leaving(req[t], s.login)) => \E t \in Callers : Leaving(req'[t], s.login)
    BY <1>1 DEF Leaving, Only
  <2> QED BY <1>0, <2>1, <2>2
<1> QED BY <1>0, <1>4, <1>5

LEMMA EndedSigned ==
  ASSUME TypesOK, SignedOK, NEW r \in Callers, Only(r, req'[r]), Ended(r) PROVE SignedOK'
<1>0. db'.row = db.row /\ loginsPast' = loginsPast
  BY EndedIs DEF SameRows
<1> SUFFICES ASSUME ~loginsPast.stale, loginsPast.broken = 0, NEW s \in db'.session
             PROVE  /\ db.row[s.login] # None /\ db.row[s.login].verified
                    /\ s.gen = loginsPast.gen[s.login] \/ \E t \in Callers : Leaving(req'[t], s.login)
  BY <1>0 DEF SignedOK, Leaving
<1>1. PICK t \in db.session :
        s.login = t.login /\ (s.gen = loginsPast.gen[s.login] \/ (s = t /\ ~(req[r].pc = "signout" /\ req[r].login = s.login)))
  BY DEF Ended
<1>2. /\ db.row[s.login] # None /\ db.row[s.login].verified
      /\ t.gen = loginsPast.gen[s.login] \/ \E u \in Callers : Leaving(req[u], s.login)
  BY <1>1 DEF SignedOK, Leaving
<1>3. ASSUME s = t, ~(req[r].pc = "signout" /\ req[r].login = s.login), NEW u \in Callers, Leaving(req[u], s.login)
      PROVE  \E v \in Callers : Leaving(req'[v], s.login)
  BY <1>3 DEF Leaving, Only
<1> QED BY <1>1, <1>2, <1>3

LEMMA SignedKept ==
  ASSUME TypesOK, ClaimsOK, SignedOK, NEW r \in Callers, Done(r) PROVE SignedOK'
<1>0. Only(r, req'[r]) /\ ReqOK(req'[r]) /\ loginsPast.broken \in Nat
  BY DEF Done, TypesOK, PastOK
<1>1. ASSUME loginsPast'.broken = loginsPast.broken, loginsPast'.stale = loginsPast.stale, loginsPast'.gen = loginsPast.gen,
             db'.row = db.row, db'.session = db.session, req[r] = Pages!Idle \/ req[r].pc # "signout"
      PROVE  SignedOK'
  <2>1. \A l \in Logins : ~Leaving(req[r], l)
    BY <1>1 DEF Leaving
  <2>2. CASE loginsPast.broken = 0
    BY <1>0, <1>1, <2>1, <2>2, SignedStay
  <2>3. CASE loginsPast.broken # 0
    BY <1>0, <1>1, <2>3, SignedStay
  <2> QED BY <2>2, <2>3
<1>2. ASSUME Quiet(r) PROVE SignedOK'
  <2>1. /\ UNCHANGED db /\ loginsPast'.gen = loginsPast.gen /\ loginsPast'.stale = loginsPast.stale
        /\ (loginsPast'.broken = loginsPast.broken /\ Stays(req[r], req'[r])) \/ loginsPast'.broken # 0
    BY <1>2, QuietIs DEF SameProofs
  <2>2. ASSUME Stays(req[r], req'[r]), NEW l, Leaving(req[r], l) PROVE Leaving(req'[r], l)
    BY <2>2, IdleIs DEF Stays, Pending, Leaving
  <2>3. loginsPast'.broken # 0 \/ (loginsPast.broken = 0 /\ \A l \in Logins : Leaving(req[r], l) => Leaving(req'[r], l))
    BY <2>1, <2>2
  <2> QED BY <1>0, <2>1, <2>3, SignedStay
<1>3. ASSUME Peopled(r) PROVE SignedOK'
  BY <1>1, <1>3, PeopledIs DEF Peopled, SameRows
<1>4. ASSUME Ended(r) PROVE SignedOK'
  BY <1>0, <1>4, EndedSigned
<1>5. ASSUME Started(r) PROVE SignedOK'
  BY <1>0, <1>5, StartedSigned
<1>6. ASSUME NEW new \in Pages!Row, Saved(r, new) PROVE SignedOK'
  BY <1>0, <1>6, SavedSigned
<1>7. ASSUME ResetMade(r) \/ ChangeMade(r) PROVE SignedOK'
  <2>1. /\ loginsPast'.broken = loginsPast.broken /\ loginsPast'.gen = loginsPast.gen /\ loginsPast'.stale = loginsPast.stale
        /\ db'.row = db.row /\ db'.session = db.session
    BY <1>7, ResetMadeIs, ChangeMadeIs DEF SameProofs, SameRows
  <2>2. req[r].pc # "signout"
    BY <1>7 DEF ResetMade, ChangeMade
  <2> QED BY <1>1, <2>1, <2>2
<1>8. ASSUME ResetTaken(r) PROVE SignedOK'
  <2>1. /\ db'.row = db.row /\ db'.session = db.session /\ req[r] # Pages!Idle /\ req[r].op = "reset" /\ req[r].pc = "take"
        /\ Took(r, {l \in Logins : db.reset[l] = req[r].token})
    BY <1>8, ResetTakenIs DEF SameRows
  <2>2. loginsPast'.broken = loginsPast.broken /\ loginsPast'.gen = loginsPast.gen /\ loginsPast'.stale = loginsPast.stale
    BY <2>1, TookIs DEF SameProofs
  <2> QED BY <1>1, <2>1, <2>2
<1>9. ASSUME ChangeTaken(r) PROVE SignedOK'
  <2>1. /\ db'.row = db.row /\ db'.session = db.session /\ req[r] # Pages!Idle /\ req[r].op = "move" /\ req[r].pc = "take"
        /\ Took(r, {l \in Logins : db.change[l].token = req[r].token})
    BY <1>9, ChangeTakenIs DEF SameRows
  <2>2. loginsPast'.broken = loginsPast.broken /\ loginsPast'.gen = loginsPast.gen /\ loginsPast'.stale = loginsPast.stale
    BY <2>1, TookIs DEF SameProofs
  <2> QED BY <1>1, <2>1, <2>2
<1>10. ASSUME Gone(r) PROVE SignedOK'
  <2> DEFINE l == req[r].login
  <2>1. /\ db'.session = {s \in db.session : s.login # l} /\ (\A m \in Logins \ {l} : db'.row[m] = db.row[m])
        /\ loginsPast'.gen = loginsPast.gen /\ loginsPast'.broken = loginsPast.broken /\ loginsPast'.stale = loginsPast.stale
    BY <1>10, GoneIs DEF SameProofs
  <2> HIDE DEF l
  <2> SUFFICES ASSUME ~loginsPast'.stale, loginsPast'.broken = 0, NEW s \in db'.session
               PROVE  /\ db'.row[s.login] # None /\ db'.row[s.login].verified
                      /\ s.gen = loginsPast'.gen[s.login] \/ \E t \in Callers : Leaving(req'[t], s.login)
    BY DEF SignedOK, Leaving
  <2>2. s \in db.session /\ s.login # l /\ s.login \in Logins
    BY <2>1 DEF TypesOK, DbOK, SessionRow
  <2>3. /\ db.row[s.login] # None /\ db.row[s.login].verified
        /\ s.gen = loginsPast.gen[s.login] \/ \E t \in Callers : Leaving(req[t], s.login)
    BY <2>1, <2>2 DEF SignedOK, Leaving
  <2>4. (\E t \in Callers : Leaving(req[t], s.login)) => \E t \in Callers : Leaving(req'[t], s.login)
    BY <1>0, <2>2 DEF Leaving, Only, l
  <2> QED BY <2>1, <2>2, <2>3, <2>4
<1>11. ASSUME Opened(r) PROVE SignedOK'
  <2>1. /\ loginsPast'.broken = loginsPast.broken /\ loginsPast'.gen = loginsPast.gen /\ loginsPast'.stale = loginsPast.stale /\ db' = db /\ req[r] = Pages!Idle
    BY <1>0, <1>11, OpenedIs DEF SameProofs, Opened
  <2> QED BY <1>1, <2>1
<1>12. ASSUME NEW m \in Pages!Letter, Sent(r, m) PROVE SignedOK'
  <2>1. loginsPast' = loginsPast /\ db' = db /\ req[r].pc = "send"
    BY <1>12 DEF Sent
  <2> QED BY <1>1, <2>1
<1> QED BY <1>2, <1>3, <1>4, <1>5, <1>6, <1>7, <1>8, <1>9, <1>10, <1>11, <1>12 DEF Done, Kinds


-----------------------------------------------------------------------------
(* Accounts: the inductive invariant. *)

LEMMA AccFirst == ASSUME Pages!Init PROVE AccIInv
<1>1. /\ mem = [mails |-> [e \in Emails |-> 0], tries |-> [e \in Emails |-> 0]]
      /\ letters = {} /\ req = [r \in Callers |-> Pages!Idle]
  BY DEF Pages!Init
<1>2. PICK owner \in Logins \cup {None}, home \in Emails, p \in Passwords :
       /\ db = [row |-> [l \in Logins |-> IF l = owner THEN [email |-> home, pw |-> p, verified |-> TRUE, token |-> 0]
                                          ELSE None],
                person |-> {owner} \ {None},
                session |-> {[token |-> 1, login |-> l, gen |-> 0] : l \in {owner} \ {None}},
                reset |-> [l \in Logins |-> 0],
                change |-> [l \in Logins |-> [token |-> 0]]]
       /\ loginsPast = [stale |-> FALSE, broken |-> 0, twice |-> FALSE, used |-> {}, minted |-> 1, asked |-> 0,
                  gen |-> [l \in Logins |-> 0], born |-> {owner} \ {None}, had |-> {owner} \ {None}, deleted |-> {},
                  confirmed |-> [l \in Logins |-> 0],
                  proved |-> [l \in Logins |-> IF l = owner THEN {home} ELSE {}]]
  BY DEF Pages!Init
<1> DEFINE row == [email |-> home, pw |-> p, verified |-> TRUE, token |-> 0]
           owners == {owner} \ {None}
<1>3. /\ db.person = owners /\ db.session = {[token |-> 1, login |-> l, gen |-> 0] : l \in owners}
      /\ db.reset = [l \in Logins |-> 0] /\ db.change = [l \in Logins |-> [token |-> 0]]
      /\ db.row = [l \in Logins |-> IF l = owner THEN row ELSE None]
  BY <1>2
<1>4. /\ loginsPast.stale = FALSE /\ loginsPast.broken = 0 /\ loginsPast.twice = FALSE /\ loginsPast.used = {} /\ loginsPast.minted = 1
      /\ loginsPast.gen = [l \in Logins |-> 0] /\ loginsPast.born = owners /\ loginsPast.had = owners
      /\ loginsPast.proved = [l \in Logins |-> IF l = owner THEN {home} ELSE {}]
  BY <1>2
<1>5. row \in Pages!Row /\ row.email = home /\ row.verified /\ row.token = 0 /\ owners \subseteq Logins
  BY DEF Pages!Row
<1> HIDE DEF row
<1>6. \A l \in Logins : (l = owner <=> l \in owners) /\ (db.row[l] # None <=> l \in owners)
  BY <1>3, <1>5, ConstantsAre
<1>7. \A l \in owners : db.row[l] = row /\ loginsPast.proved[l] = {home}
  BY <1>3, <1>4, <1>5
<1>8. \A l \in Logins : l \notin owners => loginsPast.proved[l] = {}
  BY <1>4, <1>6
<1> HIDE DEF owners
<1>v. \A l \in Logins : db.row[l] # None => db.row[l] = row /\ l \in loginsPast.born /\ loginsPast.proved[l] = {home}
  BY <1>4, <1>6, <1>7
<1>10. \A r \in Callers : req[r] = Pages!Idle
  BY <1>1
<1>11. DbOK(db)
  <2>1. db.row \in [Logins -> Pages!Row \cup {None}]
    BY <1>3, <1>5
  <2>2. db.person \in SUBSET Logins /\ db.session \in SUBSET SessionRow
    BY <1>3, <1>5 DEF SessionRow, Pages!Tokens
  <2>3. db.reset \in [Logins -> Nat] /\ db.change \in [Logins -> Link]
    BY <1>3 DEF Link
  <2>4. db = [row |-> db.row, person |-> db.person, session |-> db.session, reset |-> db.reset, change |-> db.change]
    BY <1>2
  <2> QED BY <2>1, <2>2, <2>3, <2>4 DEF DbOK
<1>12. MemOK(mem)
  <2>1. [e \in Emails |-> 0] \in [Emails -> 0 .. MailMax] /\ [e \in Emails |-> 0] \in [Emails -> Nat]
    BY ConstantsAre
  <2> QED BY <1>1, <2>1 DEF MemOK
<1>13. PastOK(loginsPast)
  <2> DEFINE none == [l \in Logins |-> 0]  b == loginsPast.born  h == loginsPast.had  v == loginsPast.proved
  <2>1. v \in [Logins -> SUBSET Emails] /\ b \in SUBSET Logins /\ h \in SUBSET Logins
    BY <1>4, <1>5
  <2>2. none \in [Logins -> Nat] /\ 1 \in Pages!Tokens /\ {} \in SUBSET Pages!Tokens /\ {} \in SUBSET Logins
    BY DEF Pages!Tokens
  <2>3. loginsPast = [stale |-> FALSE, broken |-> 0, twice |-> FALSE, used |-> {}, minted |-> 1, asked |-> 0,
                gen |-> none, born |-> b, had |-> h, deleted |-> {}, confirmed |-> none, proved |-> v]
    BY <1>2
  <2> HIDE DEF none, b, h, v
  <2> QED BY <2>1, <2>2, <2>3 DEF PastOK
<1>14. TypesOK
  BY <1>1, <1>10, <1>11, <1>12, <1>13 DEF TypesOK, ReqOK
<1>15. LinksOK
  BY <1>3, <1>4 DEF LinksOK
<1>16. ClaimsOK
  <2>1. \A l \in Logins : db.row[l] # None => db.row[l].token = 0
    BY <1>5, <1>v
  <2>2. \A t \in Pages!Tokens, e \in Emails : ~Claims(t, e)
    BY <1>1, <1>10, <2>1 DEF Claims, Holds, Pages!Tokens
  <2> QED BY <2>2 DEF ClaimsOK
<1>17. HomesOK
  <2> SUFFICES ASSUME NEW l \in Logins, NEW e \in Emails, Lives(l, e) PROVE l \in loginsPast.born /\ e \in loginsPast.proved[l]
    BY DEF HomesOK
  <2>1. db.row[l] # None /\ db.row[l].email = e
    BY <1>1, <1>10, IdleIs DEF Lives, Holds, Comes
  <2> QED BY <1>5, <1>v, <2>1
<1>18. Proofs
  <2>1. Pages!OwnAddress
    BY <1>5, <1>v DEF Pages!OwnAddress
  <2>2. \A l \in Logins \ loginsPast.born : loginsPast.proved[l] = {}
    BY <1>4, <1>8
  <2> QED BY <1>10, <2>1, <2>2 DEF Proofs, Holds
<1>19. LettersOK
  BY <1>1, <1>10, IdleIs DEF LettersOK
<1>20. Entered
  <2>1. \A s \in db.session : loginsPast.proved[s.login] # {}
    <3> TAKE s \in db.session
    <3>1. PICK l \in owners : s = [token |-> 1, login |-> l, gen |-> 0]
      BY <1>3
    <3> QED BY <1>7, <3>1
  <2>2. \A l \in Logins : db.change[l].token = 0
    BY <1>3
  <2> QED BY <1>10, <2>1, <2>2, IdleIs DEF Entered, In, Signed
<1>21. Pages!NobodyLeft
  BY <1>3, <1>4 DEF Pages!NobodyLeft
<1>22. TriesOK
  <2>1. ASSUME NEW e \in Emails PROVE mem.tries[e] + Cardinality(Trying(e)) < SigninMax + Cardinality(Callers)
    <3>1. mem.tries[e] = 0
      BY <1>1
    <3>2. Cardinality(Trying(e)) \in Nat /\ Cardinality(Callers) \in Nat /\ Cardinality(Trying(e)) <= Cardinality(Callers)
      BY TryingIs
    <3> QED BY <3>1, <3>2, ConstantsAre
  <2> QED BY <2>1 DEF TriesOK
<1>23. SignedOK
  <2> SUFFICES ASSUME NEW s \in db.session
               PROVE  db.row[s.login] # None /\ db.row[s.login].verified /\ s.gen = loginsPast.gen[s.login]
    BY DEF SignedOK
  <2>1. PICK l \in owners : s = [token |-> 1, login |-> l, gen |-> 0]
    BY <1>3
  <2>2. l \in Logins /\ s.login = l /\ s.gen = 0 /\ db.row[l] = row
    BY <1>5, <1>7, <2>1
  <2> QED BY <1>4, <1>5, <2>2, ConstantsAre
<1> QED BY <1>14, <1>15, <1>16, <1>17, <1>18, <1>19, <1>20, <1>21, <1>22, <1>23 DEF AccIInv

LEMMA AccForgets ==
  ASSUME AccIInv, NEW e \in Emails, Pages!Forget(e) PROVE AccIInv'
<1>1. db' = db /\ letters' = letters /\ req' = req /\ loginsPast' = loginsPast /\ mem' = [mem EXCEPT !.tries[e] = 0]
  BY DEF Pages!Forget
<1>2. MemOK(mem') /\ \A f \in Emails : mem'.tries[f] <= mem.tries[f] /\ mem.tries[f] \in Nat /\ mem'.tries[f] \in Nat
  <2>1. MemOK(mem)
    BY DEF AccIInv, TypesOK
  <2>2. mem' = [mem EXCEPT !.tries = [mem.tries EXCEPT ![e] = 0]] /\ [mem.tries EXCEPT ![e] = 0] \in [Emails -> Nat]
    BY <1>1, <2>1 DEF MemOK
  <2> QED BY <2>1, <2>2 DEF MemOK
<1>3. TypesOK'
  BY <1>1, <1>2 DEF AccIInv, TypesOK
<1>4. (LinksOK /\ ClaimsOK /\ HomesOK /\ Proofs /\ LettersOK /\ Entered /\ Pages!NobodyLeft /\ SignedOK)'
  BY <1>1 DEF AccIInv, LinksOK, ClaimsOK, Claims, HomesOK, Lives, Comes, Proofs, Pages!OwnAddress, LettersOK,
     Entered, In,
              Pages!NobodyLeft, SignedOK, Holds
<1>5. TriesOK'
  <2>1. ASSUME NEW f \in Emails PROVE mem'.tries[f] + Cardinality(Trying(f)) < SigninMax + Cardinality(Callers)
    <3>1. mem.tries[f] + Cardinality(Trying(f)) < SigninMax + Cardinality(Callers)
      BY DEF AccIInv, TriesOK
    <3> QED BY <1>2, <3>1, TryingIs, ConstantsAre
  <2> QED BY <1>1, <2>1 DEF TriesOK, Trying, Tries
<1> QED BY <1>3, <1>4, <1>5 DEF AccIInv

LEMMA AccKept ==
  ASSUME AccIInv, Pages!Next PROVE AccIInv'
<1>1. TypesOK /\ LinksOK /\ ClaimsOK /\ HomesOK /\ Proofs /\ LettersOK /\ Entered /\ Pages!NobodyLeft /\ TriesOK /\ SignedOK
  BY DEF AccIInv
<1>2. ASSUME NEW r \in Callers, Done(r) PROVE AccIInv'
  <2>1. TypesOK' /\ LinksOK' /\ ClaimsOK' /\ LettersOK'
    BY <1>1, <1>2, TypesKept, LinksKept, ClaimsKept, LettersKept
  <2>2. HomesOK' /\ Proofs' /\ Entered'
    BY <1>1, <1>2, HomesKept, ProofsKept, EnteredKept
  <2>3. Pages!NobodyLeft' /\ TriesOK' /\ SignedOK'
    BY <1>1, <1>2, NobodyKept, TriesKept, SignedKept
  <2> QED BY <2>1, <2>2, <2>3 DEF AccIInv
<1> QED BY <1>1, <1>2, StepDone, AccForgets

LEMMA AccSame == ASSUME AccIInv, UNCHANGED <<db, mem, letters, req, loginsPast>> PROVE AccIInv'
<1>1. db' = db /\ mem' = mem /\ letters' = letters /\ req' = req /\ loginsPast' = loginsPast
  OBVIOUS
<1>2. (TypesOK /\ LinksOK /\ ClaimsOK /\ HomesOK /\ Proofs /\ LettersOK)'
  BY <1>1 DEF AccIInv, TypesOK, LinksOK, ClaimsOK, Claims, HomesOK, Lives, Comes, Proofs, Pages!OwnAddress,
     LettersOK, Holds
<1>3. (Entered /\ Pages!NobodyLeft /\ TriesOK /\ SignedOK)'
  BY <1>1 DEF AccIInv, Entered, In, Pages!NobodyLeft, TriesOK, Trying, Tries, SignedOK
<1> QED BY <1>2, <1>3 DEF AccIInv

LEMMA AccSays == ASSUME AccIInv PROVE Pages!AccountsInv /\ Pages!SignedOut
<1>1. TypesOK /\ LinksOK /\ Proofs /\ Pages!NobodyLeft /\ TriesOK /\ SignedOK
  BY DEF AccIInv
<1>2. Pages!TypeOK
  <2>1. DbOK(db) /\ MemOK(mem) /\ letters \subseteq Pages!Letter
    BY <1>1 DEF TypesOK
  <2>2. \A l \in Logins : db.reset[l] \in Pages!Tokens \cup {0}
    BY <2>1 DEF DbOK, Pages!Tokens
  <2> QED BY <2>1, <2>2 DEF DbOK, MemOK, SessionRow, Pages!TypeOK
<1>3. Pages!TriesBounded
  <2>1. ASSUME NEW e \in Emails PROVE mem.tries[e] < SigninMax + Cardinality(Callers)
    <3>1. mem.tries[e] + Cardinality(Trying(e)) < SigninMax + Cardinality(Callers) /\ mem.tries[e] \in Nat
      BY <1>1 DEF TriesOK, TypesOK, MemOK
    <3> QED BY <3>1, TryingIs, ConstantsAre
  <2> QED BY <2>1 DEF Pages!TriesBounded, Pages!Cardinality, Cardinality
<1>4. Pages!SignedOut
  BY <1>1 DEF SignedOK, Pages!SignedOut
<1> QED BY <1>1, <1>2, <1>3, <1>4 DEF Pages!AccountsInv, LinksOK, Pages!LinksOnce, Proofs


LoginsIInv == part = "logins" => AccIInv

LEMMA LoginsFirst == ASSUME PersonsInit PROVE LoginsIInv
<1>1. CASE part = "people"
  BY <1>1 DEF LoginsIInv
<1>2. CASE part = "logins" /\ Pages!Init
  BY <1>2, AccFirst DEF LoginsIInv
<1> QED BY <1>1, <1>2 DEF PersonsInit

LEMMA LoginsStep == ASSUME LoginsIInv, [PersonsNext]_personsVars PROVE LoginsIInv'
<1>1. CASE part = "people" /\ part' = part
  BY <1>1 DEF LoginsIInv
<1>2. CASE part = "logins" /\ Pages!Next /\ part' = part
  BY <1>2, AccKept DEF LoginsIInv
<1>3. ASSUME UNCHANGED personsVars PROVE LoginsIInv'
  <2>1. part' = part /\ UNCHANGED <<db, mem, letters, req, loginsPast>>
    BY <1>3 DEF personsVars, loginsVars
  <2> QED BY <2>1, AccSame DEF LoginsIInv
<1> QED BY <1>1, <1>2, <1>3 DEF PersonsNext

LEMMA LoginsAlways == PersonsSpec => []LoginsIInv
<1>1. PersonsInit => LoginsIInv
  BY LoginsFirst
<1>2. LoginsIInv /\ [PersonsNext]_personsVars => LoginsIInv'
  BY LoginsStep
<1> QED BY <1>1, <1>2, PTL DEF PersonsSpec

(* Whatever other requests do between a handler's look at a login's row and   *)
(* its writing of the whole row: a confirmed address was proved by a letter   *)
(* to it, a refused sign-up leaves no person, tries of a password stop at     *)
(* the limit, and a link works once (user.go, account_recovery.go).           *)
THEOREM AccountsHold == PersonsSpec => []AccountsInv
<1>1. LoginsIInv => AccountsInv
  BY AccSays DEF LoginsIInv, AccountsInv
<1> QED BY <1>1, LoginsAlways, PTL

(* After resetPassword or changeMyPassword no session of the old password     *)
(* goes on, unless a handler broke off or wrote over a row that had changed   *)
(* since it read it.                                                          *)
THEOREM SignedOutHolds == PersonsSpec => []SignedOut
<1>1. LoginsIInv => SignedOut
  BY AccSays DEF LoginsIInv, SignedOut
<1> QED BY <1>1, LoginsAlways, PTL
(* People: the inductive invariant. *)

Kinded == {"link", "rename", "redeem", "contact", "merge", "sweep"}
Places == {"find", "insert", "write", "other", "first", "second", "accounts", "commit", "resolve", "save",
           "channel", "choose", "delete"}
Calling ==
  [kind : Kinded, pc : Places, from : 0 .. MaxPerson, to : 0 .. MaxPerson, email : Addresses \cup {None},
   chat : Chats \cup {None}, tries : Nat, rest : SUBSET Folk!Persons, keep : 0 .. MaxPerson]

Merging(c) == c.pc \in {"first", "second", "accounts", "commit"}
Both(c) == c.pc \in {"accounts", "commit"}

(* What a call knows at each of its steps.                                   *)
CallOK(c) ==
  /\ c.kind = "link" => /\ c.email \in Addresses /\ c.from \in Folk!Persons
                        /\ c.pc \in {"find", "insert", "write", "other"} \/ Merging(c)
  /\ c.kind = "rename" => c.pc = "save" /\ c.from \in Folk!Persons
  /\ c.kind = "redeem" => c.pc = "save" /\ c.from \in Folk!Persons /\ c.chat \in Chats
  /\ c.kind = "contact" => c.pc \in {"find", "channel"} /\ c.chat \in Chats /\ (c.pc = "channel" => c.from \in Folk!Persons)
  /\ c.kind = "merge" => /\ c.from \in Folk!Persons /\ c.to \in Folk!Persons /\ (c.rest # {} => c.keep \in Folk!Persons)
                         /\ c.pc = "resolve" \/ Merging(c)
  /\ c.kind = "sweep" => c.pc \in {"choose", "delete"}
  /\ Merging(c) => c.to \in Folk!Persons
  /\ c.pc = "second" \/ Both(c) => c.from # c.to

TablesOK ==
  /\ person \in [Folk!Persons -> Folk!Person \cup {None}]
  /\ channel \in [Chats -> Folk!Channel \cup {None}]
  /\ account \in [Addresses -> Folk!Login \cup {None}]
  /\ note \in [Folk!Persons -> SUBSET Folk!Persons] /\ sorted \subseteq Folk!Persons
  /\ auth \in [Folk!Persons -> Nat]
CallsOK ==
  /\ lock \in [Folk!Persons \cup Addresses -> Callers \cup {None}]
  /\ tx \in [Callers -> {Folk!Idle} \cup Calling] /\ \A t \in Callers : tx[t] = Folk!Idle \/ CallOK(tx[t])
HistoryOK ==
  peoplePast \in [calls : Nat, met : BOOLEAN, lent : BOOLEAN, swept : BOOLEAN, done : SUBSET Folk!Persons,
                  notes : SUBSET Folk!Persons, newest : SUBSET Nat]

(* Which rows a call has locked, and which it may have locked.               *)
LowerOf(c) == IF c.from < c.to THEN c.from ELSE c.to
Keeps(c, x) ==
  \/ c.pc = "second" /\ x = LowerOf(c)
  \/ Both(c) /\ x \in {c.from, c.to}
  \/ c.kind = "link" /\ c.pc \notin {"find", "insert"} /\ x = c.email
MayKeep(c, x) ==
  \/ Keeps(c, x)
  \/ c.pc = "commit" /\ x \in Addresses
LocksOK ==
  \A t \in Callers, x \in Folk!Persons \cup Addresses :
    /\ tx[t] # Folk!Idle /\ Keeps(tx[t], x) => lock[x] = t
    /\ lock[x] = t => tx[t] # Folk!Idle /\ MayKeep(tx[t], x)

(* What is locked stays as it was found.                                     *)
LockedStay ==
  \A t \in Callers : tx[t] # Folk!Idle =>
    /\ Both(tx[t]) => Folk!Live(tx[t].from) /\ Folk!Known(tx[t].to)
    /\ tx[t].kind = "link" /\ tx[t].pc \notin {"find", "insert"} => account[tx[t].email] # None

(* Whoever was looked up and is still there was not merged away.             *)
StillLive(p) == p \in Folk!Persons /\ Folk!Known(p) => Folk!Live(p)
FoundLive ==
  ~peoplePast.met => \A t \in Callers : tx[t] # Folk!Idle =>
    /\ tx[t].kind = "link" => StillLive(tx[t].from)
    /\ (tx[t].kind = "link" /\ tx[t].pc = "other") \/ Merging(tx[t]) => StillLive(tx[t].to)
OneStep ==
  ~peoplePast.met /\ ~peoplePast.swept => \A p \in Folk!Persons : Folk!Known(p) /\ ~Folk!Live(p) => person[p].merged \in Folk!Persons /\ Folk!Live(person[p].merged)
Placed == ~peoplePast.met /\ ~peoplePast.swept => Folk!UnderSomebody

PplIInv ==
  /\ TablesOK /\ CallsOK /\ HistoryOK /\ LocksOK /\ LockedStay /\ FoundLive /\ OneStep /\ Placed
  /\ Folk!NothingLost /\ Folk!SortedUnlessLent /\ Folk!ProvenIsTheirs


-----------------------------------------------------------------------------
(* People: a step is one call's, or nobody's, and leaves what others found.  *)

LiveIn(P, p) == P[p] # None /\ P[p].merged = 0
StillIn(P, p) == p \in Folk!Persons /\ P[p] # None => P[p].merged = 0

(* What the call that took the step knows and has locked after it.           *)
OwnOK(t) ==
  /\ tx'[t] = Folk!Idle \/ CallOK(tx'[t])
  /\ \A x \in Folk!Persons \cup Addresses :
       /\ tx'[t] # Folk!Idle /\ Keeps(tx'[t], x) => lock'[x] = t
       /\ lock'[x] = t => tx'[t] # Folk!Idle /\ MayKeep(tx'[t], x)
  /\ tx'[t] # Folk!Idle =>
       /\ Both(tx'[t]) => LiveIn(person', tx'[t].from) /\ person'[tx'[t].to] # None
       /\ tx'[t].kind = "link" /\ tx'[t].pc \notin {"find", "insert"} => account'[tx'[t].email] # None
  /\ tx'[t] # Folk!Idle /\ ~peoplePast'.met =>
       /\ tx'[t].kind = "link" => StillIn(person', tx'[t].from)
       /\ (tx'[t].kind = "link" /\ tx'[t].pc = "other") \/ Merging(tx'[t]) => StillIn(person', tx'[t].to)

(* The other calls and the rows that they locked stay as they are.           *)
StepOfCall(t) ==
  /\ tx' \in [Callers -> {Folk!Idle} \cup Calling] /\ lock' \in [Folk!Persons \cup Addresses -> Callers \cup {None}]
  /\ \A u \in Callers \ {t} : tx'[u] = tx[u]
  /\ \A x \in Folk!Persons \cup Addresses : lock'[x] = lock[x] \/ {lock[x], lock'[x]} \subseteq {None, t}
  /\ t \in Callers => OwnOK(t)

(* Locked rows are not taken from under a call, and who was looked up is not *)
(* merged away unnoticed.                                                    *)
RowsStay(t) ==
  /\ \A p \in Folk!Persons : lock[p] \notin {None, t} /\ person[p] # None =>
       person'[p] # None /\ (person[p].merged = 0 => person'[p].merged = 0)
  /\ \A e \in Addresses : lock[e] \notin {None, t} /\ account[e] # None => account'[e] # None
  /\ ~peoplePast'.met => ~peoplePast.met
  /\ ~peoplePast'.met => \A u \in Callers \ {t}, p \in Folk!Persons :
       tx[u] # Folk!Idle /\ p \in {tx[u].from, tx[u].to} /\ StillIn(person, p) => StillIn(person', p)
TableStep(t) ==
  /\ TablesOK' /\ HistoryOK' /\ RowsStay(t)
  /\ OneStep' /\ Placed' /\ Folk!NothingLost' /\ Folk!SortedUnlessLent' /\ Folk!ProvenIsTheirs'

LEMMA PeopleConstantsAre ==
  /\ MaxPerson \in Nat /\ IsFiniteSet(Chats) /\ Addresses \cap Folk!Persons = {}
  /\ None \notin Folk!Person /\ None \notin Folk!Channel /\ None \notin Folk!Login /\ None \notin Callers
BY PersonsConstants DEF Folk!PeopleConstants, Folk!IsFiniteSet, IsFiniteSet

LEMMA CallingIs ==
  ASSUME NEW c \in Calling
  PROVE  /\ c # Folk!Idle /\ c.kind \in Kinded /\ c.pc \in Places /\ c.kind # "none"
         /\ c.from \in 0 .. MaxPerson /\ c.to \in 0 .. MaxPerson /\ c.email \in Addresses \cup {None}
         /\ c.chat \in Chats \cup {None} /\ c.tries \in Nat /\ c.rest \in SUBSET Folk!Persons
         /\ c.keep \in 0 .. MaxPerson
<1>1. c.kind \in Kinded /\ c.pc \in Places /\ c.from \in 0 .. MaxPerson /\ c.to \in 0 .. MaxPerson
  BY DEF Calling
<1>2. /\ c.email \in Addresses \cup {None} /\ c.chat \in Chats \cup {None} /\ c.tries \in Nat
      /\ c.rest \in SUBSET Folk!Persons /\ c.keep \in 0 .. MaxPerson
  BY DEF Calling
<1>3. c.kind # "none"
  BY <1>1 DEF Kinded
<1> QED BY <1>1, <1>2, <1>3 DEF Folk!Idle

LEMMA ActiveCall ==
  ASSUME CallsOK, NEW t \in Callers, tx[t] # Folk!Idle
  PROVE  tx[t] \in Calling /\ CallOK(tx[t])
BY DEF CallsOK

LEMMA StepKeeps ==
  ASSUME PplIInv, NEW t, StepOfCall(t), TableStep(t) PROVE PplIInv'
<1>0. CallsOK /\ LocksOK /\ LockedStay /\ FoundLive
  BY DEF PplIInv
<1>1. CallsOK'
  <2>1. ASSUME NEW u \in Callers PROVE tx'[u] = Folk!Idle \/ CallOK(tx'[u])
    <3>1. CASE u = t
      BY <3>1 DEF StepOfCall, OwnOK
    <3>2. CASE u # t
      BY <3>2, <1>0 DEF StepOfCall, CallsOK
    <3> QED BY <3>1, <3>2
  <2> QED BY <2>1 DEF CallsOK, StepOfCall
<1>2. LocksOK'
  <2>1. ASSUME NEW u \in Callers, NEW x \in Folk!Persons \cup Addresses
        PROVE  /\ tx'[u] # Folk!Idle /\ Keeps(tx'[u], x) => lock'[x] = u
               /\ lock'[x] = u => tx'[u] # Folk!Idle /\ MayKeep(tx'[u], x)
    <3>1. CASE u = t
      BY <3>1 DEF StepOfCall, OwnOK
    <3>2. CASE u # t
      <4>1. tx'[u] = tx[u] /\ u # None
        BY <3>2, PeopleConstantsAre DEF StepOfCall
      <4>2. lock'[x] = lock[x] \/ {lock[x], lock'[x]} \subseteq {None, t}
        BY DEF StepOfCall
      <4>3. lock'[x] = u <=> lock[x] = u
        BY <3>2, <4>1, <4>2
      <4> QED BY <4>1, <4>3, <1>0 DEF LocksOK
    <3> QED BY <3>1, <3>2
  <2> QED BY <2>1 DEF LocksOK
<1>3. LockedStay'
  <2>1. ASSUME NEW u \in Callers, tx'[u] # Folk!Idle
        PROVE  /\ Both(tx'[u]) => LiveIn(person', tx'[u].from) /\ person'[tx'[u].to] # None
               /\ tx'[u].kind = "link" /\ tx'[u].pc \notin {"find", "insert"} => account'[tx'[u].email] # None
    <3>1. CASE u = t
      BY <3>1, <2>1 DEF StepOfCall, OwnOK
    <3>2. CASE u # t
      <4>1. tx'[u] = tx[u] /\ u # None /\ tx[u] # Folk!Idle
        BY <3>2, <2>1, PeopleConstantsAre DEF StepOfCall
      <4>2. tx[u] \in Calling /\ CallOK(tx[u])
        BY <4>1, <1>0, ActiveCall
      <4>3. ASSUME Both(tx[u]) PROVE LiveIn(person', tx[u].from) /\ person'[tx[u].to] # None
        <5>1. tx[u].from \in Folk!Persons /\ tx[u].to \in Folk!Persons
          <6>1. tx[u].kind \in {"link", "merge"}
            BY <4>2, <4>3, CallingIs DEF CallOK, Both, Kinded, Merging
          <6> QED BY <4>2, <4>3, <6>1 DEF CallOK, Both, Merging
        <5>2. lock[tx[u].from] = u /\ lock[tx[u].to] = u
          BY <4>1, <4>3, <5>1, <1>0 DEF LocksOK, Keeps
        <5>3. Folk!Live(tx[u].from) /\ Folk!Known(tx[u].to)
          BY <4>1, <4>3, <1>0 DEF LockedStay
        <5>4. /\ person'[tx[u].from] # None /\ person'[tx[u].from].merged = 0
              /\ person'[tx[u].to] # None
          BY <5>1, <5>2, <5>3, <4>1, <3>2 DEF Folk!Live, Folk!Known, TableStep, RowsStay
        <5> QED BY <5>4 DEF LiveIn
      <4>4. ASSUME tx[u].kind = "link", tx[u].pc \notin {"find", "insert"} PROVE account'[tx[u].email] # None
        <5>1. tx[u].email \in Addresses
          BY <4>2, <4>4 DEF CallOK
        <5>2. lock[tx[u].email] = u /\ account[tx[u].email] # None
          BY <4>1, <4>4, <5>1, <1>0 DEF LocksOK, Keeps, LockedStay
        <5> QED BY <5>1, <5>2, <4>1, <3>2 DEF TableStep, RowsStay
      <4> QED BY <4>1, <4>3, <4>4
    <3> QED BY <3>1, <3>2
  <2> QED BY <2>1 DEF LockedStay, LiveIn, Folk!Live, Folk!Known
<1>4. FoundLive'
  <2>1. ASSUME ~peoplePast'.met, NEW u \in Callers, tx'[u] # Folk!Idle
        PROVE  /\ tx'[u].kind = "link" => StillIn(person', tx'[u].from)
               /\ (tx'[u].kind = "link" /\ tx'[u].pc = "other") \/ Merging(tx'[u]) => StillIn(person', tx'[u].to)
    <3>1. CASE u = t
      BY <3>1, <2>1 DEF StepOfCall, OwnOK
    <3>2. CASE u # t
      <4>1. tx'[u] = tx[u] /\ tx[u] # Folk!Idle /\ u \in Callers \ {t} /\ ~peoplePast.met
        BY <3>2, <2>1 DEF StepOfCall, TableStep, RowsStay
      <4>2. ASSUME NEW p, p \in {tx[u].from, tx[u].to}, StillLive(p) PROVE StillIn(person', p)
        <5>1. StillIn(person, p)
          BY <4>2 DEF StillLive, StillIn, Folk!Live, Folk!Known
        <5> QED BY <5>1, <4>1, <4>2, <2>1 DEF TableStep, RowsStay, StillIn
      <4>3. /\ tx[u].kind = "link" => StillLive(tx[u].from)
            /\ (tx[u].kind = "link" /\ tx[u].pc = "other") \/ Merging(tx[u]) => StillLive(tx[u].to)
        BY <4>1, <1>0 DEF FoundLive
      <4> QED BY <4>1, <4>2, <4>3
    <3> QED BY <3>1, <3>2
  <2> QED BY <2>1 DEF FoundLive, StillLive, StillIn, Folk!Live, Folk!Known
<1> QED BY <1>1, <1>2, <1>3, <1>4 DEF PplIInv, TableStep


-----------------------------------------------------------------------------
(* People: what a step does to the call that takes it. *)

Loose == {"find", "insert", "resolve", "save", "channel", "choose", "delete"}

LEMMA CallEnds ==
  ASSUME CallsOK, NEW t \in Callers, Folk!End(t) PROVE StepOfCall(t)
<1>1. tx' = [tx EXCEPT ![t] = Folk!Idle] /\ lock' = [x \in DOMAIN lock |-> IF lock[x] = t THEN None ELSE lock[x]]
  BY DEF Folk!End, Folk!Release
<1>2. /\ tx' \in [Callers -> {Folk!Idle} \cup Calling] /\ lock' \in [Folk!Persons \cup Addresses -> Callers \cup {None}]
      /\ tx'[t] = Folk!Idle /\ \A u \in Callers \ {t} : tx'[u] = tx[u]
      /\ \A x \in Folk!Persons \cup Addresses : lock'[x] = IF lock[x] = t THEN None ELSE lock[x]
  BY <1>1 DEF CallsOK
<1>3. \A x \in Folk!Persons \cup Addresses : lock'[x] # t
  BY <1>2, PeopleConstantsAre
<1> QED BY <1>2, <1>3 DEF StepOfCall, OwnOK

LEMMA NobodyDone ==
  ASSUME CallsOK, UNCHANGED <<lock, tx>> PROVE StepOfCall(None)
<1>1. lock' = lock /\ tx' = tx
  OBVIOUS
<1> QED BY <1>1, PeopleConstantsAre DEF StepOfCall, CallsOK

LEMMA SetDone ==
  ASSUME CallsOK, NEW t \in Callers, NEW c \in Calling, CallOK(c), tx' = [tx EXCEPT ![t] = c],
         lock' \in [Folk!Persons \cup Addresses -> Callers \cup {None}],
         \A x \in Folk!Persons \cup Addresses : lock'[x] = lock[x] \/ {lock[x], lock'[x]} \subseteq {None, t},
         \A x \in Folk!Persons \cup Addresses : (Keeps(c, x) => lock'[x] = t) /\ (lock'[x] = t => MayKeep(c, x)),
         Both(c) => LiveIn(person', c.from) /\ person'[c.to] # None,
         c.kind = "link" /\ c.pc \notin {"find", "insert"} => account'[c.email] # None,
         ~peoplePast'.met => /\ c.kind = "link" => StillIn(person', c.from)
                             /\ (c.kind = "link" /\ c.pc = "other") \/ Merging(c) => StillIn(person', c.to)
  PROVE  StepOfCall(t)
<1>1. tx' \in [Callers -> {Folk!Idle} \cup Calling] /\ tx'[t] = c /\ \A u \in Callers \ {t} : tx'[u] = tx[u]
  BY DEF CallsOK
<1>2. c # Folk!Idle
  BY CallingIs
<1>3. OwnOK(t)
  BY <1>1, <1>2 DEF OwnOK
<1> QED BY <1>1, <1>3 DEF StepOfCall

LEMMA LooseDone ==
  ASSUME CallsOK, LocksOK, NEW t \in Callers, tx[t] = Folk!Idle \/ tx[t].pc \in Loose,
         NEW c \in Calling, CallOK(c), c.pc \in Loose, tx' = [tx EXCEPT ![t] = c], lock' = lock,
         c.kind = "link" /\ ~peoplePast'.met => StillIn(person', c.from)
  PROVE  StepOfCall(t)
<1>0. ASSUME NEW d, CallOK(d), d.pc \in Loose, NEW x PROVE ~Keeps(d, x) /\ ~MayKeep(d, x) /\ ~Merging(d) /\ d.pc # "other"
  BY <1>0 DEF CallOK, Loose, Merging, MayKeep, Keeps, Both
<1>1. \A x \in Folk!Persons \cup Addresses : lock[x] # t
  <2>1. tx[t] = Folk!Idle \/ CallOK(tx[t])
    BY DEF CallsOK
  <2>2. CASE tx[t] = Folk!Idle
    BY <2>2 DEF LocksOK
  <2>3. CASE tx[t] # Folk!Idle
    <3>1. \A x : ~MayKeep(tx[t], x)
      BY <2>1, <2>3, <1>0
    <3> QED BY <3>1 DEF LocksOK
  <2> QED BY <2>2, <2>3
<1>2. \A x \in Folk!Persons \cup Addresses : (Keeps(c, x) => lock'[x] = t) /\ (lock'[x] = t => MayKeep(c, x))
  BY <1>0, <1>1
<1>3. lock' \in [Folk!Persons \cup Addresses -> Callers \cup {None}] /\ \A x \in Folk!Persons \cup Addresses : lock'[x] = lock[x]
  BY DEF CallsOK
<1>4. ~Merging(c) /\ c.pc # "other" /\ ~Both(c) /\ (c.kind = "link" => c.pc \in {"find", "insert"})
  BY <1>0 DEF Both, Merging, CallOK, Loose
<1> QED BY <1>2, <1>3, <1>4, SetDone

(* A call goes on from one place to another.                                 *)
LEMMA GoesOn ==
  ASSUME CallsOK, NEW t \in Callers, tx[t] # Folk!Idle, NEW at \in Places, Folk!Go(t, at)
  PROVE  LET c == [tx[t] EXCEPT !.pc = at] IN
         /\ tx' = [tx EXCEPT ![t] = c] /\ c \in Calling /\ c.pc = at
         /\ c.kind = tx[t].kind /\ c.from = tx[t].from /\ c.to = tx[t].to /\ c.email = tx[t].email
         /\ c.chat = tx[t].chat /\ c.rest = tx[t].rest /\ c.keep = tx[t].keep
<1>1. tx[t] \in Calling
  BY ActiveCall
<1> QED BY <1>1 DEF Folk!Go, Calling

LEMMA AtIs ==
  ASSUME CallsOK, NEW t \in Callers, NEW kind \in Kinded, NEW at, Folk!At(t, kind, at)
  PROVE  tx[t] # Folk!Idle /\ tx[t] \in Calling /\ CallOK(tx[t]) /\ tx[t].kind = kind /\ tx[t].pc = at
<1>1. tx[t].kind = kind /\ tx[t].pc = at
  BY DEF Folk!At
<1>2. tx[t] # Folk!Idle
  BY <1>1 DEF Folk!Idle, Kinded
<1> QED BY <1>1, <1>2, ActiveCall

-----------------------------------------------------------------------------
(* People: steps that leave the tables alone. *)

LEMMA QuietDone ==
  ASSUME PplIInv, NEW t, UNCHANGED Folk!rows, HistoryOK',
         peoplePast'.swept = peoplePast.swept, peoplePast'.lent = peoplePast.lent, peoplePast'.done = peoplePast.done,
         peoplePast'.notes = peoplePast.notes, peoplePast'.newest = peoplePast.newest, ~peoplePast'.met => ~peoplePast.met
  PROVE  TableStep(t)
<1>1. /\ person' = person /\ channel' = channel /\ account' = account /\ note' = note
      /\ sorted' = sorted /\ auth' = auth
  BY DEF Folk!rows
<1>2. TablesOK'
  BY <1>1 DEF PplIInv, TablesOK
<1>3. RowsStay(t)
  BY <1>1 DEF RowsStay
<1>4. OneStep'
  BY <1>1 DEF PplIInv, OneStep, Folk!Known, Folk!Live
<1>5. Placed'
  BY <1>1 DEF PplIInv, Placed, Folk!UnderSomebody, Folk!Live, Folk!Known
<1>6. Folk!NothingLost' /\ Folk!SortedUnlessLent' /\ Folk!ProvenIsTheirs'
  BY <1>1 DEF PplIInv, Folk!NothingLost, Folk!SortedUnlessLent, Folk!SortedMeansSorted, Folk!ProvenIsTheirs
<1> QED BY <1>2, <1>3, <1>4, <1>5, <1>6 DEF TableStep

LEMMA StillDone ==
  ASSUME PplIInv, NEW t, UNCHANGED <<Folk!rows, peoplePast>> PROVE TableStep(t)
<1>1. UNCHANGED Folk!rows /\ peoplePast' = peoplePast
  OBVIOUS
<1>2. HistoryOK'
  BY <1>1 DEF PplIInv, HistoryOK
<1> QED BY <1>1, <1>2, QuietDone

(* A call begins.                                                            *)
Filled ==
  [kind : {"none"}, pc : {"none"}, from : 0 .. MaxPerson, to : 0 .. MaxPerson, email : Addresses \cup {None},
   chat : Chats \cup {None}, tries : Nat, rest : SUBSET Folk!Persons, keep : 0 .. MaxPerson]

LEMMA CallIs == Folk!Call \in Filled
<1>1. 0 \in 0 .. MaxPerson
  BY PeopleConstantsAre
<1> QED BY <1>1 DEF Folk!Call, Filled

LEMMA CallBegins ==
  ASSUME PplIInv, NEW t \in Callers, NEW kind \in Kinded, NEW at \in Places \cap Loose, NEW in \in Filled,
         Folk!Begin(t, kind, at, in), CallOK([in EXCEPT !.kind = kind, !.pc = at]),
         kind = "link" => StillLive(in.from)
  PROVE  StepOfCall(t) /\ TableStep(t)
<1> DEFINE c == [in EXCEPT !.kind = kind, !.pc = at]
<1>1. /\ tx[t] = Folk!Idle /\ tx' = [tx EXCEPT ![t] = c] /\ peoplePast' = [peoplePast EXCEPT !.calls = @ + 1]
      /\ UNCHANGED Folk!rows /\ lock' = lock
  BY DEF Folk!Begin
<1>2. c \in Calling /\ c.kind = kind /\ c.pc = at /\ c.from = in.from
  BY DEF Filled, Calling
<1> HIDE DEF c
<1>3. /\ HistoryOK' /\ peoplePast'.swept = peoplePast.swept /\ peoplePast'.lent = peoplePast.lent /\ peoplePast'.done = peoplePast.done
      /\ peoplePast'.notes = peoplePast.notes /\ peoplePast'.newest = peoplePast.newest /\ peoplePast'.met = peoplePast.met
  BY <1>1 DEF PplIInv, HistoryOK
<1>4. TableStep(t)
  BY <1>1, <1>3, QuietDone
<1>5. person' = person /\ CallOK(c)
  BY <1>1 DEF Folk!rows, c
<1>6. kind = "link" => StillIn(person', c.from)
  BY <1>2, <1>5 DEF StillLive, StillIn, Folk!Live, Folk!Known
<1>7. StepOfCall(t)
  BY <1>1, <1>2, <1>5, <1>6, LooseDone DEF PplIInv
<1> QED BY <1>4, <1>7


-----------------------------------------------------------------------------
(* People: the least of some numbers, and who a chain of markers leads to.   *)

LEMMA SmallestIn ==
  ASSUME NEW S \in SUBSET Nat, S # {} PROVE \E m \in S : \A k \in S : m <= k
<1>1. IsWellFoundedOn(OpToRel(<, Nat), Nat)
  BY NatLessThanWellFounded
<1>2. PICK m \in S : \A k \in S : ~(<<k, m>> \in OpToRel(<, Nat))
  BY <1>1, WFMin
<1>3. ASSUME NEW k \in S PROVE m <= k
  <2>1. k \in Nat /\ m \in Nat /\ ~(k < m)
    BY <1>2 DEF OpToRel
  <2> QED BY <2>1
<1> QED BY <1>3


(* The chain of markers from p, k of them at most: what "step" is.           *)
Links(h, k, p) ==
  IF p = 0 \/ k = 0 THEN 0
  ELSE IF ~Folk!Known(p) THEN 0 ELSE IF person[p].merged = 0 THEN p ELSE h[k - 1][person[p].merged]
Chain(n, h) ==
  /\ h \in [0 .. n -> [0 .. MaxPerson -> 0 .. MaxPerson]]
  /\ \A k \in 0 .. n, p \in 0 .. MaxPerson : h[k][p] = Links(h, k, p)

LEMMA MarkerIs ==
  ASSUME TablesOK, NEW p \in 0 .. MaxPerson, p # 0, Folk!Known(p)
  PROVE  p \in Folk!Persons /\ person[p] \in Folk!Person /\ person[p].merged \in 0 .. MaxPerson
<1>1. p \in Folk!Persons
  BY PeopleConstantsAre DEF Folk!Persons
<1>2. person[p] \in Folk!Person
  BY <1>1 DEF TablesOK, Folk!Known
<1> QED BY <1>1, <1>2 DEF Folk!Person

LEMMA ChainsAre ==
  ASSUME TablesOK, NEW n \in Nat, NEW h, Chain(n, h) PROVE \E g : Chain(n + 1, g)
<1> DEFINE more == [p \in 0 .. MaxPerson |-> Links(h, n + 1, p)]
           g == [k \in 0 .. n + 1 |-> IF k <= n THEN h[k] ELSE more]
<1>1. \A k \in 0 .. n : h[k] \in [0 .. MaxPerson -> 0 .. MaxPerson]
  BY DEF Chain
<1>2. ASSUME NEW p \in 0 .. MaxPerson PROVE Links(h, n + 1, p) \in 0 .. MaxPerson
  <2>1. n + 1 - 1 = n /\ n \in 0 .. n /\ 0 \in 0 .. MaxPerson
    BY PeopleConstantsAre
  <2>2. ASSUME p # 0, Folk!Known(p) PROVE h[n][person[p].merged] \in 0 .. MaxPerson
    <3>1. person[p].merged \in 0 .. MaxPerson
      BY <2>2, MarkerIs
    <3> QED BY <2>1, <3>1, <1>1
  <2> QED BY <2>1, <2>2 DEF Links
<1>3. more \in [0 .. MaxPerson -> 0 .. MaxPerson]
  BY <1>2
<1>4. g \in [0 .. n + 1 -> [0 .. MaxPerson -> 0 .. MaxPerson]]
  <2>1. \A k \in 0 .. n + 1 : k <= n => k \in 0 .. n
    OBVIOUS
  <2> QED BY <1>1, <1>3, <2>1
<1>5. ASSUME NEW k \in 0 .. n + 1, NEW p \in 0 .. MaxPerson PROVE g[k][p] = Links(g, k, p)
  <2>1. CASE k <= n
    <3>1. k \in 0 .. n /\ g[k] = h[k] /\ (k # 0 => k - 1 \in 0 .. n + 1 /\ k - 1 <= n)
      BY <2>1
    <3>2. k # 0 => g[k - 1] = h[k - 1]
      BY <3>1
    <3> QED BY <3>1, <3>2 DEF Chain, Links
  <2>2. CASE k = n + 1
    <3>1. g[k] = more /\ k - 1 = n /\ n \in 0 .. n + 1 /\ g[n] = h[n]
      BY <2>2
    <3> QED BY <2>2, <3>1 DEF Links
  <2> QED BY <2>1, <2>2
<1> QED BY <1>4, <1>5 DEF Chain

LEMMA StepIs == ASSUME TablesOK PROVE \A k \in 0 .. 16, p \in 0 .. MaxPerson : Folk!step[k][p] = Links(Folk!step, k, p)
<1> DEFINE Lacks == {n \in 0 .. 16 : \A h : ~Chain(n, h)}
<1>1. Lacks = {}
  <2>1. SUFFICES ASSUME Lacks # {} PROVE FALSE
    OBVIOUS
  <2>2. PICK m \in Lacks : \A k \in Lacks : m <= k
    BY <2>1, SmallestIn
  <2>3. CASE m = 0
    <3> DEFINE h == [k \in 0 .. 0 |-> [p \in 0 .. MaxPerson |-> 0]]
    <3>1. h \in [0 .. 0 -> [0 .. MaxPerson -> 0 .. MaxPerson]]
      BY PeopleConstantsAre
    <3>2. \A k \in 0 .. 0, p \in 0 .. MaxPerson : h[k][p] = Links(h, k, p)
      BY DEF Links
    <3>3. Chain(0, h)
      BY <3>1, <3>2 DEF Chain
    <3> QED BY <3>3, <2>2, <2>3
  <2>4. CASE m # 0
    <3>1. m - 1 \in 0 .. 16 /\ m - 1 \in Nat /\ m - 1 + 1 = m /\ ~(m <= m - 1)
      BY <2>2, <2>4
    <3>2. PICK h : Chain(m - 1, h)
      BY <3>1, <2>2
    <3>3. \E g : Chain(m, g)
      BY <3>1, <3>2, ChainsAre
    <3> QED BY <3>3, <2>2
  <2> QED BY <2>3, <2>4
<1>2. PICK h : Chain(16, h)
  BY <1>1
<1> DEFINE Body(f) == [k \in 0 .. 16 |-> [p \in 0 .. MaxPerson |-> Links(f, k, p)]]
<1>3. h = Body(h)
  <2>1. \A k \in 0 .. 16 : h[k] = [p \in 0 .. MaxPerson |-> Links(h, k, p)]
    BY <1>2 DEF Chain
  <2> QED BY <1>2, <2>1 DEF Chain
<1>4. Folk!step = CHOOSE f : f = Body(f)
  BY DEF Folk!step, Links
<1> HIDE DEF Body
<1>5. Folk!step = Body(Folk!step)
  BY <1>3, <1>4
<1>6. \A f, k, p : k \in 0 .. 16 /\ p \in 0 .. MaxPerson => Body(f)[k][p] = Links(f, k, p)
  BY DEF Body
<1> QED BY <1>5, <1>6


LEMMA FollowIs ==
  ASSUME TablesOK, NEW p \in 0 .. MaxPerson
  PROVE  Folk!Follow(p) = 0 \/ (Folk!Follow(p) \in Folk!Persons /\ Folk!Live(Folk!Follow(p)))
<1> DEFINE Fine(k, q) == Folk!step[k][q] = 0 \/ (Folk!step[k][q] \in Folk!Persons /\ Folk!Live(Folk!step[k][q]))
           Astray == {k \in 0 .. 16 : \E q \in 0 .. MaxPerson : ~Fine(k, q)}
<1>1. Astray = {}
  <2>1. SUFFICES ASSUME Astray # {} PROVE FALSE
    OBVIOUS
  <2>0. Astray \in SUBSET Nat
    OBVIOUS
  <2>2. PICK m \in Astray : \A k \in Astray : m <= k
    BY <2>0, <2>1, SmallestIn
  <2>3. PICK q \in 0 .. MaxPerson : ~Fine(m, q)
    BY <2>2
  <2>4. Folk!step[m][q] = Links(Folk!step, m, q) /\ m \in 0 .. 16
    BY <2>2, StepIs
  <2>5. m # 0 /\ q # 0 /\ Folk!Known(q) /\ person[q].merged # 0
    <3>1. CASE m = 0 \/ q = 0 \/ ~Folk!Known(q)
      BY <3>1, <2>3, <2>4 DEF Links
    <3>2. CASE m # 0 /\ q # 0 /\ Folk!Known(q) /\ person[q].merged = 0
      <4>1. Folk!step[m][q] = q /\ Folk!Live(q) /\ q \in Folk!Persons
        BY <3>2, <2>4, MarkerIs DEF Links, Folk!Live
      <4> QED BY <4>1, <2>3
    <3> QED BY <3>1, <3>2
  <2>6. m - 1 \in 0 .. 16 /\ ~(m <= m - 1) /\ person[q].merged \in 0 .. MaxPerson
    BY <2>4, <2>5, MarkerIs
  <2>7. Fine(m - 1, person[q].merged)
    BY <2>2, <2>6
  <2>8. Folk!step[m][q] = Folk!step[m - 1][person[q].merged]
    BY <2>4, <2>5 DEF Links
  <2> QED BY <2>3, <2>7, <2>8
<1>2. 16 \in 0 .. 16
  OBVIOUS
<1>3. Fine(16, p)
  BY <1>1, <1>2
<1> QED BY <1>3 DEF Folk!Follow

(* A marker of somebody who is there leads to somebody.                      *)
LEMMA FollowShort ==
  ASSUME TablesOK, NEW p \in Folk!Persons, Folk!Known(p), Folk!Live(p) \/ (person[p].merged \in Folk!Persons /\ Folk!Live(person[p].merged))
  PROVE  Folk!Follow(p) # 0
<1>1. /\ p \in 0 .. MaxPerson /\ p # 0 /\ 16 \in 0 .. 16 /\ 15 \in 0 .. 16 /\ 16 # 0 /\ 15 # 0 /\ 16 - 1 = 15
  BY PeopleConstantsAre DEF Folk!Persons
<1>2. CASE Folk!Live(p)
  <2>1. Folk!step[16][p] = Links(Folk!step, 16, p)
    BY <1>1, StepIs
  <2> QED BY <2>1, <1>1, <1>2 DEF Links, Folk!Live, Folk!Follow
<1>3. CASE ~Folk!Live(p)
  <2> DEFINE q == person[p].merged
  <2>1. q \in 0 .. MaxPerson /\ q # 0 /\ Folk!Live(q) /\ Folk!Known(q)
    BY <1>3, PeopleConstantsAre DEF Folk!Persons, Folk!Live, Folk!Known
  <2>2. Folk!step[16][p] = Links(Folk!step, 16, p) /\ Folk!step[15][q] = Links(Folk!step, 15, q)
    BY <1>1, <2>1, StepIs
  <2>3. Folk!step[15][q] = q
    BY <1>1, <2>1, <2>2 DEF Links, Folk!Live
  <2>4. Folk!step[16][p] = Folk!step[15][q]
    BY <1>1, <1>3, <2>2 DEF Links, Folk!Live
  <2> QED BY <2>1, <2>3, <2>4 DEF Folk!Follow
<1> QED BY <1>2, <1>3

LEMMA LeastIs ==
  ASSUME NEW S \in SUBSET Folk!Persons, S # {} PROVE (CHOOSE p \in S : \A q \in S : p <= q) \in S
<1>1. S \in SUBSET Nat
  BY PeopleConstantsAre DEF Folk!Persons
<1>2. \E p \in S : \A q \in S : p <= q
  BY <1>1, SmallestIn
<1> QED BY <1>2

LEMMA ChatsAre ==
  ASSUME NEW p PROVE Folk!chats(p) \in Nat /\ Folk!chats(p) <= Cardinality(Chats) /\ Cardinality(Chats) \in Nat
<1> DEFINE theirs == {c \in Chats : channel[c] # None /\ channel[c].person = p}
<1>1. theirs \subseteq Chats /\ IsFiniteSet(Chats)
  BY PeopleConstantsAre
<1>2. IsFiniteSet(theirs) /\ Cardinality(theirs) <= Cardinality(Chats)
  BY <1>1, FS_Subset
<1>3. Cardinality(theirs) \in Nat /\ Cardinality(Chats) \in Nat
  BY <1>1, <1>2, FS_CardinalityType
<1> QED BY <1>2, <1>3 DEF Folk!chats, Folk!Cardinality, Cardinality

(* There is a survivor: the first of those with the most chats of those with *)
(* a proven address, if there is one.                                        *)
LEMMA SurvivorIs ==
  ASSUME NEW group \in SUBSET Folk!Persons, group # {} PROVE Folk!chooseSurvivor(group) \in group
<1> DEFINE Ns == {1 - Folk!proven(p) : p \in group}
           top == {p \in group : \A q \in group : Folk!proven(q) <= Folk!proven(p)}
           Ms == {Cardinality(Chats) - Folk!chats(p) : p \in top}
           full == {p \in top : \A q \in top : Folk!chats(q) <= Folk!chats(p)}
<1>0. \A p : Folk!proven(p) \in {0, 1} /\ Folk!chats(p) \in Nat /\ Folk!chats(p) <= Cardinality(Chats) /\ Cardinality(Chats) \in Nat
  BY ChatsAre DEF Folk!proven
<1>1. top # {}
  <2>1. Ns \in SUBSET Nat /\ Ns # {}
    BY <1>0
  <2>2. PICK n \in Ns : \A k \in Ns : n <= k
    BY <2>1, SmallestIn
  <2>3. PICK p \in group : n = 1 - Folk!proven(p)
    BY <2>2
  <2>4. ASSUME NEW q \in group PROVE Folk!proven(q) <= Folk!proven(p)
    <3>1. 1 - Folk!proven(p) <= 1 - Folk!proven(q) /\ Folk!proven(p) \in {0, 1} /\ Folk!proven(q) \in {0, 1}
      BY <2>2, <2>3, <1>0
    <3> QED BY <3>1
  <2> QED BY <2>4
<1>2. full # {}
  <2>1. Ms \in SUBSET Nat /\ Ms # {}
    <3>1. ASSUME NEW p \in top PROVE Cardinality(Chats) - Folk!chats(p) \in Nat
      <4>1. Folk!chats(p) \in Nat /\ Folk!chats(p) <= Cardinality(Chats) /\ Cardinality(Chats) \in Nat
        BY <1>0
      <4> QED BY <4>1
    <3> QED BY <1>1, <3>1
  <2>2. PICK n \in Ms : \A k \in Ms : n <= k
    BY <2>1, SmallestIn
  <2>3. PICK p \in top : n = Cardinality(Chats) - Folk!chats(p)
    BY <2>2
  <2>4. ASSUME NEW q \in top PROVE Folk!chats(q) <= Folk!chats(p)
    <3>1. /\ Cardinality(Chats) - Folk!chats(p) <= Cardinality(Chats) - Folk!chats(q)
          /\ Folk!chats(p) \in Nat /\ Folk!chats(q) \in Nat /\ Cardinality(Chats) \in Nat
      BY <2>2, <2>3, <1>0
    <3> QED BY <3>1
  <2> QED BY <2>4
<1>3. full \in SUBSET Nat
  <2>1. full \subseteq Folk!Persons
    OBVIOUS
  <2> QED BY <2>1, PeopleConstantsAre DEF Folk!Persons
<1>4. PICK p \in full : \A q \in full : p <= q
  BY <1>2, <1>3, SmallestIn
<1>5. ASSUME NEW q \in group \ {p} PROVE Folk!better(p, q)
  <2>1. /\ Folk!proven(p) \in {0, 1} /\ Folk!proven(q) \in {0, 1} /\ Folk!chats(p) \in Nat /\ Folk!chats(q) \in Nat /\ Folk!proven(q) <= Folk!proven(p)
        /\ p \in Nat /\ p # q
    BY <1>0, <1>3, <1>4
  <2>2. CASE Folk!proven(p) # Folk!proven(q)
    BY <2>1, <2>2 DEF Folk!better
  <2>3. CASE Folk!proven(p) = Folk!proven(q)
    <3>1. q \in top
      BY <2>3, <1>4
    <3>2. Folk!chats(q) <= Folk!chats(p)
      BY <3>1, <1>4
    <3>3. CASE Folk!chats(p) # Folk!chats(q)
      BY <2>1, <2>3, <3>2, <3>3 DEF Folk!better
    <3>4. CASE Folk!chats(p) = Folk!chats(q)
      <4>1. q \in full
        BY <3>1, <3>4, <1>4
      <4>2. p <= q /\ q \in Nat
        BY <4>1, <1>3, <1>4
      <4> QED BY <4>2, <2>1, <2>3, <3>4 DEF Folk!better
    <3> QED BY <3>3, <3>4
  <2> QED BY <2>2, <2>3
<1>6. \E s \in group : \A q \in group \ {s} : Folk!better(s, q)
  BY <1>4, <1>5
<1> QED BY <1>6 DEF Folk!chooseSurvivor


-----------------------------------------------------------------------------
(* People: each action is a step of one call, or of nobody. *)

LEMMA InIs ==
  ASSUME NEW in \in Filled, NEW kind \in Kinded, NEW at \in Places
  PROVE  LET c == [in EXCEPT !.kind = kind, !.pc = at] IN
         /\ c.kind = kind /\ c.pc = at /\ c.from = in.from /\ c.to = in.to /\ c.email = in.email
         /\ c.chat = in.chat /\ c.rest = in.rest /\ c.keep = in.keep
BY DEF Filled

LEMMA MergeDuplicatesDone ==
  ASSUME PplIInv, NEW t \in Callers, Folk!MergeDuplicates(t) PROVE StepOfCall(t) /\ TableStep(t)
<1> DEFINE group == Folk!duplicates
           keep == Folk!chooseSurvivor(group)
           rest == group \ {keep}
           next == CHOOSE p \in rest : \A q \in rest : p <= q
           in == [Folk!Call EXCEPT !.from = next, !.to = keep, !.keep = keep, !.rest = rest \ {next}]
<1>1. Cardinality(group) >= 2 /\ Folk!Begin(t, "merge", "resolve", in)
  BY DEF Folk!MergeDuplicates, Folk!Cardinality, Cardinality
<1>2. group \in SUBSET Folk!Persons
  BY DEF Folk!duplicates, PplIInv, TablesOK, Folk!Channel
<1>3. group # {}
  BY <1>1, FS_EmptySet
<1>4. keep \in group
  BY <1>2, <1>3, SurvivorIs
<1> HIDE DEF group
<1>5. rest # {}
  <2>1. SUFFICES ASSUME rest = {} PROVE FALSE
    OBVIOUS
  <2>2. group = {keep}
    BY <2>1, <1>4
  <2>3. Cardinality(group) = 1
    BY <2>2, FS_Singleton
  <2> QED BY <2>3, <1>1
<1> HIDE DEF keep
<1>6. rest \in SUBSET Folk!Persons
  BY <1>2
<1>7. next \in rest
  BY <1>5, <1>6, LeastIs
<1> HIDE DEF next, rest
<1>8. /\ in \in Filled /\ in.from = next /\ in.to = keep /\ in.keep = keep
      /\ next \in Folk!Persons /\ keep \in Folk!Persons
  <2>1. next \in Folk!Persons /\ keep \in Folk!Persons
    BY <1>2, <1>4, <1>6, <1>7
  <2>2. next \in 0 .. MaxPerson /\ keep \in 0 .. MaxPerson /\ rest \ {next} \in SUBSET Folk!Persons
    BY <2>1, <1>6, PeopleConstantsAre DEF Folk!Persons
  <2> QED BY <2>1, <2>2, CallIs DEF Filled
<1> HIDE DEF in
<1>9. "merge" \in Kinded /\ "resolve" \in Places \cap Loose
  BY DEF Kinded, Places, Loose
<1>10. CallOK([in EXCEPT !.kind = "merge", !.pc = "resolve"])
  BY <1>8, <1>9, InIs DEF CallOK, Merging, Both
<1> QED BY <1>1, <1>8, <1>9, <1>10, CallBegins

LEMMA BeginCallDone ==
  ASSUME PplIInv, NEW t \in Callers, Folk!BeginCall(t) PROVE StepOfCall(t) /\ TableStep(t)
<1>0. \A p \in Folk!Persons : p \in 0 .. MaxPerson
  BY PeopleConstantsAre DEF Folk!Persons
<1>1. ASSUME NEW p \in Folk!Persons, Folk!Live(p), NEW e \in Addresses, Folk!Begin(t, "link", "find", [Folk!Call EXCEPT !.from = p, !.email = e])
      PROVE  StepOfCall(t) /\ TableStep(t)
  <2> DEFINE in == [Folk!Call EXCEPT !.from = p, !.email = e]
  <2>1. in \in Filled /\ in.from = p /\ in.email = e
    BY <1>0, <1>1, CallIs DEF Filled
  <2>2. "link" \in Kinded /\ "find" \in Places \cap Loose
    BY DEF Kinded, Places, Loose
  <2> HIDE DEF in
  <2>3. CallOK([in EXCEPT !.kind = "link", !.pc = "find"])
    BY <2>1, <2>2, <1>1, InIs DEF CallOK, Merging, Both
  <2>4. StillLive(in.from)
    BY <2>1, <1>1 DEF StillLive
  <2> QED BY <1>1, <2>1, <2>2, <2>3, <2>4, CallBegins DEF in
<1>2. ASSUME NEW p \in Folk!Persons, Folk!Begin(t, "rename", "save", [Folk!Call EXCEPT !.from = p])
      PROVE  StepOfCall(t) /\ TableStep(t)
  <2> DEFINE in == [Folk!Call EXCEPT !.from = p]
  <2>1. in \in Filled /\ in.from = p
    BY <1>0, <1>2, CallIs DEF Filled
  <2>2. "rename" \in Kinded /\ "save" \in Places \cap Loose
    BY DEF Kinded, Places, Loose
  <2> HIDE DEF in
  <2>3. CallOK([in EXCEPT !.kind = "rename", !.pc = "save"])
    BY <2>1, <2>2, <1>2, InIs DEF CallOK, Merging, Both
  <2> QED BY <1>2, <2>1, <2>2, <2>3, CallBegins DEF in
<1>3. ASSUME NEW p \in Folk!Persons, NEW c \in Chats, Folk!Begin(t, "redeem", "save", [Folk!Call EXCEPT !.from = p, !.chat = c])
      PROVE  StepOfCall(t) /\ TableStep(t)
  <2> DEFINE in == [Folk!Call EXCEPT !.from = p, !.chat = c]
  <2>1. in \in Filled /\ in.from = p /\ in.chat = c
    BY <1>0, <1>3, CallIs DEF Filled
  <2>2. "redeem" \in Kinded /\ "save" \in Places \cap Loose
    BY DEF Kinded, Places, Loose
  <2> HIDE DEF in
  <2>3. CallOK([in EXCEPT !.kind = "redeem", !.pc = "save"])
    BY <2>1, <2>2, <1>3, InIs DEF CallOK, Merging, Both
  <2> QED BY <1>3, <2>1, <2>2, <2>3, CallBegins DEF in
<1>4. ASSUME NEW p \in Folk!Persons, NEW q \in Folk!Persons, Folk!Begin(t, "merge", "resolve", [Folk!Call EXCEPT !.from = p, !.to = q])
      PROVE  StepOfCall(t) /\ TableStep(t)
  <2> DEFINE in == [Folk!Call EXCEPT !.from = p, !.to = q]
  <2>1. in \in Filled /\ in.from = p /\ in.to = q /\ in.rest = {}
    BY <1>0, <1>4, CallIs DEF Filled, Folk!Call
  <2>2. "merge" \in Kinded /\ "resolve" \in Places \cap Loose
    BY DEF Kinded, Places, Loose
  <2> HIDE DEF in
  <2>3. CallOK([in EXCEPT !.kind = "merge", !.pc = "resolve"])
    BY <2>1, <2>2, <1>4, InIs DEF CallOK, Merging, Both
  <2> QED BY <1>4, <2>1, <2>2, <2>3, CallBegins DEF in
<1>5. ASSUME NEW c \in Chats, Folk!Begin(t, "contact", "find", [Folk!Call EXCEPT !.chat = c])
      PROVE  StepOfCall(t) /\ TableStep(t)
  <2> DEFINE in == [Folk!Call EXCEPT !.chat = c]
  <2>1. in \in Filled /\ in.chat = c
    BY <1>5, CallIs DEF Filled
  <2>2. "contact" \in Kinded /\ "find" \in Places \cap Loose
    BY DEF Kinded, Places, Loose
  <2> HIDE DEF in
  <2>3. CallOK([in EXCEPT !.kind = "contact", !.pc = "find"])
    BY <2>1, <2>2, <1>5, InIs DEF CallOK, Merging, Both
  <2> QED BY <1>5, <2>1, <2>2, <2>3, CallBegins DEF in
<1>6. ASSUME Folk!Begin(t, "sweep", "choose", Folk!Call) PROVE StepOfCall(t) /\ TableStep(t)
  <2>2. "sweep" \in Kinded /\ "choose" \in Places \cap Loose
    BY DEF Kinded, Places, Loose
  <2>3. CallOK([Folk!Call EXCEPT !.kind = "sweep", !.pc = "choose"])
    BY <2>2, CallIs, InIs DEF CallOK, Merging, Both
  <2> QED BY <1>6, <2>2, <2>3, CallIs, CallBegins
<1> QED BY <1>1, <1>2, <1>3, <1>4, <1>5, <1>6, MergeDuplicatesDone DEF Folk!BeginCall


LEMMA FoundIsStill ==
  ASSUME PplIInv, NEW t \in Callers, tx[t] # Folk!Idle, ~peoplePast.met
  PROVE  /\ tx[t].kind = "link" => StillIn(person, tx[t].from)
         /\ (tx[t].kind = "link" /\ tx[t].pc = "other") \/ Merging(tx[t]) => StillIn(person, tx[t].to)
BY DEF PplIInv, FoundLive, StillLive, StillIn, Folk!Live, Folk!Known

(* What a link or a merge has locked before its next statement.              *)
LEMMA HasLocked ==
  ASSUME PplIInv, NEW t \in Callers, tx[t] # Folk!Idle, NEW x \in Folk!Persons \cup Addresses
  PROVE  (Keeps(tx[t], x) => lock[x] = t) /\ (lock[x] = t => MayKeep(tx[t], x))
BY DEF PplIInv, LocksOK

LEMMA FirstLockDone ==
  ASSUME PplIInv, NEW t \in Callers, tx[t].kind \in {"link", "merge"}, tx[t].pc = "first", UNCHANGED <<Folk!rows, peoplePast>>,
         Folk!Free(Folk!firstLock(t), t), Folk!Lock(Folk!firstLock(t), t), Folk!Go(t, "second"), tx[t].from # tx[t].to
  PROVE  StepOfCall(t)
<1> DEFINE c == [tx[t] EXCEPT !.pc = "second"]
           low == LowerOf(tx[t])
<1>1. tx[t] # Folk!Idle /\ tx[t] \in Calling /\ CallOK(tx[t]) /\ Merging(tx[t]) /\ CallsOK
  BY ActiveCall DEF Folk!Idle, PplIInv, Merging
<1>2. "second" \in Places
  BY DEF Places
<1>3. /\ tx' = [tx EXCEPT ![t] = c] /\ c \in Calling /\ c.pc = "second"
      /\ c.kind = tx[t].kind /\ c.from = tx[t].from /\ c.to = tx[t].to /\ c.email = tx[t].email
      /\ c.rest = tx[t].rest /\ c.keep = tx[t].keep
  BY <1>1, <1>2, GoesOn
<1>4. low = Folk!firstLock(t) /\ low \in Folk!Persons /\ low = LowerOf(c)
  BY <1>1, <1>3 DEF LowerOf, Folk!firstLock, Folk!lower, CallOK, Merging
<1> HIDE DEF c, low
<1>5. CallOK(c)
  BY <1>1, <1>3 DEF CallOK, Merging, Both
<1>6. lock' = [lock EXCEPT ![low] = t] /\ lock[low] \in {None, t}
  BY <1>4 DEF Folk!Lock, Folk!Free
<1>7. /\ lock' \in [Folk!Persons \cup Addresses -> Callers \cup {None}]
      /\ \A x \in Folk!Persons \cup Addresses : lock'[x] = IF x = low THEN t ELSE lock[x]
  BY <1>1, <1>4, <1>6 DEF CallsOK
<1>8. ASSUME NEW x \in Folk!Persons \cup Addresses PROVE (Keeps(c, x) => lock'[x] = t) /\ (lock'[x] = t => MayKeep(c, x))
  <2>1. (Keeps(tx[t], x) => lock[x] = t) /\ (lock[x] = t => MayKeep(tx[t], x))
    BY <1>1, HasLocked
  <2>2. Keeps(c, x) <=> x = low \/ (c.kind = "link" /\ x = c.email)
    BY <1>3, <1>4 DEF Keeps, Both
  <2>3. c.kind = "link" /\ x = c.email => Keeps(tx[t], x)
    BY <1>3 DEF Keeps
  <2>4. MayKeep(tx[t], x) => c.kind = "link" /\ x = c.email
    BY <1>3 DEF Keeps, MayKeep, Both
  <2> QED BY <1>7, <2>1, <2>2, <2>3, <2>4 DEF MayKeep
<1>9. person' = person /\ account' = account /\ peoplePast' = peoplePast
  BY DEF Folk!rows
<1>10. c.kind = "link" => account'[c.email] # None
  BY <1>1, <1>3, <1>9 DEF PplIInv, LockedStay
<1>11. ~peoplePast'.met => /\ c.kind = "link" => StillIn(person', c.from)
                           /\ StillIn(person', c.to)
  BY <1>1, <1>3, <1>9, FoundIsStill
<1> QED BY <1>1, <1>3, <1>5, <1>6, <1>7, <1>8, <1>10, <1>11, SetDone DEF Both

LEMMA SecondLockDone ==
  ASSUME PplIInv, NEW t \in Callers, tx[t].kind \in {"link", "merge"}, tx[t].pc = "second", UNCHANGED <<Folk!rows, peoplePast>>,
         NEW high, high = IF Folk!firstLock(t) = tx[t].from THEN tx[t].to ELSE tx[t].from,
         Folk!Free(high, t), Folk!Lock(high, t), Folk!Go(t, "accounts"), Folk!Live(tx[t].from), Folk!Known(tx[t].to)
  PROVE  StepOfCall(t)
<1> DEFINE c == [tx[t] EXCEPT !.pc = "accounts"]
<1>1. tx[t] # Folk!Idle /\ tx[t] \in Calling /\ CallOK(tx[t]) /\ Merging(tx[t]) /\ CallsOK
  BY ActiveCall DEF Folk!Idle, PplIInv, Merging
<1>2. "accounts" \in Places
  BY DEF Places
<1>3. /\ tx' = [tx EXCEPT ![t] = c] /\ c \in Calling /\ c.pc = "accounts"
      /\ c.kind = tx[t].kind /\ c.from = tx[t].from /\ c.to = tx[t].to /\ c.email = tx[t].email
      /\ c.rest = tx[t].rest /\ c.keep = tx[t].keep
  BY <1>1, <1>2, GoesOn
<1>4. /\ Folk!firstLock(t) = LowerOf(tx[t]) /\ {Folk!firstLock(t), high} = {c.from, c.to}
      /\ c.from \in Folk!Persons /\ c.to \in Folk!Persons
  BY <1>1, <1>3 DEF LowerOf, Folk!firstLock, Folk!lower, CallOK, Merging
<1> HIDE DEF c
<1>5. CallOK(c)
  BY <1>1, <1>3 DEF CallOK, Merging, Both
<1>6. lock' = [lock EXCEPT ![high] = t] /\ lock[high] \in {None, t} /\ high \in Folk!Persons
  BY <1>4 DEF Folk!Lock, Folk!Free
<1>7. /\ lock' \in [Folk!Persons \cup Addresses -> Callers \cup {None}]
      /\ \A x \in Folk!Persons \cup Addresses : lock'[x] = IF x = high THEN t ELSE lock[x]
  BY <1>1, <1>4, <1>6 DEF CallsOK
<1>8. ASSUME NEW x \in Folk!Persons \cup Addresses PROVE (Keeps(c, x) => lock'[x] = t) /\ (lock'[x] = t => MayKeep(c, x))
  <2>1. (Keeps(tx[t], x) => lock[x] = t) /\ (lock[x] = t => MayKeep(tx[t], x))
    BY <1>1, HasLocked
  <2>2. Keeps(c, x) <=> x \in {c.from, c.to} \/ (c.kind = "link" /\ x = c.email)
    BY <1>3, <1>4 DEF Keeps, Both
  <2>3. c.kind = "link" /\ x = c.email => Keeps(tx[t], x)
    BY <1>3 DEF Keeps
  <2>4. MayKeep(tx[t], x) => x = Folk!firstLock(t) \/ (c.kind = "link" /\ x = c.email)
    BY <1>3, <1>4 DEF Keeps, MayKeep, Both
  <2>5. x = Folk!firstLock(t) => Keeps(tx[t], x)
    BY <1>4 DEF Keeps
  <2> QED BY <1>4, <1>7, <2>1, <2>2, <2>3, <2>4, <2>5 DEF MayKeep
<1>9. person' = person /\ account' = account /\ peoplePast' = peoplePast
  BY DEF Folk!rows
<1>10. c.kind = "link" => account'[c.email] # None
  BY <1>1, <1>3, <1>9 DEF PplIInv, LockedStay
<1>11. ~peoplePast'.met => /\ c.kind = "link" => StillIn(person', c.from)
                           /\ StillIn(person', c.to)
  BY <1>1, <1>3, <1>9, FoundIsStill
<1>12. LiveIn(person', c.from) /\ person'[c.to] # None
  BY <1>3, <1>9 DEF LiveIn, Folk!Live, Folk!Known
<1> QED BY <1>1, <1>3, <1>5, <1>6, <1>7, <1>8, <1>10, <1>11, <1>12, SetDone

LEMMA lockBothDone ==
  ASSUME PplIInv, NEW t \in Callers, tx[t].kind \in {"link", "merge"}, Folk!lockBoth(t) PROVE StepOfCall(t) /\ TableStep(t)
<1>1. CallsOK
  BY DEF PplIInv
<1>2. UNCHANGED <<Folk!rows, peoplePast>>
  BY DEF Folk!lockBoth
<1>3. ASSUME tx[t].pc = "first" PROVE StepOfCall(t)
  <2>1. CASE tx[t].from = tx[t].to
    BY <2>1, <1>1, <1>3, CallEnds DEF Folk!lockBoth
  <2>2. CASE tx[t].from # tx[t].to
    BY <2>2, <1>2, <1>3, FirstLockDone DEF Folk!lockBoth
  <2> QED BY <2>1, <2>2
<1>4. ASSUME tx[t].pc = "second" PROVE StepOfCall(t)
  <2> DEFINE high == IF Folk!firstLock(t) = tx[t].from THEN tx[t].to ELSE tx[t].from
  <2>1. CASE Folk!Live(tx[t].from) /\ Folk!Known(tx[t].to)
    <3>1. Folk!Free(high, t) /\ Folk!Lock(high, t) /\ Folk!Go(t, "accounts")
      BY <2>1, <1>4 DEF Folk!lockBoth
    <3> QED BY <2>1, <3>1, <1>2, <1>4, SecondLockDone
  <2>2. CASE ~(Folk!Live(tx[t].from) /\ Folk!Known(tx[t].to))
    BY <2>2, <1>1, <1>4, CallEnds DEF Folk!lockBoth
  <2> QED BY <2>1, <2>2
<1>5. StepOfCall(t)
  BY <1>3, <1>4 DEF Folk!lockBoth
<1> QED BY <1>2, <1>5, StillDone

LEMMA lockAccountsDone ==
  ASSUME PplIInv, NEW t \in Callers, tx[t].kind \in {"link", "merge"}, Folk!lockAccounts(t) PROVE StepOfCall(t) /\ TableStep(t)
<1> DEFINE c == [tx[t] EXCEPT !.pc = "commit"]
           theirs == {e \in Addresses : account[e] # None /\ account[e].person = tx[t].from}
<1>0. /\ tx[t].pc = "accounts" /\ \A e \in theirs : lock[e] \in {None, t}
      /\ lock' = [x \in DOMAIN lock |-> IF x \in theirs THEN t ELSE lock[x]]
      /\ Folk!Go(t, "commit") /\ UNCHANGED <<Folk!rows, peoplePast>>
  BY DEF Folk!lockAccounts, Folk!Free
<1>1. tx[t] # Folk!Idle /\ tx[t] \in Calling /\ CallOK(tx[t]) /\ Merging(tx[t]) /\ Both(tx[t]) /\ CallsOK
  BY <1>0, ActiveCall DEF Folk!Idle, PplIInv, Merging, Both
<1>2. "commit" \in Places
  BY DEF Places
<1>3. /\ tx' = [tx EXCEPT ![t] = c] /\ c \in Calling /\ c.pc = "commit"
      /\ c.kind = tx[t].kind /\ c.from = tx[t].from /\ c.to = tx[t].to /\ c.email = tx[t].email
      /\ c.rest = tx[t].rest /\ c.keep = tx[t].keep
  BY <1>0, <1>1, <1>2, GoesOn
<1> HIDE DEF c
<1>5. CallOK(c)
  BY <1>1, <1>3 DEF CallOK, Merging, Both
<1>7. /\ lock' \in [Folk!Persons \cup Addresses -> Callers \cup {None}]
      /\ \A x \in Folk!Persons \cup Addresses : lock'[x] = IF x \in theirs THEN t ELSE lock[x]
      /\ theirs \subseteq Addresses
  BY <1>0, <1>1 DEF CallsOK
<1> HIDE DEF theirs
<1>8. ASSUME NEW x \in Folk!Persons \cup Addresses PROVE (Keeps(c, x) => lock'[x] = t) /\ (lock'[x] = t => MayKeep(c, x))
  <2>1. (Keeps(tx[t], x) => lock[x] = t) /\ (lock[x] = t => MayKeep(tx[t], x))
    BY <1>1, HasLocked
  <2>2. Keeps(c, x) <=> Keeps(tx[t], x)
    BY <1>0, <1>3 DEF Keeps, Both
  <2>3. MayKeep(tx[t], x) => Keeps(c, x)
    BY <1>0, <2>2 DEF MayKeep
  <2>4. MayKeep(c, x) <=> Keeps(c, x) \/ x \in Addresses
    BY <1>1, <1>3 DEF MayKeep
  <2> QED BY <1>7, <2>1, <2>2, <2>3, <2>4
<1>9. person' = person /\ account' = account /\ peoplePast' = peoplePast
  BY <1>0 DEF Folk!rows
<1>10. c.kind = "link" => account'[c.email] # None
  BY <1>0, <1>1, <1>3, <1>9 DEF PplIInv, LockedStay
<1>11. ~peoplePast'.met => /\ c.kind = "link" => StillIn(person', c.from)
                           /\ StillIn(person', c.to)
  BY <1>1, <1>3, <1>9, FoundIsStill
<1>12. LiveIn(person', c.from) /\ person'[c.to] # None
  BY <1>1, <1>3, <1>9 DEF PplIInv, LockedStay, LiveIn, Folk!Live, Folk!Known
<1>13. \A x \in Folk!Persons \cup Addresses : lock'[x] = lock[x] \/ {lock[x], lock'[x]} \subseteq {None, t}
  BY <1>0, <1>7
<1>14. StepOfCall(t)
  BY <1>1, <1>3, <1>5, <1>7, <1>8, <1>10, <1>11, <1>12, <1>13, SetDone
<1> QED BY <1>0, <1>14, StillDone


-----------------------------------------------------------------------------
(* People: what a merge leaves. *)

LEMMA MarkedIs ==
  ASSUME TablesOK, NEW f \in Folk!Persons, NEW g \in Folk!Persons, f # g, Folk!Live(f), Folk!Known(g), Folk!markMerged(f, g)
  PROVE  /\ person' \in [Folk!Persons -> Folk!Person \cup {None}]
         /\ person'[f] # None /\ person'[f].merged = g
         /\ person'[g] # None /\ (person[g].merged = 0 => person'[g].merged = 0)
         /\ \A p \in Folk!Persons \ {f, g} : person[p] = None => person'[p] = None
         /\ \A p \in Folk!Persons \ {f, g} : person[p] # None =>
              person'[p] # None /\ person'[p].merged = IF person[p].merged = f THEN g ELSE person[p].merged
<1>1. /\ person[f] \in Folk!Person /\ person[g] \in Folk!Person /\ f # 0 /\ g \in 0 .. MaxPerson /\ None \notin Folk!Person
      /\ \A p \in Folk!Persons : person[p] # None => person[p] \in Folk!Person
  BY PeopleConstantsAre DEF Folk!Live, Folk!Known, TablesOK, Folk!Persons
<1>2. /\ person'[f] = [person[f] EXCEPT !.merged = g, !.named = FALSE]
      /\ person'[g] = [person[g] EXCEPT !.named = @ \/ person[f].named, !.merged = IF @ = f THEN g ELSE @]
      /\ \A p \in Folk!Persons \ {f, g} : person'[p] = IF Folk!Known(p) /\ person[p].merged = f
                                                       THEN [person[p] EXCEPT !.merged = g] ELSE person[p]
      /\ person' = [p \in Folk!Persons |-> person'[p]]
  BY DEF Folk!markMerged
<1>3. person'[f] \in Folk!Person /\ person'[f].merged = g
  BY <1>1, <1>2 DEF Folk!Person
<1>4. person'[g] \in Folk!Person /\ (person[g].merged = 0 => person'[g].merged = 0)
  <2>1. person[f].named \in BOOLEAN /\ person[g].named \in BOOLEAN /\ person[g].merged \in 0 .. MaxPerson
        /\ person[g].young \in BOOLEAN
    BY <1>1 DEF Folk!Person
  <2>2. person'[g].merged = IF person[g].merged = f THEN g ELSE person[g].merged
    BY <1>1, <1>2 DEF Folk!Person
  <2>3. person'[g] = [merged |-> IF person[g].merged = f THEN g ELSE person[g].merged,
                      named |-> person[g].named \/ person[f].named, young |-> person[g].young]
    BY <1>1, <1>2 DEF Folk!Person
  <2>4. (person[g].named \/ person[f].named) \in BOOLEAN /\ (IF person[g].merged = f THEN g ELSE person[g].merged) \in 0 .. MaxPerson
    BY <1>1, <2>1
  <2>5. person'[g] \in Folk!Person
    BY <2>1, <2>3, <2>4 DEF Folk!Person
  <2> QED BY <1>1, <2>2, <2>5
<1>5. ASSUME NEW p \in Folk!Persons \ {f, g}, person[p] # None
      PROVE  person'[p] \in Folk!Person /\ person'[p].merged = IF person[p].merged = f THEN g ELSE person[p].merged
  <2>1. person[p] \in Folk!Person /\ Folk!Known(p)
    BY <1>1, <1>5 DEF Folk!Known
  <2> QED BY <1>1, <1>2, <2>1 DEF Folk!Person
<1>6. \A p \in Folk!Persons \ {f, g} : person[p] = None => person'[p] = None
  BY <1>2 DEF Folk!Known
<1>7. \A p \in Folk!Persons : person'[p] \in Folk!Person \cup {None}
  BY <1>3, <1>4, <1>5, <1>6
<1>8. person' \in [Folk!Persons -> Folk!Person \cup {None}]
  BY <1>2, <1>7
<1> QED BY <1>1, <1>3, <1>4, <1>5, <1>6, <1>8

LEMMA MovedIs ==
  ASSUME TablesOK, NEW f \in Folk!Persons, NEW g \in Folk!Persons, Folk!moveBulkRows(f, g)
  PROVE  /\ channel' \in [Chats -> Folk!Channel \cup {None}] /\ account' \in [Addresses -> Folk!Login \cup {None}]
         /\ \A c \in Chats : channel'[c] # None =>
              channel[c] # None /\ channel'[c].person = IF channel[c].person = f THEN g ELSE channel[c].person
         /\ \A e \in Addresses : account'[e] # None <=> account[e] # None
         /\ \A e \in Addresses : account[e] # None =>
              /\ account'[e].person = IF account[e].person = f THEN g ELSE account[e].person
              /\ account'[e].verified = account[e].verified /\ account'[e].pw = account[e].pw
<1>1. None \notin Folk!Channel /\ None \notin Folk!Login /\ g \in 0 .. MaxPerson
  BY PeopleConstantsAre DEF Folk!Persons
<1>2. /\ channel' = [c \in Chats |-> channel'[c]] /\ account' = [e \in Addresses |-> account'[e]]
      /\ \A c \in Chats : channel'[c] = IF channel[c] # None /\ channel[c].person = f
                                        THEN [channel[c] EXCEPT !.person = g] ELSE channel[c]
      /\ \A e \in Addresses : account'[e] = IF account[e] # None /\ account[e].person = f
                                            THEN [account[e] EXCEPT !.person = g] ELSE account[e]
  BY DEF Folk!moveBulkRows
<1>3. ASSUME NEW c \in Chats, channel[c] # None
      PROVE  channel'[c] \in Folk!Channel /\ channel'[c].person = IF channel[c].person = f THEN g ELSE channel[c].person
  <2>1. channel[c] \in Folk!Channel
    BY <1>3 DEF TablesOK
  <2> QED BY <1>2, <1>3, <2>1 DEF Folk!Channel
<1>4. ASSUME NEW e \in Addresses, account[e] # None
      PROVE  /\ account'[e] \in Folk!Login
             /\ account'[e].person = IF account[e].person = f THEN g ELSE account[e].person
             /\ account'[e].verified = account[e].verified /\ account'[e].pw = account[e].pw
  <2>1. account[e] \in Folk!Login
    BY <1>4 DEF TablesOK
  <2> QED BY <1>1, <1>2, <1>4, <2>1 DEF Folk!Login
<1>5. \A c \in Chats : channel[c] = None => channel'[c] = None
  BY <1>2
<1>6. \A e \in Addresses : account[e] = None => account'[e] = None
  BY <1>2
<1>7. channel' \in [Chats -> Folk!Channel \cup {None}] /\ account' \in [Addresses -> Folk!Login \cup {None}]
  <2>1. \A c \in Chats : channel'[c] \in Folk!Channel \cup {None}
    BY <1>3, <1>5
  <2>2. \A e \in Addresses : account'[e] \in Folk!Login \cup {None}
    BY <1>4, <1>6
  <2> QED BY <1>2, <2>1, <2>2
<1> QED BY <1>1, <1>3, <1>4, <1>5, <1>6, <1>7

LEMMA NotedIs ==
  ASSUME TablesOK, HistoryOK, NEW f \in Folk!Persons, NEW g \in Folk!Persons, f # g,
         Folk!mergeNotes(f, g), Folk!moveKeyedRows(f, g), Folk!reopenIfUnsorted(f, g)
  PROVE  /\ note' \in [Folk!Persons -> SUBSET Folk!Persons] /\ auth' \in [Folk!Persons -> Nat] /\ sorted' \in SUBSET Folk!Persons
         /\ note'[f] = {} /\ note'[g] = note[g] \cup note[f] /\ \A p \in Folk!Persons \ {f, g} : note'[p] = note[p]
         /\ auth'[f] = 0 /\ auth'[g] >= auth[f] /\ auth'[g] >= auth[g] /\ \A p \in Folk!Persons \ {f, g} : auth'[p] = auth[p]
         /\ auth'[g] \in {auth[f], auth[g]}
         /\ f \notin sorted' /\ \A p \in Folk!Persons \ {f, g} : p \in sorted' => p \in sorted
         /\ g \in sorted' => f \in sorted \/ (g \in sorted /\ note[f] = {})
<1>1. note' = [note EXCEPT ![g] = note[g] \cup note[f], ![f] = {}]
  BY DEF Folk!mergeNotes
<1>2. auth' = [auth EXCEPT ![g] = IF auth[f] > auth[g] THEN auth[f] ELSE auth[g], ![f] = 0]
  BY DEF Folk!moveKeyedRows
<1>3. /\ note' \in [Folk!Persons -> SUBSET Folk!Persons] /\ note'[f] = {} /\ note'[g] = note[g] \cup note[f]
      /\ \A p \in Folk!Persons \ {f, g} : note'[p] = note[p]
  BY <1>1 DEF TablesOK
<1>4. auth[f] \in Nat /\ auth[g] \in Nat
  BY DEF TablesOK
<1>5. /\ auth' \in [Folk!Persons -> Nat] /\ auth'[f] = 0 /\ auth'[g] = (IF auth[f] > auth[g] THEN auth[f] ELSE auth[g])
      /\ \A p \in Folk!Persons \ {f, g} : auth'[p] = auth[p]
  BY <1>2, <1>4 DEF TablesOK
<1>6. auth'[g] >= auth[f] /\ auth'[g] >= auth[g] /\ auth'[g] \in {auth[f], auth[g]}
  BY <1>4, <1>5
<1>7. sorted \subseteq Folk!Persons
  BY DEF TablesOK
<1>8. /\ f \notin sorted' /\ sorted' \subseteq Folk!Persons
      /\ \A p \in Folk!Persons \ {f, g} : p \in sorted' => p \in sorted
      /\ g \in sorted' => f \in sorted \/ (g \in sorted /\ note[f] = {})
  BY <1>7 DEF Folk!reopenIfUnsorted
<1> QED BY <1>3, <1>5, <1>6, <1>8


LEMMA MergedTables ==
  ASSUME PplIInv, NEW t \in Callers, tx[t].kind \in {"link", "merge"}, tx[t].pc = "commit",
         NEW f, NEW g, f = tx[t].from, g = tx[t].to, Folk!moveBulkRows(f, g), Folk!mergePersonsTx(t)
  PROVE  TableStep(t)
<1>0. TablesOK /\ CallsOK /\ HistoryOK /\ LocksOK /\ LockedStay /\ FoundLive /\ OneStep /\ Placed
  BY DEF PplIInv
<1>1. tx[t] # Folk!Idle /\ tx[t] \in Calling /\ CallOK(tx[t]) /\ Merging(tx[t]) /\ Both(tx[t])
  BY <1>0, ActiveCall DEF Folk!Idle, Merging, Both
<1>2. f \in Folk!Persons /\ g \in Folk!Persons /\ f # g /\ Folk!Live(f) /\ Folk!Known(g) /\ f # 0
  BY <1>0, <1>1, PeopleConstantsAre DEF CallOK, LockedStay, Folk!Persons
<1>3. lock[f] = t /\ lock[g] = t
  BY <1>0, <1>1, <1>2 DEF LocksOK, Keeps
<1>4. ~peoplePast.met => Folk!Live(g)
  BY <1>0, <1>1, <1>2 DEF FoundLive, StillLive
<1>5. /\ Folk!mergeNotes(f, g) /\ Folk!reopenIfUnsorted(f, g) /\ Folk!moveKeyedRows(f, g) /\ Folk!markMerged(f, g)
      /\ peoplePast' = [peoplePast EXCEPT !.met = @ \/ Folk!Meets(t, f),
                                          !.lent = @ \/ (f \in sorted /\ g \notin sorted /\ note[g] # {})]
  BY DEF Folk!mergePersonsTx
<1>6. /\ person' \in [Folk!Persons -> Folk!Person \cup {None}]
      /\ person'[f] # None /\ person'[f].merged = g
      /\ person'[g] # None /\ (person[g].merged = 0 => person'[g].merged = 0)
      /\ \A p \in Folk!Persons \ {f, g} : person[p] = None => person'[p] = None
      /\ \A p \in Folk!Persons \ {f, g} : person[p] # None =>
           person'[p] # None /\ person'[p].merged = IF person[p].merged = f THEN g ELSE person[p].merged
  BY <1>0, <1>2, <1>5, MarkedIs
<1>7. /\ channel' \in [Chats -> Folk!Channel \cup {None}] /\ account' \in [Addresses -> Folk!Login \cup {None}]
      /\ \A c \in Chats : channel'[c] # None =>
           channel[c] # None /\ channel'[c].person = IF channel[c].person = f THEN g ELSE channel[c].person
      /\ \A e \in Addresses : account'[e] # None <=> account[e] # None
      /\ \A e \in Addresses : account[e] # None =>
           /\ account'[e].person = IF account[e].person = f THEN g ELSE account[e].person
           /\ account'[e].verified = account[e].verified /\ account'[e].pw = account[e].pw
  BY <1>0, <1>2, MovedIs
<1>8. /\ note' \in [Folk!Persons -> SUBSET Folk!Persons] /\ auth' \in [Folk!Persons -> Nat] /\ sorted' \in SUBSET Folk!Persons
      /\ note'[f] = {} /\ note'[g] = note[g] \cup note[f] /\ \A p \in Folk!Persons \ {f, g} : note'[p] = note[p]
      /\ auth'[f] = 0 /\ auth'[g] >= auth[f] /\ auth'[g] >= auth[g] /\ \A p \in Folk!Persons \ {f, g} : auth'[p] = auth[p]
      /\ auth'[g] \in {auth[f], auth[g]}
      /\ f \notin sorted' /\ \A p \in Folk!Persons \ {f, g} : p \in sorted' => p \in sorted
      /\ g \in sorted' => f \in sorted \/ (g \in sorted /\ note[f] = {})
  BY <1>0, <1>2, <1>5, NotedIs
<1>9. TablesOK'
  BY <1>6, <1>7, <1>8 DEF TablesOK
<1>10. Folk!Meets(t, f) \in BOOLEAN
  BY DEF Folk!Meets
<1>11. /\ peoplePast' \in [calls : Nat, met : BOOLEAN, lent : BOOLEAN, swept : BOOLEAN, done : SUBSET Folk!Persons,
                           notes : SUBSET Folk!Persons, newest : SUBSET Nat]
       /\ peoplePast'.met = (peoplePast.met \/ Folk!Meets(t, f))
       /\ peoplePast'.lent = (peoplePast.lent \/ (f \in sorted /\ g \notin sorted /\ note[g] # {}))
       /\ peoplePast'.swept = peoplePast.swept /\ peoplePast'.done = peoplePast.done /\ peoplePast'.notes = peoplePast.notes /\ peoplePast'.newest = peoplePast.newest
  BY <1>0, <1>5, <1>10 DEF HistoryOK
<1>12. HistoryOK'
  BY <1>11 DEF HistoryOK
(* Who was live is live, but for "from".                                     *)
<1>13. ASSUME NEW p \in Folk!Persons, p # f, person[p] # None, person[p].merged = 0
       PROVE  person'[p] # None /\ person'[p].merged = 0
  BY <1>2, <1>6, <1>13
<1>14. RowsStay(t)
  <2>1. ASSUME NEW p \in Folk!Persons, lock[p] \notin {None, t}, person[p] # None
        PROVE  person'[p] # None /\ (person[p].merged = 0 => person'[p].merged = 0)
    BY <2>1, <1>2, <1>3, <1>6
  <2>2. ASSUME ~peoplePast'.met, NEW u \in Callers \ {t}, NEW p \in Folk!Persons, tx[u] # Folk!Idle, p \in {tx[u].from, tx[u].to},
               StillIn(person, p)
        PROVE  StillIn(person', p)
    <3>1. tx[u].kind # "none"
      BY <2>2, <1>0, ActiveCall, CallingIs
    <3>2. p # f
      BY <2>2, <3>1, <1>11 DEF Folk!Meets
    <3>3. CASE person[p] = None
      <4>1. p \notin {f, g}
        BY <3>3, <1>2 DEF Folk!Live, Folk!Known
      <4> QED BY <4>1, <3>3, <1>6 DEF StillIn
    <3>4. CASE person[p] # None
      BY <3>2, <3>4, <2>2, <1>13 DEF StillIn
    <3> QED BY <3>3, <3>4
  <2>3. ~peoplePast'.met => ~peoplePast.met
    BY <1>11
  <2> QED BY <2>1, <2>2, <2>3, <1>7 DEF RowsStay
<1>15. ASSUME ~peoplePast'.met, ~peoplePast'.swept
       PROVE  /\ ~peoplePast.met /\ ~peoplePast.swept /\ person[g] # None /\ person[g].merged = 0
              /\ person'[g] # None /\ person'[g].merged = 0
  BY <1>15, <1>4, <1>6, <1>11 DEF Folk!Live, Folk!Known
<1>16. OneStep'
  <2>1. ASSUME ~peoplePast'.met, ~peoplePast'.swept, NEW p \in Folk!Persons, person'[p] # None, person'[p].merged # 0
        PROVE  person'[p].merged \in Folk!Persons /\ person'[person'[p].merged] # None
               /\ person'[person'[p].merged].merged = 0
    <3>1. /\ ~peoplePast.met /\ ~peoplePast.swept /\ person'[g] # None /\ person'[g].merged = 0 /\ p # g
      BY <2>1, <1>15
    <3>2. CASE p = f
      BY <3>1, <3>2, <1>2, <1>6
    <3>3. CASE p # f
      <4>1. person[p] # None /\ person'[p].merged = IF person[p].merged = f THEN g ELSE person[p].merged
        BY <3>1, <3>3, <2>1, <1>6
      <4>2. CASE person[p].merged = f
        BY <4>1, <4>2, <3>1, <1>2
      <4>3. CASE person[p].merged # f
        <5> DEFINE q == person[p].merged
        <5>1. person'[p].merged = q /\ Folk!Known(p) /\ ~Folk!Live(p)
          BY <4>1, <4>3, <2>1 DEF Folk!Known, Folk!Live
        <5>2. q \in Folk!Persons /\ person[q] # None /\ person[q].merged = 0
          BY <5>1, <3>1, <1>0 DEF OneStep, Folk!Known, Folk!Live
        <5>3. person'[q] # None /\ person'[q].merged = 0
          BY <5>2, <4>3, <1>13
        <5> QED BY <5>1, <5>2, <5>3
      <4> QED BY <4>2, <4>3
    <3> QED BY <3>2, <3>3
  <2> QED BY <2>1 DEF OneStep, Folk!Known, Folk!Live
<1>17. Placed'
  <2>1. ASSUME ~peoplePast'.met, ~peoplePast'.swept PROVE Folk!UnderSomebody'
    <3>0. /\ Folk!UnderSomebody /\ person'[g] # None /\ person'[g].merged = 0
      BY <2>1, <1>0, <1>15 DEF Placed
    <3>1. ASSUME NEW c \in Chats, channel'[c] # None
          PROVE  person'[channel'[c].person] # None /\ person'[channel'[c].person].merged = 0
      <4>1. channel[c] # None /\ channel'[c].person = IF channel[c].person = f THEN g ELSE channel[c].person
        BY <3>1, <1>7
      <4>2. Folk!Live(channel[c].person) /\ channel[c].person \in Folk!Persons
        BY <4>1, <3>0, <1>0 DEF Folk!UnderSomebody, TablesOK, Folk!Channel
      <4> QED BY <3>0, <4>1, <4>2, <1>13 DEF Folk!Live, Folk!Known
    <3>2. ASSUME NEW e \in Addresses, account'[e] # None, account'[e].person # 0
          PROVE  person'[account'[e].person] # None /\ person'[account'[e].person].merged = 0
      <4>1. account[e] # None /\ account'[e].person = IF account[e].person = f THEN g ELSE account[e].person
        BY <3>2, <1>7
      <4>2. CASE account[e].person = f
        BY <4>1, <4>2, <3>0
      <4>3. CASE account[e].person # f
        <5>1. Folk!Live(account[e].person) /\ account[e] \in Folk!Login /\ account[e].person # 0
          BY <3>2, <4>1, <4>3, <3>0, <1>0 DEF Folk!UnderSomebody, TablesOK
        <5>2. account[e].person \in Folk!Persons
          BY <5>1, PeopleConstantsAre DEF Folk!Login, Folk!Persons
        <5> QED BY <4>1, <4>3, <5>1, <5>2, <1>13 DEF Folk!Live, Folk!Known
      <4> QED BY <4>2, <4>3
    <3>3. ASSUME NEW p \in Folk!Persons, note'[p] # {} \/ auth'[p] # 0
          PROVE  person'[p] # None /\ person'[p].merged = 0
      <4>1. CASE p = g
        BY <4>1, <3>0
      <4>2. CASE p # g
        <5>1. p # f /\ (note[p] # {} \/ auth[p] # 0)
          BY <4>2, <3>3, <1>8
        <5>2. Folk!Live(p)
          BY <5>1, <3>0 DEF Folk!UnderSomebody
        <5> QED BY <5>1, <5>2, <1>13 DEF Folk!Live, Folk!Known
      <4> QED BY <4>1, <4>2
    <3> QED BY <3>1, <3>2, <3>3 DEF Folk!UnderSomebody, Folk!Live, Folk!Known
  <2> QED BY <2>1 DEF Placed
<1>18. Folk!NothingLost'
  <2>1. ASSUME ~peoplePast'.swept
        PROVE  /\ peoplePast'.notes = UNION {note'[p] : p \in Folk!Persons}
               /\ \E p \in Folk!Persons : \A a \in peoplePast'.newest : auth'[p] >= a
    <3>1. peoplePast.notes = UNION {note[p] : p \in Folk!Persons}
      BY <2>1, <1>11 DEF PplIInv, Folk!NothingLost
    <3>2. PICK p \in Folk!Persons : \A a \in peoplePast.newest : auth[p] >= a
      BY <2>1, <1>11 DEF PplIInv, Folk!NothingLost
    <3>3. UNION {note[q] : q \in Folk!Persons} = UNION {note'[q] : q \in Folk!Persons}
      <4>1. ASSUME NEW q \in Folk!Persons, NEW x \in note[q] PROVE \E s \in Folk!Persons : x \in note'[s]
        <5>1. CASE q \in {f, g}
          BY <5>1, <4>1, <1>2, <1>8
        <5>2. CASE q \notin {f, g}
          BY <5>2, <4>1, <1>8
        <5> QED BY <5>1, <5>2
      <4>2. ASSUME NEW q \in Folk!Persons, NEW x \in note'[q] PROVE \E s \in Folk!Persons : x \in note[s]
        <5>1. CASE q \in {f, g}
          BY <5>1, <4>2, <1>2, <1>8
        <5>2. CASE q \notin {f, g}
          BY <5>2, <4>2, <1>8
        <5> QED BY <5>1, <5>2
      <4> QED BY <4>1, <4>2
    <3>4. PICK s \in Folk!Persons : auth'[s] >= auth[p]
      <4>1. auth[p] \in Nat /\ auth[p] >= auth[p]
        BY <1>0 DEF TablesOK
      <4>2. CASE p \in {f, g}
        BY <4>2, <1>2, <1>8
      <4>3. CASE p \notin {f, g}
        BY <4>1, <4>3, <1>8
      <4> QED BY <4>2, <4>3
    <3>5. ASSUME NEW a \in peoplePast.newest PROVE auth'[s] >= a
      <4>1. a \in Nat /\ auth[p] >= a /\ auth[p] \in Nat /\ auth'[s] \in Nat
        BY <3>2, <1>0, <1>8 DEF HistoryOK, TablesOK
      <4> QED BY <4>1, <3>4
    <3> QED BY <3>1, <3>3, <3>5, <1>11
  <2> QED BY <2>1 DEF Folk!NothingLost
<1>19. Folk!SortedUnlessLent'
  <2>1. ASSUME ~peoplePast'.lent, NEW p \in sorted' PROVE note'[p] \subseteq peoplePast'.done
    <3>1. ~peoplePast.lent /\ ~(f \in sorted /\ g \notin sorted /\ note[g] # {}) /\ peoplePast'.done = peoplePast.done
      BY <2>1, <1>11
    <3>2. \A q \in sorted : note[q] \subseteq peoplePast.done
      BY <3>1 DEF PplIInv, Folk!SortedUnlessLent, Folk!SortedMeansSorted
    <3>3. CASE p = g
      BY <3>3, <3>1, <3>2, <2>1, <1>8
    <3>4. CASE p # g
      <4>1. p \in Folk!Persons \ {f, g} /\ p \in sorted
        BY <3>4, <2>1, <1>8
      <4> QED BY <4>1, <3>1, <3>2, <1>8
    <3> QED BY <3>3, <3>4
  <2> QED BY <2>1 DEF Folk!SortedUnlessLent, Folk!SortedMeansSorted
<1>20. Folk!ProvenIsTheirs'
  BY <1>7 DEF PplIInv, Folk!ProvenIsTheirs
<1> QED BY <1>9, <1>12, <1>14, <1>16, <1>17, <1>18, <1>19, <1>20 DEF TableStep


LEMMA FirstStepDone ==
  ASSUME PplIInv, NEW t \in Callers, Folk!At(t, "merge", "resolve"), Folk!Follow(tx[t].to) # 0, UNCHANGED <<Folk!rows, peoplePast, lock>>,
         tx' = [tx EXCEPT ![t].to = Folk!Follow(tx[t].to), ![t].pc = "first"]
  PROVE  StepOfCall(t)
<1> DEFINE c == [tx[t] EXCEPT !.to = Folk!Follow(tx[t].to), !.pc = "first"]
<1>0. CallsOK /\ TablesOK /\ "merge" \in Kinded
  BY DEF PplIInv, Kinded
<1>1. tx[t] # Folk!Idle /\ tx[t] \in Calling /\ CallOK(tx[t]) /\ tx[t].kind = "merge" /\ tx[t].pc = "resolve"
  BY <1>0, AtIs
<1>2. Folk!Follow(tx[t].to) \in Folk!Persons /\ Folk!Live(Folk!Follow(tx[t].to))
  BY <1>0, <1>1, CallingIs, FollowIs
<1>3. /\ tx' = [tx EXCEPT ![t] = c] /\ c \in Calling /\ c.pc = "first" /\ c.kind = "merge"
      /\ c.from = tx[t].from /\ c.to = Folk!Follow(tx[t].to) /\ c.rest = tx[t].rest /\ c.keep = tx[t].keep
  <2>1. "first" \in Places /\ Folk!Follow(tx[t].to) \in 0 .. MaxPerson
    BY <1>2, PeopleConstantsAre DEF Places, Folk!Persons
  <2> QED BY <1>1, <2>1 DEF Calling
<1> HIDE DEF c
<1>4. CallOK(c)
  BY <1>1, <1>2, <1>3 DEF CallOK, Merging, Both
<1>5. person' = person /\ lock' = lock
  BY DEF Folk!rows
<1>6. \A x \in Folk!Persons \cup Addresses : ~Keeps(c, x) /\ lock[x] # t
  <2>1. \A x : ~Keeps(c, x) /\ ~MayKeep(tx[t], x)
    BY <1>1, <1>3 DEF Keeps, MayKeep, Both
  <2> QED BY <2>1, <1>1, HasLocked
<1>7. lock' \in [Folk!Persons \cup Addresses -> Callers \cup {None}]
  BY <1>0, <1>5 DEF CallsOK
<1>8. StillIn(person', c.to)
  BY <1>2, <1>3, <1>5 DEF StillIn, Folk!Live
<1> QED BY <1>0, <1>3, <1>4, <1>5, <1>6, <1>7, <1>8, SetDone DEF Both

LEMMA NextMemberDone ==
  ASSUME PplIInv, NEW t \in Callers, Folk!At(t, "merge", "commit"), tx[t].rest # {}, Folk!Release(t),
         NEW next \in tx[t].rest,
         tx' = [tx EXCEPT ![t].from = next, ![t].to = tx[t].keep, ![t].rest = @ \ {next}, ![t].pc = "resolve"]
  PROVE  StepOfCall(t)
<1> DEFINE c == [tx[t] EXCEPT !.from = next, !.to = tx[t].keep, !.rest = @ \ {next}, !.pc = "resolve"]
<1>0. CallsOK /\ TablesOK /\ "merge" \in Kinded
  BY DEF PplIInv, Kinded
<1>1. /\ tx[t] # Folk!Idle /\ tx[t] \in Calling /\ CallOK(tx[t]) /\ tx[t].kind = "merge" /\ tx[t].pc = "commit"
      /\ tx[t].rest \in SUBSET Folk!Persons
  BY <1>0, AtIs, CallingIs
<1>2. next \in Folk!Persons /\ tx[t].keep \in Folk!Persons
  BY <1>1 DEF CallOK
<1>3. /\ tx' = [tx EXCEPT ![t] = c] /\ c \in Calling /\ c.pc = "resolve" /\ c.kind = "merge"
      /\ c.from = next /\ c.to = tx[t].keep /\ c.keep = tx[t].keep
  <2>1. "resolve" \in Places /\ next \in 0 .. MaxPerson /\ tx[t].keep \in 0 .. MaxPerson
    <3>1. \A p \in Folk!Persons : p \in 0 .. MaxPerson
      BY PeopleConstantsAre DEF Folk!Persons
    <3> QED BY <3>1, <1>2 DEF Places
  <2>2. tx[t].rest \ {next} \in SUBSET Folk!Persons
    BY <1>1
  <2>3. tx' = [tx EXCEPT ![t] = c]
    <3>1. tx \in [Callers -> {Folk!Idle} \cup Calling]
      BY <1>0 DEF CallsOK
    <3> QED BY <3>1
  <2>4. c \in Calling
    BY <1>1, <2>1, <2>2 DEF Calling
  <2>5. c.pc = "resolve" /\ c.kind = "merge" /\ c.from = next /\ c.to = tx[t].keep /\ c.keep = tx[t].keep
    BY <1>1 DEF Calling
  <2> QED BY <2>3, <2>4, <2>5
<1> HIDE DEF c
<1>4. CallOK(c)
  BY <1>2, <1>3 DEF CallOK, Merging, Both
<1>5. /\ lock' \in [Folk!Persons \cup Addresses -> Callers \cup {None}]
      /\ \A x \in Folk!Persons \cup Addresses : lock'[x] = IF lock[x] = t THEN None ELSE lock[x]
  BY <1>0 DEF Folk!Release, CallsOK
<1>6. \A x \in Folk!Persons \cup Addresses : ~Keeps(c, x) /\ lock'[x] # t
  BY <1>3, <1>5, PeopleConstantsAre DEF Keeps, Both
<1>7. ~Both(c) /\ ~Merging(c) /\ c.kind # "link"
  BY <1>3 DEF Both, Merging
<1>8. \A x \in Folk!Persons \cup Addresses : lock'[x] = lock[x] \/ {lock[x], lock'[x]} \subseteq {None, t}
  BY <1>5
<1> QED BY <1>0, <1>3, <1>4, <1>5, <1>6, <1>7, <1>8, SetDone

LEMMA MergePersonsDone ==
  ASSUME PplIInv, NEW t \in Callers, Folk!MergePersons(t) PROVE StepOfCall(t) /\ TableStep(t)
<1>0. CallsOK
  BY DEF PplIInv
<1>1. ASSUME Folk!At(t, "merge", "resolve"), UNCHANGED <<Folk!rows, peoplePast>>,
             IF Folk!Follow(tx[t].to) = 0 THEN Folk!End(t)
             ELSE tx' = [tx EXCEPT ![t].to = Folk!Follow(tx[t].to), ![t].pc = "first"] /\ UNCHANGED lock
      PROVE  StepOfCall(t) /\ TableStep(t)
  <2>1. TableStep(t)
    BY <1>1, StillDone
  <2>2. CASE Folk!Follow(tx[t].to) = 0
    BY <2>1, <2>2, <1>0, <1>1, CallEnds
  <2>3. CASE Folk!Follow(tx[t].to) # 0
    <3>1. UNCHANGED <<Folk!rows, peoplePast, lock>>
      BY <1>1, <2>3
    <3> QED BY <2>1, <2>3, <3>1, <1>1, FirstStepDone
  <2> QED BY <2>2, <2>3
<1>2. ASSUME tx[t].kind = "merge", Folk!lockBoth(t) \/ Folk!lockAccounts(t) PROVE StepOfCall(t) /\ TableStep(t)
  BY <1>2, lockBothDone, lockAccountsDone
<1>3. ASSUME Folk!At(t, "merge", "commit"), Folk!moveBulkRows(tx[t].from, tx[t].to), Folk!mergePersonsTx(t),
             IF tx[t].rest = {} THEN Folk!End(t)
             ELSE /\ tx' = [tx EXCEPT ![t].from = CHOOSE p \in tx[t].rest : \A q \in tx[t].rest : p <= q,
                                      ![t].to = tx[t].keep,
                                      ![t].rest = @ \ {CHOOSE p \in tx[t].rest : \A q \in tx[t].rest : p <= q},
                                      ![t].pc = "resolve"]
                  /\ Folk!Release(t)
      PROVE  StepOfCall(t) /\ TableStep(t)
  <2>1. TableStep(t)
    BY <1>3, MergedTables DEF Folk!At
  <2>2. CASE tx[t].rest = {}
    BY <2>1, <2>2, <1>0, <1>3, CallEnds
  <2>3. CASE tx[t].rest # {}
    <3> DEFINE next == CHOOSE p \in tx[t].rest : \A q \in tx[t].rest : p <= q
    <3>1. tx[t].rest \in SUBSET Folk!Persons
      <4>1. "merge" \in Kinded
        BY DEF Kinded
      <4>2. tx[t] \in Calling
        BY <4>1, <1>0, <1>3, AtIs
      <4> QED BY <4>2, CallingIs
    <3>2. next \in tx[t].rest
      BY <2>3, <3>1, LeastIs
    <3>3. /\ tx' = [tx EXCEPT ![t].from = next, ![t].to = tx[t].keep, ![t].rest = @ \ {next}, ![t].pc = "resolve"]
          /\ Folk!Release(t)
      BY <2>3, <1>3
    <3> HIDE DEF next
    <3> QED BY <2>1, <2>3, <3>2, <3>3, <1>3, NextMemberDone
  <2> QED BY <2>2, <2>3
<1> QED BY <1>1, <1>2, <1>3 DEF Folk!MergePersons


-----------------------------------------------------------------------------
(* People: a link of an address. *)

(* Only accounts change, and only to somebody who was there and not merged   *)
(* away, with no password of somebody else on a proven address.              *)
LEMMA AccountTables ==
  ASSUME PplIInv, NEW t, UNCHANGED <<person, channel, note, sorted, auth>>,
         account' \in [Addresses -> Folk!Login \cup {None}], HistoryOK',
         peoplePast'.swept = peoplePast.swept, peoplePast'.lent = peoplePast.lent, peoplePast'.done = peoplePast.done, peoplePast'.met = peoplePast.met,
         peoplePast'.notes = peoplePast.notes, peoplePast'.newest = peoplePast.newest,
         \A e \in Addresses : lock[e] \notin {None, t} /\ account[e] # None => account'[e] # None,
         \A e \in Addresses : account'[e] # None =>
           /\ account'[e].verified => account'[e].pw # "unproven"
           /\ \/ account'[e].person = 0
              \/ account[e] # None /\ account'[e].person = account[e].person
              \/ Folk!Known(account'[e].person) /\ (~peoplePast.met => Folk!Live(account'[e].person))
  PROVE  TableStep(t)
<1>1. person' = person /\ channel' = channel /\ note' = note /\ sorted' = sorted /\ auth' = auth
  OBVIOUS
<1>2. TablesOK'
  BY <1>1 DEF PplIInv, TablesOK
<1>3. RowsStay(t)
  BY <1>1 DEF RowsStay
<1>4. OneStep'
  BY <1>1 DEF PplIInv, OneStep, Folk!Known, Folk!Live
<1>5. Placed'
  <2>1. ASSUME ~peoplePast'.met, ~peoplePast'.swept PROVE Folk!UnderSomebody'
    <3>1. Folk!UnderSomebody /\ ~peoplePast.met
      BY <2>1 DEF PplIInv, Placed
    <3>2. ASSUME NEW e \in Addresses, account'[e] # None, account'[e].person # 0 PROVE Folk!Live(account'[e].person)
      BY <3>1, <3>2 DEF Folk!UnderSomebody
    <3>3. \A e \in Addresses : account'[e] # None /\ account'[e].person # 0 =>
            person[account'[e].person] # None /\ person[account'[e].person].merged = 0
      BY <3>2 DEF Folk!Live, Folk!Known
    <3> QED BY <1>1, <3>1, <3>3 DEF Folk!UnderSomebody, Folk!Live, Folk!Known
  <2> QED BY <2>1 DEF Placed
<1>6. Folk!NothingLost' /\ Folk!SortedUnlessLent' /\ Folk!ProvenIsTheirs'
  BY <1>1 DEF PplIInv, Folk!NothingLost, Folk!SortedUnlessLent, Folk!SortedMeansSorted, Folk!ProvenIsTheirs
<1> QED BY <1>2, <1>3, <1>4, <1>5, <1>6 DEF TableStep

(* One account of a person who was looked up is written.                     *)
LEMMA OneAccount ==
  ASSUME PplIInv, NEW t \in Callers, tx[t] # Folk!Idle, tx[t].kind = "link", Folk!Known(tx[t].from),
         NEW e \in Addresses, NEW new \in Folk!Login, new.person = tx[t].from, new.verified => new.pw # "unproven",
         account' = [account EXCEPT ![e] = new], UNCHANGED <<person, channel, note, sorted, auth, peoplePast>>
  PROVE  TableStep(t)
<1>1. account' \in [Addresses -> Folk!Login \cup {None}] /\ account'[e] = new /\ \A d \in Addresses \ {e} : account'[d] = account[d]
  BY DEF PplIInv, TablesOK
<1>2. HistoryOK' /\ peoplePast' = peoplePast
  BY DEF PplIInv, HistoryOK
<1>3. new # None
  BY PeopleConstantsAre
<1>4. ~peoplePast.met => Folk!Live(tx[t].from)
  <2>1. tx[t].from \in Folk!Persons
    BY ActiveCall DEF PplIInv, CallOK
  <2> QED BY <2>1 DEF PplIInv, FoundLive, StillLive
<1>5. ASSUME NEW d \in Addresses, account'[d] # None
      PROVE  /\ account'[d].verified => account'[d].pw # "unproven"
             /\ \/ account'[d].person = 0
                \/ account[d] # None /\ account'[d].person = account[d].person
                \/ Folk!Known(account'[d].person) /\ (~peoplePast.met => Folk!Live(account'[d].person))
  <2>1. CASE d = e
    BY <2>1, <1>1, <1>4
  <2>2. CASE d # e
    <3>1. account'[d] = account[d]
      BY <2>2, <1>1
    <3> QED BY <3>1, <1>5 DEF PplIInv, Folk!ProvenIsTheirs
  <2> QED BY <2>1, <2>2
<1>6. \A d \in Addresses : account[d] # None => account'[d] # None
  BY <1>1, <1>3
<1>7. UNCHANGED <<person, channel, note, sorted, auth>>
  OBVIOUS
<1> QED BY <1>1, <1>2, <1>5, <1>6, <1>7, AccountTables

LEMMA LinkFindDone ==
  ASSUME PplIInv, NEW t \in Callers, Folk!At(t, "link", "find"), UNCHANGED <<Folk!rows, peoplePast>>,
         NEW e, e = tx[t].email, NEW p, p = tx[t].from,
         IF account[e] = None THEN Folk!Go(t, "insert") /\ UNCHANGED lock
         ELSE /\ Folk!Free(e, t)
              /\ Folk!Lock(e, t)
              /\ IF account[e].verified /\ account[e].person \notin {0, p}
                 THEN tx' = [tx EXCEPT ![t].to = Folk!Follow(account[e].person), ![t].pc = "other"]
                 ELSE Folk!Go(t, "write")
  PROVE  StepOfCall(t)
<1>0. CallsOK /\ LocksOK /\ TablesOK /\ "link" \in Kinded /\ person' = person /\ account' = account /\ peoplePast' = peoplePast
  BY DEF PplIInv, Kinded, Folk!rows
<1>1. /\ tx[t] # Folk!Idle /\ tx[t] \in Calling /\ CallOK(tx[t]) /\ tx[t].kind = "link" /\ tx[t].pc = "find"
      /\ e \in Addresses /\ p \in Folk!Persons
  BY <1>0, AtIs DEF CallOK
<1>2. ~peoplePast'.met => StillIn(person', p)
  BY <1>0, <1>1, FoundIsStill
<1>3. CASE account[e] = None
  <2> DEFINE c == [tx[t] EXCEPT !.pc = "insert"]
  <2>1. "insert" \in Places /\ "insert" \in Loose /\ "find" \in Loose /\ Folk!Go(t, "insert") /\ lock' = lock
    BY <1>3 DEF Places, Loose
  <2>2. /\ tx' = [tx EXCEPT ![t] = c] /\ c \in Calling /\ c.pc = "insert" /\ c.kind = "link" /\ c.from = p
        /\ c.email = e /\ c.to = tx[t].to
    BY <1>0, <1>1, <2>1, GoesOn
  <2> HIDE DEF c
  <2>3. CallOK(c)
    BY <1>1, <2>2 DEF CallOK, Merging, Both
  <2> QED BY <1>0, <1>1, <1>2, <2>1, <2>2, <2>3, LooseDone
<1>4. CASE account[e] # None
  <2>1. /\ lock' = [lock EXCEPT ![e] = t] /\ lock[e] \in {None, t}
    BY <1>4 DEF Folk!Lock, Folk!Free
  <2>2. /\ lock' \in [Folk!Persons \cup Addresses -> Callers \cup {None}]
        /\ \A x \in Folk!Persons \cup Addresses : lock'[x] = IF x = e THEN t ELSE lock[x]
    BY <1>0, <1>1, <2>1 DEF CallsOK
  <2>3. \A x \in Folk!Persons \cup Addresses : lock'[x] = lock[x] \/ {lock[x], lock'[x]} \subseteq {None, t}
    BY <2>1, <2>2
  <2>4. \A x \in Folk!Persons \cup Addresses : lock[x] # t
    <3>1. \A x : ~MayKeep(tx[t], x)
      BY <1>1 DEF MayKeep, Keeps, Both
    <3> QED BY <3>1, <1>1, HasLocked
  <2>5. ASSUME NEW c \in Calling, CallOK(c), c.kind = "link", c.pc \in {"other", "write"}, c.email = e, c.from = p,
               tx' = [tx EXCEPT ![t] = c], ~peoplePast'.met /\ c.pc = "other" => StillIn(person', c.to)
        PROVE  StepOfCall(t)
    <3>1. \A x \in Folk!Persons \cup Addresses : (Keeps(c, x) => lock'[x] = t) /\ (lock'[x] = t => MayKeep(c, x))
      <4>1. \A x : Keeps(c, x) <=> x = e
        BY <2>5 DEF Keeps, Both
      <4> QED BY <4>1, <2>2, <2>4 DEF MayKeep
    <3>2. ~Both(c) /\ ~Merging(c)
      BY <2>5 DEF Both, Merging
    <3> QED BY <3>1, <3>2, <1>0, <1>2, <1>4, <2>2, <2>3, <2>5, SetDone
  <2>6. CASE account[e].verified /\ account[e].person \notin {0, p}
    <3> DEFINE to == Folk!Follow(account[e].person)
               c == [tx[t] EXCEPT !.to = to, !.pc = "other"]
    <3>1. account[e].person \in 0 .. MaxPerson
      BY <1>0, <1>1, <1>4 DEF TablesOK, Folk!Login
    <3>2. to = 0 \/ (to \in Folk!Persons /\ Folk!Live(to))
      BY <3>1, <1>0, FollowIs
    <3>3. to \in 0 .. MaxPerson /\ "other" \in Places
      BY <3>2, PeopleConstantsAre DEF Folk!Persons, Places
    <3>4. tx' = [tx EXCEPT ![t].to = to, ![t].pc = "other"]
      BY <1>4, <2>6
    <3> HIDE DEF to
    <3>5. /\ tx' = [tx EXCEPT ![t] = c] /\ c \in Calling /\ c.pc = "other" /\ c.kind = "link" /\ c.from = p
          /\ c.email = e /\ c.to = to
      BY <1>1, <3>3, <3>4 DEF Calling
    <3> HIDE DEF c
    <3>6. CallOK(c)
      BY <1>1, <3>5 DEF CallOK, Merging, Both
    <3>7. StillIn(person', c.to)
      <4>1. CASE to = 0
        BY <4>1, <3>5 DEF StillIn, Folk!Persons
      <4>2. CASE to # 0
        BY <4>2, <3>2, <3>5, <1>0 DEF StillIn, Folk!Live
      <4> QED BY <4>1, <4>2
    <3> QED BY <2>5, <3>5, <3>6, <3>7
  <2>7. CASE ~(account[e].verified /\ account[e].person \notin {0, p})
    <3> DEFINE c == [tx[t] EXCEPT !.pc = "write"]
    <3>1. "write" \in Places /\ Folk!Go(t, "write")
      BY <1>4, <2>7 DEF Places
    <3>2. /\ tx' = [tx EXCEPT ![t] = c] /\ c \in Calling /\ c.pc = "write" /\ c.kind = "link" /\ c.from = p
          /\ c.email = e /\ c.to = tx[t].to
      BY <1>0, <1>1, <3>1, GoesOn
    <3> HIDE DEF c
    <3>3. CallOK(c)
      BY <1>1, <3>2 DEF CallOK, Merging, Both
    <3> QED BY <2>5, <3>2, <3>3
  <2> QED BY <2>6, <2>7
<1> QED BY <1>3, <1>4


LEMMA LinkInsertDone ==
  ASSUME PplIInv, NEW t \in Callers, Folk!At(t, "link", "insert"), UNCHANGED <<person, channel, note, sorted, auth, peoplePast>>,
         NEW e, e = tx[t].email, NEW p, p = tx[t].from,
         IF account[e] = None
         THEN /\ account' = IF Folk!Known(p) THEN [account EXCEPT ![e] = [person |-> p, verified |-> TRUE, pw |-> "none"]]
                            ELSE account
              /\ Folk!End(t)
         ELSE /\ IF tx[t].tries < 2
                 THEN tx' = [tx EXCEPT ![t].tries = @ + 1, ![t].pc = "find"] /\ UNCHANGED lock
                 ELSE Folk!End(t)
              /\ UNCHANGED account
  PROVE  StepOfCall(t) /\ TableStep(t)
<1>0. CallsOK /\ LocksOK /\ TablesOK /\ "link" \in Kinded /\ person' = person /\ peoplePast' = peoplePast
  BY DEF PplIInv, Kinded
<1>1. /\ tx[t] # Folk!Idle /\ tx[t] \in Calling /\ CallOK(tx[t]) /\ tx[t].kind = "link" /\ tx[t].pc = "insert"
      /\ e \in Addresses /\ p \in Folk!Persons /\ tx[t].tries \in Nat
  BY <1>0, AtIs, CallingIs DEF CallOK
<1>2. ASSUME account' = account PROVE TableStep(t)
  <2>1. UNCHANGED <<Folk!rows, peoplePast>>
    BY <1>2 DEF Folk!rows
  <2> QED BY <2>1, StillDone
<1>3. CASE account[e] = None
  <2>1. StepOfCall(t)
    BY <1>0, <1>3, CallEnds
  <2>2. CASE Folk!Known(p)
    <3> DEFINE new == [person |-> p, verified |-> TRUE, pw |-> "none"]
    <3>1. account' = [account EXCEPT ![e] = new]
      BY <1>3, <2>2
    <3>2. new \in Folk!Login /\ new.person = tx[t].from /\ new.pw # "unproven"
      BY <1>1, PeopleConstantsAre DEF Folk!Login, Folk!Persons
    <3>3. UNCHANGED <<person, channel, note, sorted, auth, peoplePast>>
      OBVIOUS
    <3> HIDE DEF new
    <3> QED BY <1>1, <2>1, <2>2, <3>1, <3>2, <3>3, OneAccount
  <2>3. CASE ~Folk!Known(p)
    BY <1>2, <1>3, <2>1, <2>3
  <2> QED BY <2>2, <2>3
<1>4. CASE account[e] # None /\ tx[t].tries < 2
  <2> DEFINE c == [tx[t] EXCEPT !.tries = @ + 1, !.pc = "find"]
  <2>1. tx' = [tx EXCEPT ![t].tries = @ + 1, ![t].pc = "find"] /\ lock' = lock
    BY <1>4
  <2>2. "find" \in Places /\ "find" \in Loose /\ "insert" \in Loose
    BY DEF Places, Loose
  <2>3. tx' = [tx EXCEPT ![t] = c]
    BY <2>1
  <2>9. tx[t].tries + 1 \in Nat
    BY <1>1
  <2>10. c \in Calling
    BY <1>1, <2>2, <2>9 DEF Calling
  <2>4. c.pc = "find" /\ c.kind = "link" /\ c.from = p /\ c.email = e /\ c.to = tx[t].to
    BY <1>1 DEF Calling
  <2> HIDE DEF c
  <2>5. CallOK(c)
    BY <1>1, <2>4 DEF CallOK, Merging, Both
  <2>6. ~peoplePast'.met => StillIn(person', p)
    BY <1>0, <1>1, FoundIsStill
  <2>7. StepOfCall(t)
    BY <1>0, <1>1, <2>1, <2>2, <2>3, <2>4, <2>5, <2>6, <2>10, LooseDone
  <2> QED BY <1>2, <1>4, <2>7
<1>5. CASE account[e] # None /\ ~(tx[t].tries < 2)
  BY <1>0, <1>2, <1>5, CallEnds
<1> QED BY <1>3, <1>4, <1>5

LEMMA LinkWriteDone ==
  ASSUME PplIInv, NEW t \in Callers, Folk!At(t, "link", "write"), UNCHANGED <<person, channel, note, sorted, auth, peoplePast>>,
         NEW e, e = tx[t].email, NEW p, p = tx[t].from, Folk!End(t),
         IF ~Folk!Known(p) THEN UNCHANGED account
         ELSE IF account[e].verified THEN account' = [account EXCEPT ![e].person = p]
         ELSE Folk!takeOver(e, p)
  PROVE  StepOfCall(t) /\ TableStep(t)
<1>0. CallsOK /\ TablesOK /\ LockedStay /\ "link" \in Kinded
  BY DEF PplIInv, Kinded
<1>1. /\ tx[t] # Folk!Idle /\ tx[t] \in Calling /\ CallOK(tx[t]) /\ tx[t].kind = "link" /\ tx[t].pc = "write"
      /\ e \in Addresses /\ p \in Folk!Persons /\ p \in 0 .. MaxPerson
  BY <1>0, AtIs, PeopleConstantsAre DEF CallOK, Folk!Persons
<1>2. StepOfCall(t)
  BY <1>0, CallEnds
<1>3. account[e] # None /\ account[e] \in Folk!Login
  BY <1>0, <1>1 DEF LockedStay, TablesOK
<1>4. UNCHANGED <<person, channel, note, sorted, auth, peoplePast>>
  OBVIOUS
<1>5. CASE ~Folk!Known(p)
  <2>1. UNCHANGED <<Folk!rows, peoplePast>>
    BY <1>5 DEF Folk!rows
  <2> QED BY <1>2, <2>1, StillDone
<1>6. CASE Folk!Known(p) /\ account[e].verified
  <2> DEFINE new == [account[e] EXCEPT !.person = p]
  <2>1. account' = [account EXCEPT ![e] = new]
    BY <1>6
  <2>2. new \in Folk!Login /\ new.person = tx[t].from /\ new.pw = account[e].pw
    BY <1>1, <1>3 DEF Folk!Login
  <2>3. account[e].pw # "unproven"
    BY <1>1, <1>3, <1>6 DEF PplIInv, Folk!ProvenIsTheirs
  <2> HIDE DEF new
  <2> QED BY <1>1, <1>2, <1>4, <1>6, <2>1, <2>2, <2>3, OneAccount
<1>7. CASE Folk!Known(p) /\ ~account[e].verified
  <2> DEFINE new == [person |-> p, verified |-> TRUE, pw |-> "none"]
  <2>1. account' = [account EXCEPT ![e] = new]
    BY <1>7 DEF Folk!takeOver
  <2>2. new \in Folk!Login /\ new.person = tx[t].from /\ new.pw # "unproven"
    BY <1>1 DEF Folk!Login
  <2> HIDE DEF new
  <2> QED BY <1>1, <1>2, <1>4, <1>7, <2>1, <2>2, OneAccount
<1> QED BY <1>5, <1>6, <1>7

LEMMA LinkOtherDone ==
  ASSUME PplIInv, NEW t \in Callers, Folk!At(t, "link", "other"), UNCHANGED <<Folk!rows, peoplePast>>,
         IF tx[t].to = 0 THEN Folk!End(t)
         ELSE Folk!Go(t, IF tx[t].to = tx[t].from THEN "write" ELSE "first") /\ UNCHANGED lock
  PROVE  StepOfCall(t)
<1>0. CallsOK /\ LockedStay /\ "link" \in Kinded /\ person' = person /\ account' = account /\ peoplePast' = peoplePast
  BY DEF PplIInv, Kinded, Folk!rows
<1>1. tx[t] # Folk!Idle /\ tx[t] \in Calling /\ CallOK(tx[t]) /\ tx[t].kind = "link" /\ tx[t].pc = "other"
  BY <1>0, AtIs
<1>2. CASE tx[t].to = 0
  BY <1>0, <1>2, CallEnds
<1>3. CASE tx[t].to # 0
  <2> DEFINE at == IF tx[t].to = tx[t].from THEN "write" ELSE "first"
             c == [tx[t] EXCEPT !.pc = at]
  <2>1. at \in {"write", "first"} /\ at \in Places /\ Folk!Go(t, at) /\ lock' = lock
    BY <1>3 DEF Places
  <2>2. tx[t].to \in Folk!Persons
    BY <1>1, <1>3, CallingIs, PeopleConstantsAre DEF Folk!Persons
  <2> HIDE DEF at
  <2>3. /\ tx' = [tx EXCEPT ![t] = c] /\ c \in Calling /\ c.pc = at /\ c.kind = "link" /\ c.from = tx[t].from
        /\ c.email = tx[t].email /\ c.to = tx[t].to
    BY <1>0, <1>1, <2>1, GoesOn
  <2> HIDE DEF c
  <2>4. CallOK(c)
    BY <1>1, <2>1, <2>2, <2>3 DEF CallOK, Merging, Both
  <2>5. \A x \in Folk!Persons \cup Addresses : (Keeps(c, x) => lock'[x] = t) /\ (lock'[x] = t => MayKeep(c, x))
    <3>1. ASSUME NEW x PROVE Keeps(c, x) <=> Keeps(tx[t], x)
      BY <1>1, <2>1, <2>3 DEF Keeps, Both
    <3>2. ASSUME NEW x PROVE MayKeep(tx[t], x) <=> Keeps(tx[t], x)
      BY <1>1 DEF MayKeep
    <3> QED BY <1>1, <2>1, <3>1, <3>2, HasLocked DEF MayKeep
  <2>6. lock' \in [Folk!Persons \cup Addresses -> Callers \cup {None}]
    BY <1>0, <2>1 DEF CallsOK
  <2>7. ~Both(c) /\ account'[c.email] # None
    BY <1>0, <1>1, <2>1, <2>3 DEF Both, LockedStay
  <2>8. ~peoplePast'.met => StillIn(person', c.from) /\ StillIn(person', c.to)
    BY <1>0, <1>1, <2>3, FoundIsStill
  <2> QED BY <1>0, <2>1, <2>3, <2>4, <2>5, <2>6, <2>7, <2>8, SetDone
<1> QED BY <1>2, <1>3

LEMMA LinkEmailDone ==
  ASSUME PplIInv, NEW t \in Callers, Folk!LinkEmail(t) PROVE StepOfCall(t) /\ TableStep(t)
<1> DEFINE e == tx[t].email
           p == tx[t].from
<1>1. ASSUME Folk!At(t, "link", "find"), UNCHANGED <<Folk!rows, peoplePast>>,
             IF account[e] = None THEN Folk!Go(t, "insert") /\ UNCHANGED lock
             ELSE /\ Folk!Free(e, t)
                  /\ Folk!Lock(e, t)
                  /\ IF account[e].verified /\ account[e].person \notin {0, p}
                     THEN tx' = [tx EXCEPT ![t].to = Folk!Follow(account[e].person), ![t].pc = "other"]
                     ELSE Folk!Go(t, "write")
      PROVE  StepOfCall(t) /\ TableStep(t)
  BY <1>1, LinkFindDone, StillDone
<1>2. ASSUME Folk!At(t, "link", "insert"), UNCHANGED <<person, channel, note, sorted, auth, peoplePast>>,
             IF account[e] = None
             THEN /\ account' = IF Folk!Known(p) THEN [account EXCEPT ![e] = [person |-> p, verified |-> TRUE, pw |-> "none"]]
                                ELSE account
                  /\ Folk!End(t)
             ELSE /\ IF tx[t].tries < 2
                     THEN tx' = [tx EXCEPT ![t].tries = @ + 1, ![t].pc = "find"] /\ UNCHANGED lock
                     ELSE Folk!End(t)
                  /\ UNCHANGED account
      PROVE  StepOfCall(t) /\ TableStep(t)
  BY <1>2, LinkInsertDone
<1>3. ASSUME Folk!At(t, "link", "write"), UNCHANGED <<person, channel, note, sorted, auth, peoplePast>>, Folk!End(t),
             IF ~Folk!Known(p) THEN UNCHANGED account
             ELSE IF account[e].verified THEN account' = [account EXCEPT ![e].person = p]
             ELSE Folk!takeOver(e, p)
      PROVE  StepOfCall(t) /\ TableStep(t)
  BY <1>3, LinkWriteDone
<1>4. ASSUME Folk!At(t, "link", "other"), UNCHANGED <<Folk!rows, peoplePast>>,
             IF tx[t].to = 0 THEN Folk!End(t)
             ELSE Folk!Go(t, IF tx[t].to = p THEN "write" ELSE "first") /\ UNCHANGED lock
      PROVE  StepOfCall(t) /\ TableStep(t)
  BY <1>4, LinkOtherDone, StillDone
<1>5. ASSUME tx[t].kind = "link", Folk!lockBoth(t) \/ Folk!lockAccounts(t) PROVE StepOfCall(t) /\ TableStep(t)
  BY <1>5, lockBothDone, lockAccountsDone
<1>6. ASSUME Folk!At(t, "link", "commit"), Folk!moveBulkRows(p, tx[t].to), Folk!mergePersonsTx(t), Folk!End(t)
      PROVE  StepOfCall(t) /\ TableStep(t)
  <2>1. StepOfCall(t)
    BY <1>6, CallEnds DEF PplIInv
  <2> QED BY <1>6, <2>1, MergedTables DEF Folk!At
<1> QED BY <1>1, <1>2, <1>3, <1>4, <1>5, <1>6 DEF Folk!LinkEmail


-----------------------------------------------------------------------------
(* People: calls that write one row of a table. *)

(* A row of persons is made, or written as somebody who is there.            *)
LEMMA PersonTables ==
  ASSUME PplIInv, NEW t, NEW p \in Folk!Persons, NEW new \in Folk!Person, new.merged = 0,
         person' = [person EXCEPT ![p] = new], UNCHANGED <<channel, note, sorted, auth>>,
         account' \in [Addresses -> Folk!Login \cup {None}],
         \A e \in Addresses : account'[e] # None <=> account[e] # None,
         \A e \in Addresses : account[e] # None =>
           /\ account'[e].verified = account[e].verified /\ account'[e].pw = account[e].pw
           /\ account'[e].person \in {account[e].person, p},
         HistoryOK', peoplePast'.swept = peoplePast.swept, peoplePast'.lent = peoplePast.lent, peoplePast'.done = peoplePast.done,
         peoplePast'.notes = peoplePast.notes, peoplePast'.newest = peoplePast.newest, ~peoplePast'.met => ~peoplePast.met
  PROVE  TableStep(t)
<1>1. /\ channel' = channel /\ note' = note /\ sorted' = sorted /\ auth' = auth
  OBVIOUS
<1>2. /\ person' \in [Folk!Persons -> Folk!Person \cup {None}] /\ person'[p] = new /\ new # None
      /\ \A q \in Folk!Persons \ {p} : person'[q] = person[q]
  BY PeopleConstantsAre DEF PplIInv, TablesOK
<1>3. TablesOK'
  BY <1>1, <1>2 DEF PplIInv, TablesOK
<1>4. \A q \in Folk!Persons : Folk!Live(q) => person'[q] # None /\ person'[q].merged = 0
  BY <1>2 DEF Folk!Live, Folk!Known
<1>5. RowsStay(t)
  <2>1. \A q \in Folk!Persons : person[q] # None => person'[q] # None /\ (person[q].merged = 0 => person'[q].merged = 0)
    BY <1>2
  <2>2. ASSUME NEW q \in Folk!Persons, StillIn(person, q) PROVE StillIn(person', q)
    BY <2>2, <1>2 DEF StillIn
  <2> QED BY <2>1, <2>2 DEF RowsStay
<1>6. OneStep'
  <2>1. ASSUME ~peoplePast'.met, ~peoplePast'.swept, NEW q \in Folk!Persons, person'[q] # None, person'[q].merged # 0
        PROVE  person'[q].merged \in Folk!Persons /\ person'[person'[q].merged] # None /\ person'[person'[q].merged].merged = 0
    <3>1. q # p /\ person'[q] = person[q]
      BY <2>1, <1>2
    <3>2. person[q].merged \in Folk!Persons /\ Folk!Live(person[q].merged)
      BY <2>1, <3>1 DEF PplIInv, OneStep, Folk!Known, Folk!Live
    <3> QED BY <3>1, <3>2, <1>4
  <2> QED BY <2>1 DEF OneStep, Folk!Known, Folk!Live
<1>7. Placed'
  <2>1. ASSUME ~peoplePast'.met, ~peoplePast'.swept PROVE Folk!UnderSomebody'
    <3>1. Folk!UnderSomebody
      BY <2>1 DEF PplIInv, Placed
    <3>2. ASSUME NEW c \in Chats, channel[c] # None
          PROVE  person'[channel[c].person] # None /\ person'[channel[c].person].merged = 0
      <4>1. Folk!Live(channel[c].person) /\ channel[c].person \in Folk!Persons
        BY <3>1, <3>2 DEF Folk!UnderSomebody, PplIInv, TablesOK, Folk!Channel
      <4> QED BY <4>1, <1>4
    <3>3. ASSUME NEW e \in Addresses, account'[e] # None, account'[e].person # 0
          PROVE  person'[account'[e].person] # None /\ person'[account'[e].person].merged = 0
      <4>1. account[e] # None /\ account'[e].person \in {account[e].person, p}
        BY <3>3
      <4>2. CASE account'[e].person = p
        BY <4>2, <1>2
      <4>3. CASE account'[e].person = account[e].person
        <5>1. Folk!Live(account[e].person)
          BY <3>1, <3>3, <4>1, <4>3 DEF Folk!UnderSomebody
        <5>2. account[e].person \in 0 .. MaxPerson /\ account[e].person # 0
          BY <3>3, <4>1, <4>3 DEF PplIInv, TablesOK, Folk!Login
        <5>3. account[e].person \in Folk!Persons
          BY <5>2, PeopleConstantsAre DEF Folk!Persons
        <5> QED BY <5>1, <5>3, <4>3, <1>4
      <4> QED BY <4>1, <4>2, <4>3
    <3>4. \A q \in Folk!Persons : note[q] # {} \/ auth[q] # 0 => person'[q] # None /\ person'[q].merged = 0
      BY <3>1, <1>4 DEF Folk!UnderSomebody
    <3> QED BY <3>2, <3>3, <3>4, <1>1 DEF Folk!UnderSomebody, Folk!Live, Folk!Known
  <2> QED BY <2>1 DEF Placed
<1>8. Folk!NothingLost' /\ Folk!SortedUnlessLent'
  BY <1>1 DEF PplIInv, Folk!NothingLost, Folk!SortedUnlessLent, Folk!SortedMeansSorted
<1>9. Folk!ProvenIsTheirs'
  BY DEF PplIInv, Folk!ProvenIsTheirs
<1> QED BY <1>3, <1>5, <1>6, <1>7, <1>8, <1>9 DEF TableStep

(* Rows of chats change: each is whose it was, or of somebody who is there.  *)
LEMMA ChannelTables ==
  ASSUME PplIInv, NEW t, channel' \in [Chats -> Folk!Channel \cup {None}], UNCHANGED <<person, account, note, sorted, auth>>,
         HistoryOK', peoplePast'.swept = peoplePast.swept, peoplePast'.lent = peoplePast.lent, peoplePast'.done = peoplePast.done,
         peoplePast'.notes = peoplePast.notes, peoplePast'.newest = peoplePast.newest, ~peoplePast'.met => ~peoplePast.met,
         \A c \in Chats : channel'[c] # None =>
           \/ channel[c] # None /\ channel'[c].person = channel[c].person
           \/ ~peoplePast'.met /\ ~peoplePast'.swept => Folk!Live(channel'[c].person)
  PROVE  TableStep(t)
<1>1. person' = person /\ account' = account /\ note' = note /\ sorted' = sorted /\ auth' = auth
  OBVIOUS
<1>2. TablesOK'
  BY <1>1 DEF PplIInv, TablesOK
<1>3. RowsStay(t)
  BY <1>1 DEF RowsStay
<1>4. OneStep'
  BY <1>1 DEF PplIInv, OneStep, Folk!Known, Folk!Live
<1>5. Placed'
  <2>1. ASSUME ~peoplePast'.met, ~peoplePast'.swept PROVE Folk!UnderSomebody'
    <3>1. Folk!UnderSomebody
      BY <2>1 DEF PplIInv, Placed
    <3>2. ASSUME NEW c \in Chats, channel'[c] # None PROVE Folk!Live(channel'[c].person)
      BY <2>1, <3>1, <3>2 DEF Folk!UnderSomebody
    <3>3. \A c \in Chats : channel'[c] # None => person[channel'[c].person] # None /\ person[channel'[c].person].merged = 0
      BY <3>2 DEF Folk!Live, Folk!Known
    <3> QED BY <1>1, <3>1, <3>3 DEF Folk!UnderSomebody, Folk!Live, Folk!Known
  <2> QED BY <2>1 DEF Placed
<1>6. Folk!NothingLost' /\ Folk!SortedUnlessLent' /\ Folk!ProvenIsTheirs'
  BY <1>1 DEF PplIInv, Folk!NothingLost, Folk!SortedUnlessLent, Folk!SortedMeansSorted, Folk!ProvenIsTheirs
<1> QED BY <1>2, <1>3, <1>4, <1>5, <1>6 DEF TableStep

(* What a bounded call adds to the history.                                  *)
LEMMA CountedIs ==
  ASSUME HistoryOK, peoplePast' = [peoplePast EXCEPT !.calls = @ + 1]
  PROVE  /\ HistoryOK' /\ peoplePast'.swept = peoplePast.swept /\ peoplePast'.lent = peoplePast.lent /\ peoplePast'.done = peoplePast.done
         /\ peoplePast'.notes = peoplePast.notes /\ peoplePast'.newest = peoplePast.newest /\ peoplePast'.met = peoplePast.met
BY DEF HistoryOK

LEMMA MetIs ==
  ASSUME HistoryOK, NEW b \in BOOLEAN, peoplePast' = [peoplePast EXCEPT !.met = @ \/ b]
  PROVE  /\ HistoryOK' /\ peoplePast'.swept = peoplePast.swept /\ peoplePast'.lent = peoplePast.lent /\ peoplePast'.done = peoplePast.done
         /\ peoplePast'.notes = peoplePast.notes /\ peoplePast'.newest = peoplePast.newest /\ (peoplePast'.met <=> peoplePast.met \/ b)
BY DEF HistoryOK

LEMMA RowIs ==
  ASSUME TablesOK, NEW p \in Folk!Persons, NEW named \in BOOLEAN
  PROVE  LET new == [merged |-> 0, named |-> named, young |-> IF person[p] = None THEN TRUE ELSE person[p].young] IN
         new \in Folk!Person /\ new.merged = 0
<1>1. (IF person[p] = None THEN TRUE ELSE person[p].young) \in BOOLEAN
  BY DEF TablesOK, Folk!Person
<1>2. 0 \in 0 .. MaxPerson
  BY PeopleConstantsAre
<1> QED BY <1>1, <1>2 DEF Folk!Person

LEMMA renameMeDone ==
  ASSUME PplIInv, NEW t \in Callers, Folk!renameMe(t) PROVE StepOfCall(t) /\ TableStep(t)
<1>0. CallsOK /\ TablesOK /\ HistoryOK /\ "rename" \in Kinded
  BY DEF PplIInv, Kinded
<1> DEFINE p == tx[t].from
           new == [merged |-> 0, named |-> TRUE, young |-> IF person[p] = None THEN TRUE ELSE person[p].young]
<1>1. /\ Folk!At(t, "rename", "save") /\ person' = [person EXCEPT ![p] = new] /\ Folk!End(t)
      /\ peoplePast' = [peoplePast EXCEPT !.met = @ \/ ~Folk!Live(p)] /\ UNCHANGED <<channel, account, note, sorted, auth>>
  BY DEF Folk!renameMe, Folk!SavePerson
<1>2. tx[t] # Folk!Idle /\ CallOK(tx[t]) /\ tx[t].kind = "rename"
  BY <1>0, <1>1, AtIs
<1>3. p \in Folk!Persons
  BY <1>2 DEF CallOK
<1>4. new \in Folk!Person /\ new.merged = 0
  BY <1>0, <1>3, RowIs
<1>5. (~Folk!Live(p)) \in BOOLEAN
  BY DEF Folk!Live, Folk!Known
<1>6. /\ HistoryOK' /\ peoplePast'.swept = peoplePast.swept /\ peoplePast'.lent = peoplePast.lent /\ peoplePast'.done = peoplePast.done
      /\ peoplePast'.notes = peoplePast.notes /\ peoplePast'.newest = peoplePast.newest /\ (~peoplePast'.met => ~peoplePast.met)
  BY <1>0, <1>1, <1>5, MetIs
<1>7. account' \in [Addresses -> Folk!Login \cup {None}] /\ account' = account
  BY <1>0, <1>1 DEF TablesOK
<1>8. UNCHANGED <<channel, note, sorted, auth>>
  BY <1>1
<1> HIDE DEF new, p
<1>9. TableStep(t)
  BY <1>1, <1>3, <1>4, <1>6, <1>7, <1>8, PersonTables
<1> QED BY <1>0, <1>1, <1>9, CallEnds

(* A chat is given to somebody; whoever is not there any more gets none.     *)
LEMMA SaveChannelDone ==
  ASSUME PplIInv, NEW t \in Callers, NEW c \in Chats, NEW p \in Folk!Persons, NEW sender \in BOOLEAN,
         Folk!SaveMessengerChannel(c, p, sender), peoplePast' = [peoplePast EXCEPT !.met = @ \/ ~Folk!Live(p)], Folk!End(t),
         UNCHANGED <<person, account, note, sorted, auth>>
  PROVE  StepOfCall(t) /\ TableStep(t)
<1>0. CallsOK /\ TablesOK /\ HistoryOK
  BY DEF PplIInv
<1> DEFINE new == [person |-> p, sender |-> sender]
<1>1. channel' = IF Folk!Known(p) THEN [channel EXCEPT ![c] = new] ELSE channel
  BY DEF Folk!SaveMessengerChannel
<1>2. new \in Folk!Channel /\ new.person = p
  BY DEF Folk!Channel
<1>3. (~Folk!Live(p)) \in BOOLEAN
  BY DEF Folk!Live, Folk!Known
<1>4. /\ HistoryOK' /\ peoplePast'.swept = peoplePast.swept /\ peoplePast'.lent = peoplePast.lent /\ peoplePast'.done = peoplePast.done
      /\ peoplePast'.notes = peoplePast.notes /\ peoplePast'.newest = peoplePast.newest /\ (~peoplePast'.met => ~peoplePast.met)
      /\ (~peoplePast'.met => Folk!Live(p))
  BY <1>0, <1>3, MetIs
<1> HIDE DEF new
<1>5. /\ channel' \in [Chats -> Folk!Channel \cup {None}] /\ (channel'[c] = new \/ channel'[c] = channel[c])
      /\ \A d \in Chats \ {c} : channel'[d] = channel[d]
  BY <1>0, <1>1, <1>2 DEF TablesOK
<1>6. ASSUME NEW d \in Chats, channel'[d] # None
      PROVE  \/ channel[d] # None /\ channel'[d].person = channel[d].person
             \/ ~peoplePast'.met /\ ~peoplePast'.swept => Folk!Live(channel'[d].person)
  <2>1. CASE d = c
    BY <2>1, <1>2, <1>4, <1>5, <1>6
  <2>2. CASE d # c
    BY <2>2, <1>5, <1>6
  <2> QED BY <2>1, <2>2
<1>7. TableStep(t)
  BY <1>4, <1>5, <1>6, ChannelTables
<1> QED BY <1>0, <1>7, CallEnds

LEMMA redeemDone ==
  ASSUME PplIInv, NEW t \in Callers, Folk!redeemChannelByCode(t) PROVE StepOfCall(t) /\ TableStep(t)
<1>0. CallsOK /\ "redeem" \in Kinded
  BY DEF PplIInv, Kinded
<1>1. tx[t] # Folk!Idle /\ CallOK(tx[t]) /\ tx[t].kind = "redeem"
  BY <1>0, AtIs DEF Folk!redeemChannelByCode
<1>2. tx[t].from \in Folk!Persons /\ tx[t].chat \in Chats
  BY <1>1 DEF CallOK
<1> QED BY <1>2, SaveChannelDone DEF Folk!redeemChannelByCode


-----------------------------------------------------------------------------
(* People: a first message in a chat, the sweep, and what happens between. *)

LEMMA contactFindDone ==
  ASSUME PplIInv, NEW t \in Callers, Folk!At(t, "contact", "find"), NEW p \in Folk!Persons, lock' = lock,
         tx' = [tx EXCEPT ![t].from = p, ![t].pc = "channel"]
  PROVE  StepOfCall(t)
<1>0. CallsOK /\ LocksOK /\ "contact" \in Kinded
  BY DEF PplIInv, Kinded
<1>1. tx[t] # Folk!Idle /\ tx[t] \in Calling /\ CallOK(tx[t]) /\ tx[t].kind = "contact" /\ tx[t].pc = "find"
  BY <1>0, AtIs
<1> DEFINE c == [tx[t] EXCEPT !.from = p, !.pc = "channel"]
<1>2. tx' = [tx EXCEPT ![t] = c]
  OBVIOUS
<1>3. p \in 0 .. MaxPerson /\ "channel" \in Places /\ "channel" \in Loose /\ "find" \in Loose
  BY PeopleConstantsAre DEF Folk!Persons, Places, Loose
<1>4. c \in Calling /\ c.pc = "channel" /\ c.kind = "contact" /\ c.from = p /\ c.chat = tx[t].chat
  BY <1>1, <1>3 DEF Calling
<1> HIDE DEF c
<1>5. CallOK(c)
  BY <1>1, <1>4 DEF CallOK, Merging, Both
<1> QED BY <1>0, <1>1, <1>2, <1>3, <1>4, <1>5, LooseDone

LEMMA SenderIs ==
  ASSUME TablesOK, NEW p \in Folk!FindPersonBySender PROVE p \in Folk!Persons /\ Folk!Live(p)
<1>1. PICK c \in Chats : channel[c] # None /\ p = Folk!Follow(channel[c].person) /\ p # 0
  BY DEF Folk!FindPersonBySender
<1>2. channel[c].person \in 0 .. MaxPerson
  BY <1>1, PeopleConstantsAre DEF TablesOK, Folk!Channel, Folk!Persons
<1> QED BY <1>1, <1>2, FollowIs

LEMMA firstContactDone ==
  ASSUME PplIInv, NEW t \in Callers, Folk!firstContact(t) PROVE StepOfCall(t) /\ TableStep(t)
<1>0. CallsOK /\ TablesOK /\ HistoryOK /\ "contact" \in Kinded
  BY DEF PplIInv, Kinded
<1>1. ASSUME Folk!At(t, "contact", "find"), UNCHANGED <<channel, account, note, sorted, auth, lock>>,
             NEW p \in Folk!FindPersonBySender, tx' = [tx EXCEPT ![t].from = p, ![t].pc = "channel"],
             UNCHANGED <<person, peoplePast>>
      PROVE  StepOfCall(t) /\ TableStep(t)
  <2>1. p \in Folk!Persons
    BY <1>0, SenderIs
  <2>2. UNCHANGED <<Folk!rows, peoplePast>> /\ lock' = lock
    BY <1>1 DEF Folk!rows
  <2> QED BY <1>1, <2>1, <2>2, contactFindDone, StillDone
<1>2. ASSUME Folk!At(t, "contact", "find"), UNCHANGED <<channel, account, note, sorted, auth, lock>>,
             NEW p \in Folk!Persons, Folk!SavePerson(p, FALSE), tx' = [tx EXCEPT ![t].from = p, ![t].pc = "channel"],
             UNCHANGED peoplePast
      PROVE  StepOfCall(t) /\ TableStep(t)
  <2> DEFINE new == [merged |-> 0, named |-> FALSE, young |-> IF person[p] = None THEN TRUE ELSE person[p].young]
  <2>1. person' = [person EXCEPT ![p] = new]
    BY <1>2 DEF Folk!SavePerson
  <2>2. new \in Folk!Person /\ new.merged = 0
    BY <1>0, RowIs
  <2>3. HistoryOK' /\ peoplePast' = peoplePast
    BY <1>0, <1>2 DEF HistoryOK
  <2>4. account' \in [Addresses -> Folk!Login \cup {None}] /\ account' = account /\ lock' = lock
    BY <1>0, <1>2 DEF TablesOK
  <2>5. UNCHANGED <<channel, note, sorted, auth>>
    BY <1>2
  <2> HIDE DEF new
  <2>6. TableStep(t)
    BY <2>1, <2>2, <2>3, <2>4, <2>5, PersonTables
  <2> QED BY <1>2, <2>4, <2>6, contactFindDone
<1>3. ASSUME Folk!At(t, "contact", "channel"), Folk!SaveMessengerChannel(tx[t].chat, tx[t].from, TRUE),
             peoplePast' = [peoplePast EXCEPT !.met = @ \/ ~Folk!Live(tx[t].from)], Folk!End(t),
             UNCHANGED <<person, account, note, sorted, auth>>
      PROVE  StepOfCall(t) /\ TableStep(t)
  <2>1. tx[t] # Folk!Idle /\ CallOK(tx[t]) /\ tx[t].kind = "contact" /\ tx[t].pc = "channel"
    BY <1>0, <1>3, AtIs
  <2>2. tx[t].from \in Folk!Persons /\ tx[t].chat \in Chats
    BY <2>1 DEF CallOK
  <2> QED BY <1>3, <2>2, SaveChannelDone
<1> QED BY <1>1, <1>2, <1>3 DEF Folk!firstContact

(* Nobody was merged into whom the sweep takes, unless it takes somebody who *)
(* got something since: then no marker goes with them.                       *)
LEMMA CascadeIs ==
  ASSUME TablesOK, NEW S \in SUBSET Folk!Persons
  PROVE  /\ Folk!cascade(S) \in SUBSET Folk!Persons /\ S \subseteq Folk!cascade(S)
         /\ (\A p \in S : Folk!noTraces(p)) => Folk!cascade(S) = S
<1>1. Folk!cascade(S) \in SUBSET Folk!Persons /\ S \subseteq Folk!cascade(S)
  BY DEF Folk!cascade
<1>2. ASSUME \A p \in S : Folk!noTraces(p) PROVE Folk!cascade(S) \subseteq S
  <2>1. \A q \in Folk!Persons : Folk!Known(q) => person[q].merged \notin S
    BY <1>2 DEF Folk!noTraces
  <2> QED BY <2>1 DEF Folk!cascade
<1> QED BY <1>1, <1>2

LEMMA DeleteTables ==
  ASSUME PplIInv, NEW t, NEW empty \in SUBSET Folk!Persons, NEW gone, gone = Folk!cascade(empty),
         \A p \in gone : lock[p] = None,
         \A e \in Addresses : account[e] # None /\ account[e].person \in gone => lock[e] = None,
         person' = [p \in Folk!Persons |-> IF p \in gone THEN None ELSE person[p]],
         channel' = [c \in Chats |-> IF channel[c] # None /\ channel[c].person \in gone THEN None ELSE channel[c]],
         account' = [e \in Addresses |-> IF account[e] # None /\ account[e].person \in gone
                                         THEN [account[e] EXCEPT !.person = 0] ELSE account[e]],
         note' = [p \in Folk!Persons |-> IF p \in gone THEN {} ELSE note[p]],
         auth' = [p \in Folk!Persons |-> IF p \in gone THEN 0 ELSE auth[p]],
         sorted' = sorted \ gone,
         peoplePast' = [peoplePast EXCEPT !.swept = @ \/ \E p \in empty : ~Folk!noTraces(p)]
  PROVE  TableStep(t)
<1>0. TablesOK /\ HistoryOK /\ gone \in SUBSET Folk!Persons /\ 0 \in 0 .. MaxPerson
  BY CascadeIs, PeopleConstantsAre DEF PplIInv
<1>1. /\ HistoryOK' /\ peoplePast'.lent = peoplePast.lent /\ peoplePast'.done = peoplePast.done /\ peoplePast'.notes = peoplePast.notes
      /\ peoplePast'.newest = peoplePast.newest /\ peoplePast'.met = peoplePast.met
      /\ (peoplePast'.swept <=> peoplePast.swept \/ \E p \in empty : ~Folk!noTraces(p))
  BY <1>0 DEF HistoryOK
<1>2. ~peoplePast'.swept => ~peoplePast.swept /\ gone = empty /\ \A p \in gone : Folk!noTraces(p)
  BY <1>0, <1>1, CascadeIs
<1>3. /\ \A p \in Folk!Persons : person'[p] = IF p \in gone THEN None ELSE person[p]
      /\ \A p \in Folk!Persons : note'[p] = IF p \in gone THEN {} ELSE note[p]
      /\ \A p \in Folk!Persons : auth'[p] = IF p \in gone THEN 0 ELSE auth[p]
  OBVIOUS
<1>4. ASSUME NEW e \in Addresses, account[e] # None
      PROVE  /\ account'[e] \in Folk!Login /\ account'[e] # None
             /\ account'[e].verified = account[e].verified /\ account'[e].pw = account[e].pw
             /\ account'[e].person = IF account[e].person \in gone THEN 0 ELSE account[e].person
  <2>1. account[e] \in Folk!Login
    BY <1>0, <1>4 DEF TablesOK
  <2>2. account'[e] \in Folk!Login
    BY <1>0, <2>1 DEF Folk!Login
  <2>3. account'[e] # None
    BY <2>2, PeopleConstantsAre
  <2>4. /\ account'[e].verified = account[e].verified /\ account'[e].pw = account[e].pw
        /\ account'[e].person = IF account[e].person \in gone THEN 0 ELSE account[e].person
    BY <1>4, <2>1 DEF Folk!Login
  <2> QED BY <2>2, <2>3, <2>4
<1>5. \A e \in Addresses : account[e] = None => account'[e] = None
  OBVIOUS
<1>6. TablesOK'
  <2>1. person' \in [Folk!Persons -> Folk!Person \cup {None}] /\ channel' \in [Chats -> Folk!Channel \cup {None}]
    BY <1>0 DEF TablesOK
  <2>2. note' \in [Folk!Persons -> SUBSET Folk!Persons] /\ sorted' \subseteq Folk!Persons
    BY <1>0 DEF TablesOK
  <2>3. auth' \in [Folk!Persons -> Nat]
    BY <1>0 DEF TablesOK
  <2>4. account' \in [Addresses -> Folk!Login \cup {None}]
    <3>1. \A e \in Addresses : account'[e] \in Folk!Login \cup {None}
      BY <1>4, <1>5
    <3> QED BY <3>1
  <2> QED BY <2>1, <2>2, <2>3, <2>4 DEF TablesOK
<1>7. RowsStay(t)
  <2>1. \A p \in Folk!Persons : lock[p] \notin {None, t} /\ person[p] # None =>
          person'[p] # None /\ (person[p].merged = 0 => person'[p].merged = 0)
    BY <1>3
  <2>2. \A e \in Addresses : lock[e] \notin {None, t} /\ account[e] # None => account'[e] # None
    BY <1>4
  <2>3. \A p \in Folk!Persons : StillIn(person, p) => StillIn(person', p)
    BY <1>3 DEF StillIn
  <2> QED BY <1>1, <2>1, <2>2, <2>3 DEF RowsStay, StillIn
<1>8. ASSUME ~peoplePast'.met, ~peoplePast'.swept
      PROVE  /\ \A p \in Folk!Persons : Folk!Live(p) /\ p \notin gone => person'[p] # None /\ person'[p].merged = 0
             /\ \A p \in Folk!Persons : person'[p] # None => p \notin gone /\ Folk!Known(p) /\ person'[p] = person[p]
  BY <1>3 DEF Folk!Live, Folk!Known
<1>9. OneStep'
  <2>1. ASSUME ~peoplePast'.met, ~peoplePast'.swept, NEW q \in Folk!Persons, person'[q] # None, person'[q].merged # 0
        PROVE  person'[q].merged \in Folk!Persons /\ person'[person'[q].merged] # None /\ person'[person'[q].merged].merged = 0
    <3>1. Folk!Known(q) /\ person'[q] = person[q]
      BY <2>1, <1>8
    <3>2. person[q].merged \in Folk!Persons /\ Folk!Live(person[q].merged)
      BY <2>1, <3>1, <1>1, <1>2 DEF PplIInv, OneStep, Folk!Live
    <3>3. person[q].merged \notin gone
      BY <2>1, <3>1, <3>2, <1>2 DEF Folk!noTraces
    <3> QED BY <2>1, <3>1, <3>2, <3>3, <1>8
  <2> QED BY <2>1 DEF OneStep, Folk!Known, Folk!Live
<1>10. Placed'
  <2>1. ASSUME ~peoplePast'.met, ~peoplePast'.swept PROVE Folk!UnderSomebody'
    <3>1. Folk!UnderSomebody
      BY <2>1, <1>1, <1>2 DEF PplIInv, Placed
    <3>2. ASSUME NEW c \in Chats, channel'[c] # None
          PROVE  person'[channel'[c].person] # None /\ person'[channel'[c].person].merged = 0
      <4>1. channel'[c] = channel[c] /\ channel[c] # None /\ channel[c].person \notin gone
        BY <3>2
      <4>2. Folk!Live(channel[c].person) /\ channel[c].person \in Folk!Persons
        BY <3>1, <4>1, <1>0 DEF Folk!UnderSomebody, TablesOK, Folk!Channel
      <4> QED BY <4>1, <4>2, <2>1, <1>8
    <3>3. ASSUME NEW e \in Addresses, account'[e] # None, account'[e].person # 0
          PROVE  person'[account'[e].person] # None /\ person'[account'[e].person].merged = 0
      <4>1. account[e] # None
        BY <3>3, <1>5
      <4>2. account[e].person \notin gone /\ account'[e].person = account[e].person
        BY <3>3, <4>1, <1>4
      <4>3. Folk!Live(account[e].person)
        BY <3>1, <3>3, <4>1, <4>2 DEF Folk!UnderSomebody
      <4>4. account[e].person \in 0 .. MaxPerson /\ account[e].person # 0
        BY <3>3, <4>1, <4>2, <1>0 DEF TablesOK, Folk!Login
      <4>5. account[e].person \in Folk!Persons
        BY <4>4, PeopleConstantsAre DEF Folk!Persons
      <4> QED BY <4>2, <4>3, <4>5, <2>1, <1>8
    <3>4. \A q \in Folk!Persons : note'[q] # {} \/ auth'[q] # 0 => person'[q] # None /\ person'[q].merged = 0
      <4>1. ASSUME NEW q \in Folk!Persons, note'[q] # {} \/ auth'[q] # 0 PROVE person'[q] # None /\ person'[q].merged = 0
        <5>1. q \notin gone /\ (note[q] # {} \/ auth[q] # 0)
          BY <4>1, <1>3
        <5>2. Folk!Live(q)
          BY <5>1, <3>1 DEF Folk!UnderSomebody
        <5> QED BY <5>1, <5>2, <2>1, <1>8
      <4> QED BY <4>1
    <3> QED BY <3>2, <3>3, <3>4 DEF Folk!UnderSomebody, Folk!Live, Folk!Known
  <2> QED BY <2>1 DEF Placed
<1>11. Folk!NothingLost'
  <2>1. ASSUME ~peoplePast'.swept PROVE note' = note /\ auth' = auth
    <3>1. \A p \in gone : note[p] = {} /\ auth[p] = 0
      BY <2>1, <1>2 DEF Folk!noTraces
    <3>2. (\A p \in Folk!Persons : note'[p] = note[p]) /\ (\A p \in Folk!Persons : auth'[p] = auth[p])
      BY <3>1, <1>3
    <3> QED BY <3>2, <1>0, <1>6 DEF TablesOK
  <2> QED BY <2>1, <1>1, <1>2 DEF PplIInv, Folk!NothingLost
<1>12. Folk!SortedUnlessLent'
  <2>1. ASSUME ~peoplePast'.lent PROVE \A p \in sorted' : note'[p] \subseteq peoplePast'.done
    <3>1. \A p \in sorted : note[p] \subseteq peoplePast.done /\ p \in Folk!Persons
      BY <2>1, <1>0, <1>1 DEF PplIInv, Folk!SortedUnlessLent, Folk!SortedMeansSorted, TablesOK
    <3> QED BY <3>1, <1>1, <1>3
  <2> QED BY <2>1 DEF Folk!SortedUnlessLent, Folk!SortedMeansSorted
<1>13. Folk!ProvenIsTheirs'
  <2>1. ASSUME NEW e \in Addresses PROVE account'[e] # None /\ account'[e].verified => account'[e].pw # "unproven"
    <3>1. account'[e] # None => account[e] # None
      BY <1>5
    <3> QED BY <3>1, <1>4 DEF PplIInv, Folk!ProvenIsTheirs
  <2> QED BY <2>1 DEF Folk!ProvenIsTheirs
<1>14. TablesOK' /\ HistoryOK' /\ RowsStay(t)
  BY <1>1, <1>6, <1>7
<1> QED BY <1>9, <1>10, <1>11, <1>12, <1>13, <1>14 DEF TableStep

LEMMA DeleteEmptyPeopleDone ==
  ASSUME PplIInv, NEW t \in Callers, Folk!DeleteEmptyPeople(t) PROVE StepOfCall(t) /\ TableStep(t)
<1>0. CallsOK /\ LocksOK /\ "sweep" \in Kinded
  BY DEF PplIInv, Kinded
<1>1. ASSUME Folk!At(t, "sweep", "choose"), UNCHANGED <<Folk!rows, lock, peoplePast>>,
             tx' = [tx EXCEPT ![t].rest = {p \in Folk!Persons : Folk!ownColumnsEmpty(p) /\ Folk!noTraces(p)}, ![t].pc = "delete"]
      PROVE  StepOfCall(t) /\ TableStep(t)
  <2>1. tx[t] # Folk!Idle /\ tx[t] \in Calling /\ CallOK(tx[t]) /\ tx[t].kind = "sweep" /\ tx[t].pc = "choose"
    BY <1>0, <1>1, AtIs
  <2> DEFINE rest == {p \in Folk!Persons : Folk!ownColumnsEmpty(p) /\ Folk!noTraces(p)}
             c == [tx[t] EXCEPT !.rest = rest, !.pc = "delete"]
  <2>2. rest \in SUBSET Folk!Persons /\ tx' = [tx EXCEPT ![t].rest = rest, ![t].pc = "delete"] /\ lock' = lock
    BY <1>1
  <2> HIDE DEF rest
  <2>3. tx' = [tx EXCEPT ![t] = c] /\ "delete" \in Places /\ "delete" \in Loose /\ "choose" \in Loose
    BY <2>2 DEF Places, Loose
  <2>4. c \in Calling /\ c.pc = "delete" /\ c.kind = "sweep"
    BY <2>1, <2>2, <2>3 DEF Calling
  <2> HIDE DEF c
  <2>5. CallOK(c)
    BY <2>4 DEF CallOK, Merging, Both
  <2>6. StepOfCall(t)
    BY <1>0, <2>1, <2>2, <2>3, <2>4, <2>5, LooseDone
  <2>7. UNCHANGED <<Folk!rows, peoplePast>>
    BY <1>1
  <2> QED BY <2>6, <2>7, StillDone
<1> DEFINE empty == {p \in tx[t].rest : lock[p] = None /\ Folk!ownColumnsEmpty(p)}
           gone == Folk!cascade(empty)
<1>2. ASSUME Folk!At(t, "sweep", "delete"), Folk!End(t), \A p \in gone : lock[p] = None,
             \A e \in Addresses : account[e] # None /\ account[e].person \in gone => lock[e] = None,
             person' = [p \in Folk!Persons |-> IF p \in gone THEN None ELSE person[p]],
             channel' = [c \in Chats |-> IF channel[c] # None /\ channel[c].person \in gone THEN None ELSE channel[c]],
             account' = [e \in Addresses |-> IF account[e] # None /\ account[e].person \in gone
                                             THEN [account[e] EXCEPT !.person = 0] ELSE account[e]],
             note' = [p \in Folk!Persons |-> IF p \in gone THEN {} ELSE note[p]],
             auth' = [p \in Folk!Persons |-> IF p \in gone THEN 0 ELSE auth[p]],
             sorted' = sorted \ gone,
             peoplePast' = [peoplePast EXCEPT !.swept = @ \/ \E p \in empty : ~Folk!noTraces(p)]
      PROVE  StepOfCall(t) /\ TableStep(t)
  <2>1. tx[t] \in Calling
    BY <1>0, <1>2, AtIs
  <2>2. empty \in SUBSET Folk!Persons
    BY <2>1, CallingIs
  <2> HIDE DEF empty
  <2> QED BY <1>0, <1>2, <2>2, CallEnds, DeleteTables
<1> QED BY <1>1, <1>2 DEF Folk!DeleteEmptyPeople

LEMMA DeadlockDone ==
  ASSUME PplIInv, NEW t \in Callers, Folk!Deadlock(t) PROVE StepOfCall(t) /\ TableStep(t)
BY CallEnds, StillDone DEF Folk!Deadlock, PplIInv


-----------------------------------------------------------------------------
(* People: what happens to a person, an address or a chat between calls. *)

LEMMA UnlinkEmailDone ==
  ASSUME PplIInv, NEW p \in Folk!Persons, Folk!UnlinkEmail(p) PROVE StepOfCall(None) /\ TableStep(None)
<1>0. CallsOK /\ TablesOK /\ HistoryOK /\ 0 \in 0 .. MaxPerson
  BY PeopleConstantsAre DEF PplIInv
<1>1. /\ \A e \in Addresses : account[e] # None /\ account[e].person = p => lock[e] = None
      /\ account' = [e \in Addresses |->
           IF account[e] # None /\ account[e].person = p
           THEN IF account[e].pw = "none" THEN None ELSE [account[e] EXCEPT !.person = 0]
           ELSE account[e]]
      /\ peoplePast' = [peoplePast EXCEPT !.calls = @ + 1]
      /\ UNCHANGED <<person, channel, note, sorted, auth>> /\ UNCHANGED <<lock, tx>>
  BY DEF Folk!UnlinkEmail
<1>2. ASSUME NEW e \in Addresses
      PROVE  /\ account'[e] \in Folk!Login \cup {None}
             /\ account'[e] # None => account[e] # None
             /\ account'[e] # None => /\ account'[e].verified = account[e].verified /\ account'[e].pw = account[e].pw
                                      /\ account'[e].person = 0 \/ account'[e].person = account[e].person
             /\ lock[e] # None => account'[e] = account[e]
  <2>1. CASE account[e] = None
    BY <1>1, <2>1
  <2>2. CASE account[e] # None
    <3>1. account[e] \in Folk!Login
      BY <1>0, <2>2 DEF TablesOK
    <3>2. [account[e] EXCEPT !.person = 0] \in Folk!Login
      BY <1>0, <3>1 DEF Folk!Login
    <3>3. account'[e] \in Folk!Login \cup {None}
      BY <1>1, <3>1, <3>2
    <3>4. account'[e] # None => /\ account'[e].verified = account[e].verified /\ account'[e].pw = account[e].pw
                                /\ account'[e].person = 0 \/ account'[e].person = account[e].person
      BY <1>1, <3>1 DEF Folk!Login
    <3>5. lock[e] # None => account'[e] = account[e]
      BY <1>1
    <3> QED BY <2>2, <3>3, <3>4, <3>5
  <2> QED BY <2>1, <2>2
<1>3. account' \in [Addresses -> Folk!Login \cup {None}]
  <2>1. \A e \in Addresses : account'[e] \in Folk!Login \cup {None}
    BY <1>2
  <2> QED BY <1>1, <2>1
<1>4. /\ HistoryOK' /\ peoplePast'.swept = peoplePast.swept /\ peoplePast'.lent = peoplePast.lent /\ peoplePast'.done = peoplePast.done
      /\ peoplePast'.notes = peoplePast.notes /\ peoplePast'.newest = peoplePast.newest /\ peoplePast'.met = peoplePast.met
  BY <1>0, <1>1, CountedIs
<1>5. \A e \in Addresses : lock[e] \notin {None, None} /\ account[e] # None => account'[e] # None
  BY <1>2
<1>6. ASSUME NEW e \in Addresses, account'[e] # None
      PROVE  /\ account'[e].verified => account'[e].pw # "unproven"
             /\ \/ account'[e].person = 0
                \/ account[e] # None /\ account'[e].person = account[e].person
                \/ Folk!Known(account'[e].person) /\ (~peoplePast.met => Folk!Live(account'[e].person))
  BY <1>2, <1>6 DEF PplIInv, Folk!ProvenIsTheirs
<1>7. UNCHANGED <<person, channel, note, sorted, auth>>
  BY <1>1
<1>8. TableStep(None)
  BY <1>3, <1>4, <1>5, <1>6, <1>7, AccountTables
<1> QED BY <1>0, <1>1, <1>8, NobodyDone

LEMMA EnsurePersonDone ==
  ASSUME PplIInv, NEW e \in Addresses, Folk!EnsurePersonForAccount(e) PROVE StepOfCall(None) /\ TableStep(None)
<1>0. CallsOK /\ TablesOK /\ HistoryOK /\ 0 \in 0 .. MaxPerson
  BY PeopleConstantsAre DEF PplIInv
<1> DEFINE new == [merged |-> 0, named |-> FALSE, young |-> TRUE]
<1>1. PICK p \in Folk!Persons : person' = [person EXCEPT ![p] = new] /\ account' = [account EXCEPT ![e].person = p]
  BY DEF Folk!EnsurePersonForAccount
<1>2. /\ account[e] # None /\ peoplePast' = [peoplePast EXCEPT !.calls = @ + 1]
      /\ UNCHANGED <<channel, note, sorted, auth>> /\ UNCHANGED <<lock, tx>>
  BY DEF Folk!EnsurePersonForAccount
<1>3. new \in Folk!Person /\ new.merged = 0
  BY <1>0 DEF Folk!Person
<1>4. account[e] \in Folk!Login /\ p \in 0 .. MaxPerson
  BY <1>0, <1>2, PeopleConstantsAre DEF TablesOK, Folk!Persons
<1>5. [account[e] EXCEPT !.person = p] \in Folk!Login
  BY <1>4 DEF Folk!Login
<1>6. /\ account'[e] = [account[e] EXCEPT !.person = p] /\ \A d \in Addresses \ {e} : account'[d] = account[d]
      /\ account' \in [Addresses -> Folk!Login \cup {None}]
  BY <1>0, <1>1, <1>5 DEF TablesOK
<1>7. \A d \in Addresses : account'[d] # None <=> account[d] # None
  BY <1>2, <1>5, <1>6, PeopleConstantsAre
<1>8. ASSUME NEW d \in Addresses, account[d] # None
      PROVE  /\ account'[d].verified = account[d].verified /\ account'[d].pw = account[d].pw
             /\ account'[d].person \in {account[d].person, p}
  <2>1. CASE d = e
    BY <2>1, <1>4, <1>6 DEF Folk!Login
  <2>2. CASE d # e
    BY <2>2, <1>6
  <2> QED BY <2>1, <2>2
<1>9. /\ HistoryOK' /\ peoplePast'.swept = peoplePast.swept /\ peoplePast'.lent = peoplePast.lent /\ peoplePast'.done = peoplePast.done
      /\ peoplePast'.notes = peoplePast.notes /\ peoplePast'.newest = peoplePast.newest /\ peoplePast'.met = peoplePast.met
  BY <1>0, <1>2, CountedIs
<1>10. UNCHANGED <<channel, note, sorted, auth>>
  BY <1>2
<1> HIDE DEF new
<1>11. TableStep(None)
  BY <1>1, <1>3, <1>6, <1>7, <1>8, <1>9, <1>10, PersonTables
<1> QED BY <1>0, <1>2, <1>11, NobodyDone

LEMMA SortDone ==
  ASSUME PplIInv, NEW p \in Folk!Persons, Folk!Sort(p) PROVE StepOfCall(None) /\ TableStep(None)
<1>0. CallsOK /\ TablesOK /\ HistoryOK
  BY DEF PplIInv
<1>1. /\ sorted' = sorted \cup {p} /\ peoplePast' = [peoplePast EXCEPT !.done = @ \cup note[p]]
      /\ UNCHANGED <<lock, tx>>
      /\ person' = person /\ channel' = channel /\ account' = account /\ note' = note /\ auth' = auth
  BY DEF Folk!Sort
<1>2. note[p] \in SUBSET Folk!Persons
  BY <1>0 DEF TablesOK
<1>3. /\ HistoryOK' /\ peoplePast'.swept = peoplePast.swept /\ peoplePast'.lent = peoplePast.lent /\ peoplePast'.done = peoplePast.done \cup note[p]
      /\ peoplePast'.notes = peoplePast.notes /\ peoplePast'.newest = peoplePast.newest /\ peoplePast'.met = peoplePast.met
  BY <1>0, <1>1, <1>2 DEF HistoryOK
<1>4. TablesOK'
  BY <1>0, <1>1 DEF TablesOK
<1>5. RowsStay(None)
  BY <1>1, <1>3 DEF RowsStay
<1>6. OneStep'
  BY <1>1, <1>3 DEF PplIInv, OneStep, Folk!Known, Folk!Live
<1>7. Placed'
  BY <1>1, <1>3 DEF PplIInv, Placed, Folk!UnderSomebody, Folk!Live, Folk!Known
<1>8. Folk!NothingLost' /\ Folk!ProvenIsTheirs'
  BY <1>1, <1>3 DEF PplIInv, Folk!NothingLost, Folk!ProvenIsTheirs
<1>9. Folk!SortedUnlessLent'
  <2>1. ASSUME ~peoplePast'.lent PROVE \A q \in sorted' : note'[q] \subseteq peoplePast'.done
    <3>1. \A q \in sorted : note[q] \subseteq peoplePast.done
      BY <2>1, <1>3 DEF PplIInv, Folk!SortedUnlessLent, Folk!SortedMeansSorted
    <3> QED BY <3>1, <1>1, <1>3
  <2> QED BY <2>1 DEF Folk!SortedUnlessLent, Folk!SortedMeansSorted
<1>10. TableStep(None)
  BY <1>3, <1>4, <1>5, <1>6, <1>7, <1>8, <1>9 DEF TableStep
<1> QED BY <1>0, <1>1, <1>10, NobodyDone

LEMMA RemoveBotDone ==
  ASSUME PplIInv, NEW c \in Chats, Folk!RemoveBot(c) PROVE StepOfCall(None) /\ TableStep(None)
<1>0. CallsOK /\ TablesOK /\ HistoryOK
  BY DEF PplIInv
<1>1. /\ channel' = [channel EXCEPT ![c] = None] /\ peoplePast' = [peoplePast EXCEPT !.calls = @ + 1]
      /\ UNCHANGED <<person, account, note, sorted, auth>> /\ UNCHANGED <<lock, tx>>
  BY DEF Folk!RemoveBot
<1>2. /\ HistoryOK' /\ peoplePast'.swept = peoplePast.swept /\ peoplePast'.lent = peoplePast.lent /\ peoplePast'.done = peoplePast.done
      /\ peoplePast'.notes = peoplePast.notes /\ peoplePast'.newest = peoplePast.newest /\ peoplePast'.met = peoplePast.met
  BY <1>0, <1>1, CountedIs
<1>3. channel' \in [Chats -> Folk!Channel \cup {None}] /\ \A d \in Chats : channel'[d] # None => channel'[d] = channel[d]
  BY <1>0, <1>1 DEF TablesOK
<1>4. UNCHANGED <<person, account, note, sorted, auth>>
  BY <1>1
<1>5. TableStep(None)
  BY <1>2, <1>3, <1>4, ChannelTables
<1> QED BY <1>0, <1>1, <1>5, NobodyDone

LEMMA AgeDone ==
  ASSUME PplIInv, NEW p \in Folk!Persons, Folk!Age(p) PROVE StepOfCall(None) /\ TableStep(None)
<1>0. CallsOK /\ TablesOK /\ HistoryOK
  BY DEF PplIInv
<1>1. /\ Folk!Known(p) /\ person' = [person EXCEPT ![p].young = FALSE] /\ peoplePast' = peoplePast /\ UNCHANGED <<lock, tx>>
      /\ channel' = channel /\ account' = account /\ note' = note /\ sorted' = sorted /\ auth' = auth
  BY DEF Folk!Age
<1>2. person[p] \in Folk!Person
  BY <1>0, <1>1 DEF TablesOK, Folk!Known
<1>3. [person[p] EXCEPT !.young = FALSE] \in Folk!Person /\ [person[p] EXCEPT !.young = FALSE].merged = person[p].merged
  BY <1>2 DEF Folk!Person
<1>4. /\ person' \in [Folk!Persons -> Folk!Person \cup {None}]
      /\ \A q \in Folk!Persons : person'[q] # None <=> person[q] # None
      /\ \A q \in Folk!Persons : person[q] # None => person'[q].merged = person[q].merged
  <2>1. \A q \in Folk!Persons : person'[q] = IF q = p THEN [person[p] EXCEPT !.young = FALSE] ELSE person[q]
    BY <1>0, <1>1 DEF TablesOK
  <2>2. [person[p] EXCEPT !.young = FALSE] # None /\ person[p] # None
    BY <1>2, <1>3, PeopleConstantsAre
  <2>3. person' \in [Folk!Persons -> Folk!Person \cup {None}]
    BY <1>0, <1>1, <1>3 DEF TablesOK
  <2> QED BY <1>3, <2>1, <2>2, <2>3
<1>5. TablesOK' /\ HistoryOK'
  BY <1>0, <1>1, <1>4 DEF TablesOK, HistoryOK
<1>6. RowsStay(None)
  BY <1>1, <1>4 DEF RowsStay, StillIn
<1>7. \A q \in Folk!Persons : Folk!Live(q) <=> person'[q] # None /\ person'[q].merged = 0
  BY <1>4 DEF Folk!Live, Folk!Known
<1>8. OneStep'
  <2>1. ASSUME ~peoplePast'.met, ~peoplePast'.swept, NEW q \in Folk!Persons, person'[q] # None, person'[q].merged # 0
        PROVE  person'[q].merged \in Folk!Persons /\ person'[person'[q].merged] # None /\ person'[person'[q].merged].merged = 0
    <3>1. person[q] # None /\ person'[q].merged = person[q].merged
      BY <2>1, <1>4
    <3>2. person[q].merged \in Folk!Persons /\ Folk!Live(person[q].merged)
      BY <2>1, <3>1, <1>1 DEF PplIInv, OneStep, Folk!Known, Folk!Live
    <3> QED BY <3>1, <3>2, <1>7
  <2> QED BY <2>1 DEF OneStep, Folk!Known, Folk!Live
<1>9. Placed'
  <2>1. ASSUME ~peoplePast'.met, ~peoplePast'.swept PROVE Folk!UnderSomebody'
    <3>1. Folk!UnderSomebody
      BY <2>1, <1>1 DEF PplIInv, Placed
    <3>2. ASSUME NEW c \in Chats, channel[c] # None
          PROVE  person'[channel[c].person] # None /\ person'[channel[c].person].merged = 0
      <4>1. Folk!Live(channel[c].person) /\ channel[c].person \in Folk!Persons
        BY <3>1, <3>2, <1>0 DEF Folk!UnderSomebody, TablesOK, Folk!Channel
      <4> QED BY <4>1, <1>7
    <3>3. ASSUME NEW e \in Addresses, account[e] # None, account[e].person # 0
          PROVE  person'[account[e].person] # None /\ person'[account[e].person].merged = 0
      <4>1. Folk!Live(account[e].person) /\ account[e].person \in 0 .. MaxPerson
        BY <3>1, <3>3, <1>0 DEF Folk!UnderSomebody, TablesOK, Folk!Login
      <4>2. account[e].person \in Folk!Persons
        BY <4>1, <3>3, PeopleConstantsAre DEF Folk!Persons
      <4> QED BY <4>1, <4>2, <1>7
    <3>4. \A q \in Folk!Persons : note[q] # {} \/ auth[q] # 0 => person'[q] # None /\ person'[q].merged = 0
      BY <3>1, <1>7 DEF Folk!UnderSomebody
    <3> QED BY <3>2, <3>3, <3>4, <1>1 DEF Folk!UnderSomebody, Folk!Live, Folk!Known
  <2> QED BY <2>1 DEF Placed
<1>10. Folk!NothingLost' /\ Folk!SortedUnlessLent' /\ Folk!ProvenIsTheirs'
  BY <1>1 DEF PplIInv, Folk!NothingLost, Folk!SortedUnlessLent, Folk!SortedMeansSorted, Folk!ProvenIsTheirs
<1>11. TableStep(None)
  BY <1>5, <1>6, <1>8, <1>9, <1>10 DEF TableStep
<1> QED BY <1>0, <1>1, <1>11, NobodyDone

-----------------------------------------------------------------------------
(* People: the invariant holds from the start, and every step keeps it. *)

LEMMA PplKept == PplIInv /\ Folk!Next => PplIInv'
<1> SUFFICES ASSUME PplIInv, Folk!Next PROVE PplIInv'
  OBVIOUS
<1>1. ASSUME NEW t \in Callers, Folk!BeginCall(t) \/ Folk!MergePersons(t) \/ Folk!LinkEmail(t) PROVE PplIInv'
  BY <1>1, BeginCallDone, MergePersonsDone, LinkEmailDone, StepKeeps
<1>2. ASSUME NEW t \in Callers, Folk!renameMe(t) \/ Folk!redeemChannelByCode(t) \/ Folk!firstContact(t) PROVE PplIInv'
  BY <1>2, renameMeDone, redeemDone, firstContactDone, StepKeeps
<1>3. ASSUME NEW t \in Callers, Folk!DeleteEmptyPeople(t) \/ Folk!Deadlock(t) PROVE PplIInv'
  BY <1>3, DeleteEmptyPeopleDone, DeadlockDone, StepKeeps
<1>4. ASSUME NEW p \in Folk!Persons, Folk!UnlinkEmail(p) \/ Folk!Sort(p) \/ Folk!Age(p) PROVE PplIInv'
  BY <1>4, UnlinkEmailDone, SortDone, AgeDone, StepKeeps
<1>5. ASSUME NEW e \in Addresses, Folk!EnsurePersonForAccount(e) PROVE PplIInv'
  BY <1>5, EnsurePersonDone, StepKeeps
<1>6. ASSUME NEW c \in Chats, Folk!RemoveBot(c) PROVE PplIInv'
  BY <1>6, RemoveBotDone, StepKeeps
<1> QED BY <1>1, <1>2, <1>3, <1>4, <1>5, <1>6 DEF Folk!Next

LEMMA PplSame == PplIInv /\ UNCHANGED Folk!vars => PplIInv'
<1> SUFFICES ASSUME PplIInv, UNCHANGED Folk!vars PROVE PplIInv'
  OBVIOUS
<1>1. UNCHANGED <<Folk!rows, peoplePast>> /\ UNCHANGED <<lock, tx>> /\ CallsOK
  BY DEF Folk!vars, Folk!rows, PplIInv
<1>2. StepOfCall(None) /\ TableStep(None)
  BY <1>1, NobodyDone, StillDone
<1> QED BY <1>2, StepKeeps


LEMMA PplFirst == Folk!Init => PplIInv
<1> SUFFICES ASSUME Folk!Init PROVE PplIInv
  OBVIOUS
<1>1. PICK n \in 2 .. MaxPerson, empty \in {{}, {1}}, chat \in [Chats -> 0 .. MaxPerson] :
        /\ person = [p \in Folk!Persons |-> IF p <= n THEN [merged |-> 0, named |-> FALSE, young |-> FALSE] ELSE None]
        /\ \A c, d \in Chats : chat[c] <= n /\ (chat[c] # 0 /\ chat[c] = chat[d] => c = d)
        /\ channel = [c \in Chats |-> IF chat[c] = 0 THEN None ELSE [person |-> chat[c], sender |-> TRUE]]
        /\ note = [p \in Folk!Persons |-> IF p <= n /\ p \notin empty THEN {p} ELSE {}]
        /\ auth = [p \in Folk!Persons |-> IF p <= n /\ p \notin empty THEN p ELSE 0]
  BY DEF Folk!Init
<1>2. /\ account \in [Addresses -> {None} \cup {[person |-> 0, verified |-> TRUE, pw |-> "set"],
                                                [person |-> 1, verified |-> TRUE, pw |-> "none"],
                                                [person |-> 2, verified |-> FALSE, pw |-> "unproven"]}]
      /\ sorted = {} /\ lock = [x \in Folk!Persons \cup Addresses |-> None] /\ tx = [t \in Callers |-> Folk!Idle]
      /\ peoplePast = [calls |-> 0, met |-> FALSE, lent |-> FALSE, swept |-> FALSE, done |-> {},
                       notes |-> UNION {note[p] : p \in Folk!Persons}, newest |-> {auth[p] : p \in Folk!Persons}]
  BY DEF Folk!Init
<1>3. /\ MaxPerson \in Nat /\ n \in Nat /\ 2 <= n /\ n <= MaxPerson
      /\ 0 \in 0 .. MaxPerson /\ 1 \in 0 .. MaxPerson /\ 2 \in 0 .. MaxPerson
      /\ Folk!Persons = 1 .. MaxPerson /\ 1 \in Folk!Persons /\ 2 \in Folk!Persons /\ n \in Folk!Persons /\ n \notin empty
  BY PeopleConstantsAre DEF Folk!Persons
<1> DEFINE row == [merged |-> 0, named |-> FALSE, young |-> FALSE]
<1>4. row \in Folk!Person /\ row.merged = 0 /\ row # None
  <2>1. row \in Folk!Person
    BY <1>3 DEF Folk!Person
  <2>2. row # None
    BY <2>1, PeopleConstantsAre
  <2> QED BY <2>1, <2>2
<1>5. /\ \A p \in Folk!Persons : p <= n => person[p] = row
      /\ \A p \in Folk!Persons : person[p] # None => p <= n
      /\ person \in [Folk!Persons -> Folk!Person \cup {None}]
  BY <1>1, <1>4
<1> HIDE DEF row
<1>6. \A p \in Folk!Persons : p <= n => Folk!Live(p)
  BY <1>4, <1>5 DEF Folk!Live, Folk!Known
<1>7. TablesOK
  <2>1. channel \in [Chats -> Folk!Channel \cup {None}]
    <3>1. \A c \in Chats : chat[c] # 0 => [person |-> chat[c], sender |-> TRUE] \in Folk!Channel
      BY <1>1, <1>3 DEF Folk!Channel
    <3> QED BY <1>1, <3>1
  <2>2. account \in [Addresses -> Folk!Login \cup {None}]
    <3>1. /\ [person |-> 0, verified |-> TRUE, pw |-> "set"] \in Folk!Login
          /\ [person |-> 1, verified |-> TRUE, pw |-> "none"] \in Folk!Login
          /\ [person |-> 2, verified |-> FALSE, pw |-> "unproven"] \in Folk!Login
      BY <1>3 DEF Folk!Login
    <3> QED BY <1>2, <3>1
  <2>3. note \in [Folk!Persons -> SUBSET Folk!Persons] /\ sorted \subseteq Folk!Persons
    BY <1>1, <1>2
  <2>4. auth \in [Folk!Persons -> Nat]
    BY <1>1, <1>3
  <2> QED BY <1>5, <2>1, <2>2, <2>3, <2>4 DEF TablesOK
<1>8. CallsOK /\ LocksOK /\ LockedStay /\ FoundLive
  <2>1. \A t \in Callers : tx[t] = Folk!Idle
    BY <1>2
  <2>2. \A x \in Folk!Persons \cup Addresses, t \in Callers : lock[x] # t
    BY <1>2, PeopleConstantsAre
  <2> QED BY <1>2, <2>1, <2>2 DEF CallsOK, LocksOK, LockedStay, FoundLive
<1>9. HistoryOK /\ peoplePast.swept = FALSE
  <2>1. peoplePast.notes \in SUBSET Folk!Persons /\ peoplePast.newest \in SUBSET Nat
    BY <1>2, <1>7 DEF TablesOK
  <2>2. peoplePast.notes = UNION {note[p] : p \in Folk!Persons} /\ peoplePast.newest = {auth[p] : p \in Folk!Persons}
    BY <1>2
  <2> QED BY <1>2, <2>1, <2>2 DEF HistoryOK
<1>10. OneStep
  BY <1>5, <1>6 DEF OneStep, Folk!Known
<1>11. Placed
  <2>1. ASSUME NEW c \in Chats, channel[c] # None PROVE Folk!Live(channel[c].person)
    <3>1. chat[c] # 0 /\ chat[c] \in 0 .. MaxPerson /\ chat[c] <= n /\ channel[c].person = chat[c]
      BY <1>1, <2>1
    <3> QED BY <3>1, <1>3, <1>6
  <2>2. ASSUME NEW e \in Addresses, account[e] # None, account[e].person # 0 PROVE Folk!Live(account[e].person)
    <3>1. account[e].person \in {1, 2}
      BY <1>2, <2>2
    <3> QED BY <3>1, <1>3, <1>6
  <2>3. ASSUME NEW p \in Folk!Persons, note[p] # {} \/ auth[p] # 0 PROVE Folk!Live(p)
    <3>1. p <= n
      BY <1>1, <2>3
    <3> QED BY <3>1, <1>6
  <2> QED BY <2>1, <2>2, <2>3 DEF Placed, Folk!UnderSomebody
<1>12. Folk!NothingLost
  <2>1. peoplePast.notes = UNION {note[p] : p \in Folk!Persons} /\ peoplePast.newest = {auth[p] : p \in Folk!Persons}
    BY <1>2
  <2>2. auth[n] = n
    BY <1>1, <1>3
  <2>3. \A p \in Folk!Persons : n >= auth[p]
    BY <1>1, <1>3
  <2>4. \A a \in peoplePast.newest : auth[n] >= a
    BY <2>1, <2>2, <2>3
  <2> QED BY <1>3, <2>1, <2>4 DEF Folk!NothingLost
<1>13. Folk!SortedUnlessLent /\ Folk!ProvenIsTheirs
  BY <1>2 DEF Folk!SortedUnlessLent, Folk!SortedMeansSorted, Folk!ProvenIsTheirs
<1> QED BY <1>7, <1>8, <1>9, <1>10, <1>11, <1>12, <1>13 DEF PplIInv

-----------------------------------------------------------------------------
(* People: what the invariant says. *)

(* A merge that has locked one person waits for one with a higher id; one    *)
(* that has locked both waits for addresses, which only a merge that waits   *)
(* for nothing has locked.                                                   *)
LEMMA MergesWait ==
  ASSUME PplIInv, NEW t \in Callers, NEW u \in Callers, tx[t].kind = "merge", tx[u].kind = "merge",
         Folk!WaitsFor(t, u), Folk!WaitsFor(u, t)
  PROVE  FALSE
<1>0. CallsOK /\ LocksOK
  BY DEF PplIInv
<1>1. \A v \in {t, u} : tx[v] # Folk!Idle /\ tx[v] \in Calling /\ CallOK(tx[v]) /\ tx[v].kind = "merge"
  BY <1>0, ActiveCall DEF Folk!Idle
<1>2. \A v \in {t, u} : tx[v].from \in Folk!Persons /\ tx[v].to \in Folk!Persons /\ (tx[v].pc = "resolve" \/ Merging(tx[v]))
                        /\ (tx[v].pc = "second" => tx[v].from # tx[v].to)
  BY <1>1 DEF CallOK
<1>3. PICK x \in Folk!Needs(t) : lock[x] = u
  BY DEF Folk!WaitsFor
<1>4. PICK y \in Folk!Needs(u) : lock[y] = t
  BY DEF Folk!WaitsFor
<1>5. t # u
  BY DEF Folk!WaitsFor
<1>6. ASSUME NEW v \in {t, u}, NEW z \in Folk!Needs(v)
      PROVE  \/ tx[v].pc = "first" /\ z \in Folk!Persons
             \/ tx[v].pc = "second" /\ z \in {tx[v].from, tx[v].to}
             \/ tx[v].pc = "accounts" /\ z \in Addresses
  BY <1>1, <1>2, <1>6 DEF Folk!Needs, Folk!At, Merging, Folk!firstLock, Folk!lower
<1>7. ASSUME NEW v \in {t, u}, NEW z \in Folk!Persons \cup Addresses, lock[z] = v
      PROVE  \/ tx[v].pc = "second" /\ z = LowerOf(tx[v])
             \/ Both(tx[v]) /\ z \in Folk!Persons
             \/ tx[v].pc = "commit" /\ z \in Addresses
  BY <1>0, <1>1, <1>2, <1>7 DEF LocksOK, MayKeep, Keeps
<1>8. ASSUME NEW v \in {t, u}, tx[v].pc = "second" PROVE lock[LowerOf(tx[v])] = v /\ LowerOf(tx[v]) \in Folk!Persons
  <2>1. LowerOf(tx[v]) \in Folk!Persons
    BY <1>2 DEF LowerOf
  <2>2. Keeps(tx[v], LowerOf(tx[v]))
    BY <1>8 DEF Keeps
  <2> QED BY <1>0, <1>1, <2>1, <2>2 DEF LocksOK
<1>9. x \in Folk!Persons \cup Addresses /\ y \in Folk!Persons \cup Addresses /\ Folk!Persons \cap Addresses = {}
  BY <1>2, <1>3, <1>4, <1>6, PeopleConstantsAre
<1>10. tx[t].pc \in {"second", "accounts"} /\ tx[u].pc \in {"second", "accounts"}
  BY <1>3, <1>4, <1>6, <1>7, <1>9 DEF Both
<1>11. tx[t].pc = "second" /\ tx[u].pc = "second"
  BY <1>2, <1>3, <1>4, <1>6, <1>7, <1>8, <1>9, <1>10 DEF Both
<1>12. x = LowerOf(tx[u]) /\ y = LowerOf(tx[t]) /\ x # y
  BY <1>3, <1>4, <1>5, <1>7, <1>9, <1>11 DEF Both
<1>13. x \in {tx[t].from, tx[t].to} /\ y \in {tx[u].from, tx[u].to}
  BY <1>3, <1>4, <1>6, <1>11
<1>14. /\ tx[t].from \in Int /\ tx[t].to \in Int /\ tx[u].from \in Int /\ tx[u].to \in Int
  BY <1>2, PeopleConstantsAre DEF Folk!Persons
<1> QED BY <1>12, <1>13, <1>14 DEF LowerOf

LEMMA PplSays == PplIInv => Folk!PeopleInv /\ Folk!NothingStranded
<1> SUFFICES ASSUME PplIInv PROVE Folk!PeopleInv /\ Folk!NothingStranded
  OBVIOUS
<1>1. Folk!TypeOK
  BY DEF PplIInv, TablesOK, CallsOK, Folk!TypeOK
<1>2. Folk!MergesDoNotCircle
  BY MergesWait DEF Folk!MergesDoNotCircle, Folk!Circle
<1>3. Folk!NothingStranded
  <2>1. ASSUME ~peoplePast.met, ~peoplePast.swept, NEW p \in Folk!Persons, Folk!Known(p) PROVE Folk!Follow(p) # 0
    <3>1. Folk!Live(p) \/ (person[p].merged \in Folk!Persons /\ Folk!Live(person[p].merged))
      BY <2>1 DEF PplIInv, OneStep
    <3> QED BY <2>1, <3>1, FollowShort DEF PplIInv
  <2>2. ~peoplePast.met /\ ~peoplePast.swept => Folk!UnderSomebody
    BY DEF PplIInv, Placed
  <2> QED BY <2>1, <2>2 DEF Folk!NothingStranded, Folk!LeadsSomewhere
<1> QED BY <1>1, <1>2, <1>3 DEF PplIInv, Folk!PeopleInv

PeopleIInv == part = "people" => PplIInv

LEMMA PeopleFirst == ASSUME PersonsInit PROVE PeopleIInv
<1>1. CASE part = "logins"
  BY <1>1 DEF PeopleIInv
<1>2. CASE part = "people" /\ Folk!Init
  BY <1>2, PplFirst DEF PeopleIInv
<1> QED BY <1>1, <1>2 DEF PersonsInit

LEMMA PeopleStep == ASSUME PeopleIInv, [PersonsNext]_personsVars PROVE PeopleIInv'
<1>1. CASE part = "logins" /\ part' = part
  BY <1>1 DEF PeopleIInv
<1>2. CASE part = "people" /\ Folk!Next /\ part' = part
  BY <1>2, PplKept DEF PeopleIInv
<1>3. ASSUME UNCHANGED personsVars PROVE PeopleIInv'
  <2>1. part' = part /\ UNCHANGED Folk!vars
    BY <1>3 DEF personsVars, peopleVars, Folk!vars
  <2> QED BY <2>1, PplSame DEF PeopleIInv
<1> QED BY <1>1, <1>2, <1>3 DEF PersonsNext

LEMMA PeopleAlways == PersonsSpec => []PeopleIInv
<1>1. PersonsInit => PeopleIInv
  BY PeopleFirst
<1>2. PeopleIInv /\ [PersonsNext]_personsVars => PeopleIInv'
  BY PeopleStep
<1> QED BY <1>1, <1>2, PTL DEF PersonsSpec

(* Whatever merges, links, renames, first messages and sweeps do between      *)
(* each other's statements, no merge drops a note or the newest connection,   *)
(* a note marked as sorted was sorted, a proven address has no password that  *)
(* somebody set before it was proved, and no two merges wait for each other   *)
(* (mergePersonsTx, LinkEmail), but for what the history admits: somebody who *)
(* got something since the sweep looked, and a mark that moved to somebody    *)
(* whose note was not sorted.                                                 *)
THEOREM PeopleHold == PersonsSpec => []PeopleInv
<1>1. PeopleIInv => PeopleInv
  BY PplSays DEF PeopleIInv, PeopleInv
<1> QED BY <1>1, PeopleAlways, PTL

(* Every id that was ever given out leads to somebody who is there, and       *)
(* chats, logins, notes and connections belong to somebody who was not merged *)
(* away, however merges follow each other (markMerged, resolvePersonTx),      *)
(* unless somebody whom a call had looked up was merged under its hands, or   *)
(* somebody got something since the sweep looked.                             *)
THEOREM NothingStrandedHolds == PersonsSpec => []NothingStranded
<1>1. PeopleIInv => NothingStranded
  BY PplSays DEF PeopleIInv, NothingStranded
<1> QED BY <1>1, PeopleAlways, PTL

=============================================================================

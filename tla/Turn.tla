-------------------------------- MODULE Turn --------------------------------
(***************************************************************************)
(* One turn of an agent, from the message to the reply: what kind of       *)
(* message it is, which capabilities it is for, what a short follow-up     *)
(* stays with, which abilities the model is offered for it, what it does   *)
(* with them, and how the turn ends (runtime/host.go: handleTurn,          *)
(* routeWithJev, runRoutedTurn; carryover.go; requirements.go; postgres/   *)
(* memory.go: LastSkills).                                                 *)
(*                                                                         *)
(* Three turns of the same person and agent may run at once: one in each   *)
(* of two chats, and one of a repeating task, with nobody there.  The      *)
(* router, the tool filter and the one who says what a request needs are   *)
(* models behind a network: they answer anything, or fail.                 *)
(***************************************************************************)
EXTENDS Integers, FiniteSets, Sequences

CONSTANTS Tool,      \* [abilities -> [app, readOnly, needs, with, declared, approves]]
          Skill,     \* [capabilities -> abilities]; the agent's own
          Platform,  \* abilities of the platform's own capabilities, offered on a person's turn
          Agents,    \* how the agent and its host are set up
          Messages,  \* what a person may write: [short, lookUps]
          Allowed,   \* what the person may have agreed to for a task: sets of abilities
          Choices,   \* what the models may answer about abilities: sets of them
          Chats,     \* where the person writes
          MaxTurns,  \* bound: turns
          MaxLulls,  \* bound: long silences
          MaxUses    \* bound: abilities used in a turn

Procs == Chats \cup {"task"}
Tools == DOMAIN Tool
Own   == UNION {Skill[s] : s \in DOMAIN Skill}
Intents == {"chat", "offtopic", "recommend", "execute", "schedule"}

VARIABLES agent,  \* fixed: [router, classifier, gates, filter, requirer, handler, learned]
          turn,   \* [Procs -> handleTurn]
          store,  \* conversations.last_skills of the person's latest message: [skills, fresh]
          recent, \* the abilities the person's last two kept messages used, latest first
          past    \* history, and the counters that bound it

vars == <<agent, turn, store, recent, past>>

\* A platform's own actions wait for nothing: only a hydrated ability is given Needs (prerequisite.go:243-247).
TurnConstants ==
  /\ "task" \notin Chats
  /\ \A t \in Platform : Tool[t].needs = {}

Idle == [pc |-> "idle"]
Task(p) == p = "task"
At(p, pc) == turn[p].pc = pc
Set(p, t) == turn' = [turn EXCEPT ![p] = t]

(***************************************************************************)
(* handleTurn, up to routing.                                              *)
(***************************************************************************)
\* What is offered when nothing narrows it: actionsFor and the conversation's own actions.
Everything(p) == Own \cup (IF Task(p) THEN {} ELSE Platform)
ConvActions(p) == IF Task(p) THEN {} ELSE Platform

Fresh(p, m) ==
  [pc |-> IF m.writeOnly THEN "loop" ELSE IF agent.router THEN "classify" ELSE "loop",
   short |-> m.short, lookUps |-> m.lookUps, allowed |-> m.allowed,
   window |-> recent,           \* History, loaded before anything else
   classified |-> FALSE, intent |-> "none", skills |-> {},
   offered |-> IF m.writeOnly \/ agent.router THEN {} ELSE Everything(p),
   required |-> {},
   routed |-> agent.router,     \* FALSE: the router was not there, or failed
   used |-> {}, asked |-> {}]

Begin(p, m) ==
  /\ At(p, "idle") /\ past.turns < MaxTurns
  /\ Set(p, Fresh(p, m))
  /\ past' = [past EXCEPT !.turns = @ + 1]
  /\ UNCHANGED <<agent, store, recent>>

Write(p, m) == Begin(p, [short |-> m.short, lookUps |-> m.lookUps, allowed |-> {}, writeOnly |-> FALSE])
\* RunScheduledTaskThen, and a run that only writes (an alert's summary).
RunTask(allowed, writeOnly) ==
  Begin("task", [short |-> FALSE, lookUps |-> FALSE, allowed |-> allowed, writeOnly |-> writeOnly])

\* Into the loop with these abilities; the model always has finish.
LoopWith(p, offered, required, routed) ==
  Set(p, [turn[p] EXCEPT !.pc = "loop", !.offered = offered, !.required = required, !.routed = routed,
                         !.classified = FALSE, !.short = FALSE, !.window = <<{}, {}>>])
Loop(p, offered) == LoopWith(p, offered, {}, TRUE)
\* Or the turn is over; what was used is what is left of it.
Over(p, scheduled) == Set(p, [pc |-> "end", used |-> turn[p].used, scheduled |-> scheduled])

(***************************************************************************)
(* routeWithJev: what kind of message it is.                               *)
(***************************************************************************)
\* The intent classifier fails, or is not there: intent and abilities are read together.
Unclassified(p) ==
  /\ At(p, "classify")
  /\ Set(p, [turn[p] EXCEPT !.pc = "pick"])
  /\ UNCHANGED <<agent, store, recent, past>>

\* Sociable: answered with no tools.  Off topic: asked once more against what every agent
\* does ("in" is the last answer), then declined in fixed words, or by the model.
Classify(p, in) ==
  /\ At(p, "classify") /\ agent.classifier
  /\ CASE in = "chat" /\ agent.gates -> Loop(p, {})
       [] in = "offtopic" /\ DOMAIN Skill # {} -> Over(p, FALSE)
       [] in = "offtopic" -> Loop(p, {})
       [] OTHER ->
            Set(p, [turn[p] EXCEPT !.pc = "pick", !.classified = TRUE,
                                   !.intent = IF in = "chat" THEN "recommend" ELSE in])
  /\ UNCHANGED <<agent, store, recent, past>>

(***************************************************************************)
(* routeWithJev: which capabilities it is for.                             *)
(***************************************************************************)
\* An unattended turn reads and reports, or does what was agreed; it sets nothing up.
\* An edit whose old reply changed something is answered with look-ups.
Held(p, in) ==
  IF Task(p) /\ in \in {"execute", "schedule"}
  THEN IF turn[p].allowed # {} THEN "execute" ELSE "recommend"
  ELSE IF Task(p) /\ in = "recommend" /\ turn[p].allowed # {} THEN "execute"
  ELSE IF turn[p].lookUps /\ in # "chat" THEN "recommend"
  ELSE in

\* An agent with one capability has nothing to choose between, once classified.
CanPick(p, skills) ==
  turn[p].classified /\ Cardinality(DOMAIN Skill) = 1 => skills = DOMAIN Skill

Pick(p, skills, read) ==
  /\ At(p, "pick") /\ CanPick(p, skills)
  /\ turn[p].classified => read = turn[p].intent
  /\ LET in == Held(p, read)
     IN  IF in = "chat" /\ agent.gates
         THEN Loop(p, {})
         ELSE Set(p, [turn[p] EXCEPT !.pc = "follow", !.intent = in, !.skills = skills])
  /\ UNCHANGED <<agent, store, recent, past>>

\* The picker fails: the whole loop with everything.
PickFails(p) ==
  /\ At(p, "pick")
  /\ ~(turn[p].classified /\ Cardinality(DOMAIN Skill) = 1)
  /\ LoopWith(p, Everything(p), {}, FALSE)
  /\ UNCHANGED <<agent, store, recent, past>>

(***************************************************************************)
(* What a short follow-up stays with (carryover.go, LastSkills).           *)
(***************************************************************************)
\* skillsLastUsed: the capabilities whose abilities the latest of the last two messages that used any used.
LastUsed(window) ==
  LET used == IF window[1] # {} THEN window[1] ELSE window[2]
  IN  {s \in DOMAIN Skill : Skill[s] \cap used # {}}

\* The latest message of any of the person's chats; one that matched nothing stores nothing.
LastSkills == IF store.fresh THEN store.skills ELSE {}
SetLastSkills(skills) ==
  store' = IF skills = {} THEN store ELSE [skills |-> skills, fresh |-> TRUE]

Followed(p) ==
  IF turn[p].skills # {} \/ ~turn[p].short THEN turn[p].skills
  ELSE IF LastSkills # {} THEN LastSkills
  ELSE LastUsed(turn[p].window)

Follow(p) ==
  LET skills == Followed(p)
  IN  /\ At(p, "follow")
      /\ Set(p, [turn[p] EXCEPT !.pc = "handle", !.skills = skills])
      /\ SetLastSkills(skills)
      /\ past' = [past EXCEPT
                    !.doing = IF Task(p) \/ skills = {} THEN @ ELSE [skills |-> skills, fresh |-> TRUE],
                    !.taskSince = IF skills = {} THEN @ ELSE Task(p),
                    !.follows = IF turn[p].skills = {} /\ turn[p].short
                                THEN {[doing |-> past.doing, got |-> skills, task |-> past.taskSince,
                                       used |-> LastUsed(turn[p].window)]} ELSE {}]
      /\ UNCHANGED <<agent, recent>>

\* More than followUpFor.
Lull ==
  /\ past.lulls < MaxLulls
  /\ \A p \in Procs : At(p, "idle")
  /\ store' = [store EXCEPT !.fresh = FALSE]
  /\ past' = [past EXCEPT !.lulls = @ + 1, !.doing.fresh = FALSE, !.follows = {}]
  /\ UNCHANGED <<agent, turn, recent>>

(***************************************************************************)
(* An intent with a handler of its own (setting up a repeating task): it   *)
(* answers, shows buttons and has nothing more to say, or fails.           *)
(***************************************************************************)
Handled(p) == agent.handler /\ agent.gates /\ turn[p].intent = "schedule"

Handle(p) ==
  /\ At(p, "handle") /\ Handled(p)
  /\ Over(p, TRUE)
  /\ UNCHANGED <<agent, store, recent, past>>

\* No handler, or it failed: on to the capabilities.
NotHandled(p) ==
  /\ At(p, "handle")
  /\ Set(p, [turn[p] EXCEPT !.pc = "offer"])
  /\ UNCHANGED <<agent, store, recent, past>>

(***************************************************************************)
(* What is offered.                                                        *)
(***************************************************************************)
Read(ts) == {t \in ts : Tool[t].readOnly}
Change(ts) == ts \ Read(ts)

\* Nothing matched: a question is answered with no tools, and declined if it promises a
\* look-up twice; anything else is declined.  An agent with no capabilities runs the whole loop,
\* unless its description says the message is out of scope.
NothingMatched(p, inScope, declines) ==
  /\ At(p, "offer") /\ turn[p].skills = {}
  /\ IF DOMAIN Skill # {}
     THEN IF turn[p].classified /\ turn[p].intent = "recommend" /\ ~declines
          THEN Loop(p, {})
          ELSE Over(p, FALSE)
     ELSE Loop(p, IF inScope THEN Everything(p) ELSE {})
  /\ UNCHANGED <<agent, store, recent, past>>

\* A mistake: an unattended run may use whatever matched.
NotLimited(p, ts) == ts
\* limitUnattended
Limited(p, ts) == IF Task(p) THEN Read(ts) \cup (ts \cap turn[p].allowed) ELSE ts

\* requirementsFor: which change the request needs, if it is a request to do something.
CanRequire(p, ts) == agent.requirer /\ turn[p].intent = "execute" /\ Change(ts) # {}

\* withChanges: a request to do something keeps every change of the apps it is about.
WithChanges(kept, all, picked) ==
  LET about == {Tool[t].app : t \in picked} \ {"none"}
  IN  kept \cup {t \in Change(all) : Tool[t].app \in about \cup {"none"}}

\* A mistake: only what was trimmed for its own sake comes back, not what that needs in turn.
NeededOnce(ts, all, picked) == ts \cup (all \cap UNION {Tool[t].needs : t \in picked \cap ts})
\* keepNeeded: the least set with what each ability in it must run first, and, for what
\* trimming chose, what its inputs come from.
KeepNeeded(ts, all, picked) ==
  LET Around(t) == IF Tool[t].app = "none" \/ Tool[t].declared THEN {}
                   ELSE {r \in Read(all) : Tool[r].app = Tool[t].app}
      Wants(t) == Tool[t].needs \cup IF t \in picked THEN Tool[t].with \cup Around(t) ELSE {}
      Whole == {S \in {ts \cup more : more \in SUBSET (all \ ts)} : \A t \in S : all \cap Wants(t) \subseteq S}
  IN  {t \in ts \cup all : \A S \in Whole : t \in S}

\* The tool filter's choice; empty, or failed: everything is kept.
Trimmed(p, all, filtered, required) ==
  IF ~agent.filter \/ filtered = {} THEN KeepNeeded(all, all, all)
  ELSE LET picked == filtered \cup required
           kept   == IF turn[p].intent = "execute" THEN WithChanges(filtered, all, picked) ELSE filtered
       IN  KeepNeeded(kept \cup required, all, picked)

\* learnedChanges: the changes that skills the agent was taught use.
Learned(p) == IF Task(p) THEN {} ELSE agent.learned

\* A question: look-ups, and what learned skills do.
Offered(p, ts, all) ==
  IF turn[p].intent # "recommend" THEN ts
  ELSE Read(ts) \cup (all \cap Learned(p))

Offer(p, filtered, required) ==
  LET all == Limited(p, UNION {Skill[s] : s \in turn[p].skills})
      ts  == Offered(p, Trimmed(p, all, filtered, required), all)
  IN  /\ At(p, "offer") /\ turn[p].skills # {}
      /\ filtered \subseteq all /\ (~agent.filter => filtered = {})
      /\ required \subseteq Change(all)
      /\ required # {} => CanRequire(p, all)
      /\ LoopWith(p, IF ts = {} THEN {} ELSE ts \cup ConvActions(p), required, TRUE)
      /\ UNCHANGED <<agent, store, recent, past>>

(***************************************************************************)
(* The loop, and the end of the turn.                                      *)
(***************************************************************************)
\* An ability that asks first runs on a yes: nobody is there for a task to ask.
Use(p, t) ==
  /\ At(p, "loop") /\ t \in turn[p].offered /\ Cardinality(turn[p].used) < MaxUses
  /\ Tool[t].approves => ~Task(p) \/ t \in turn[p].allowed
  /\ Set(p, [turn[p] EXCEPT !.used = @ \cup {t},
                            !.asked = IF Tool[t].approves THEN @ \cup {t} ELSE @])
  /\ UNCHANGED <<agent, store, recent, past>>

\* The model replies, or the loop gives up and fixed words say so, or it ended silent on purpose.
Reply(p) ==
  /\ At(p, "loop")
  /\ Over(p, FALSE)
  /\ UNCHANGED <<agent, store, recent, past>>

\* The person rewrote the message: its reply is dropped, nothing of it is kept.
Edited(p) ==
  /\ ~Task(p) /\ turn[p].pc \in {"loop", "end"}
  /\ Set(p, Idle)
  /\ past' = [past EXCEPT !.follows = {}]
  /\ UNCHANGED <<agent, store, recent>>

\* What a person's message used is kept with the conversation; of a task, only its reply.
End(p) ==
  /\ At(p, "end")
  /\ Set(p, Idle)
  /\ recent' = IF Task(p) THEN recent ELSE <<turn[p].used, recent[1]>>
  /\ past' = [past EXCEPT !.follows = {}]
  /\ UNCHANGED <<agent, store>>

(***************************************************************************)
(* Specification                                                           *)
(***************************************************************************)
Init ==
  /\ agent \in Agents
  /\ turn = [p \in Procs |-> Idle]
  /\ store = [skills |-> {}, fresh |-> FALSE]
  /\ recent = <<{}, {}>>
  /\ past = [turns |-> 0, lulls |-> 0, doing |-> [skills |-> {}, fresh |-> FALSE],
             taskSince |-> FALSE, follows |-> {}]

Step(p) ==
  \/ Unclassified(p)
  \/ \E in \in Intents : Classify(p, in)
  \/ \E skills \in SUBSET DOMAIN Skill, read \in Intents : Pick(p, skills, read)
  \/ PickFails(p)
  \/ Follow(p)
  \/ Handle(p)
  \/ NotHandled(p)
  \/ \E inScope, declines \in BOOLEAN : NothingMatched(p, inScope, declines)
  \/ At(p, "offer") /\ \E filtered, required \in Choices : Offer(p, filtered, required)
  \/ \E t \in Tools : Use(p, t)
  \/ Reply(p)
  \/ Edited(p)
  \/ End(p)

Next ==
  \/ \E p \in Chats, m \in Messages : Write(p, m)
  \/ \E allowed \in Allowed, writeOnly \in BOOLEAN : RunTask(allowed, writeOnly)
  \/ \E p \in Procs : Step(p)
  \/ Lull

Spec == Init /\ [][Next]_vars

(***************************************************************************)
(* Properties                                                              *)
(***************************************************************************)
InLoop(p) == At(p, "loop")
Narrowed(p) == InLoop(p) /\ turn[p].routed

\* States are well-formed; a turn is held to a change only if it is offered it
\* (requirements.go, keepRequired), and whatever it is offered, short of what learned skills add,
\* comes with what must run first where the agent has that (keepNeeded); for a question, with the
\* look-ups among it.
HeldToOffered ==
  \A p \in Procs :
    /\ turn[p].pc \in {"idle", "classify", "pick", "follow", "handle", "offer", "loop", "end"}
    /\ InLoop(p) =>
         /\ turn[p].required \subseteq turn[p].offered
         /\ turn[p].offered \cap Own # {} /\ turn[p].skills # {} =>
              LET all  == Limited(p, UNION {Skill[s] : s \in turn[p].skills})
                  kept == IF turn[p].intent = "recommend" THEN Read(all) ELSE all
              IN  \A t \in turn[p].offered \ agent.learned : Tool[t].needs \cap kept \subseteq turn[p].offered

\* A task that routing narrowed changes only what the person agreed to and sets up no other task
\* (conversation.go, WithUnattendedAllowing); an edit answered with look-ups changes nothing without
\* a yes, where no learned skill may change things and its words are not read as a chat
\* (editing.go, WithLookUpsOnly).
OnlyAgreed ==
  /\ At("task", "end") => ~turn["task"].scheduled
  /\ \A p \in Procs : Narrowed(p) =>
       /\ Task(p) => Change(turn[p].used) \subseteq turn[p].allowed
       /\ turn[p].lookUps /\ turn[p].intent # "chat" /\ agent.learned = {} =>
            Change(turn[p].used) \subseteq turn[p].asked \cup Platform

\* A short follow-up that matches nothing stays with what the person's latest message in any of
\* their chats was routed to within the last half hour, and with what their messages used when that
\* is gone by, unless a task was routed since (host.go:1738-1740, memory.go, LastSkills).
FollowsOn ==
  \A f \in past.follows : ~f.task =>
    f.got = IF f.doing.fresh /\ f.doing.skills # {} THEN f.doing.skills ELSE f.used

\* What a turn is offered holds together, and is of what the person is doing (runRoutedTurn).
TurnInv == HeldToOffered /\ FollowsOn

(***************************************************************************)
(* Said of this code and not kept (README, Disagreements).                 *)
(***************************************************************************)
\* conversation.go:169: a turn with nobody there can "never change anything ... The router
\* enforces it", but for what was agreed: a router that fails offers it everything.
UnattendedOnlyAgreed ==
  \A p \in Procs : InLoop(p) /\ Task(p) => Change(turn[p].used) \subseteq turn[p].allowed

\* domain/editing.go:97: "nothing is changed".
LookUpsOnlyAlways ==
  \A p \in Procs : Narrowed(p) /\ turn[p].lookUps => Change(turn[p].used) \subseteq turn[p].asked \cup Platform

\* requirements.go, keepNeeded: "What must run first always comes back, for anything offered."
NeededAlwaysOffered ==
  \A p \in Procs : InLoop(p) /\ turn[p].offered \cap Own # {} /\ turn[p].skills # {} =>
    LET all == Limited(p, UNION {Skill[s] : s \in turn[p].skills})
    IN  \A t \in turn[p].offered : Tool[t].needs \cap all \subseteq turn[p].offered

\* host.go:1738: it stays with "what its last message was routed to".
FollowsOnAlways ==
  \A f \in past.follows : f.doing.fresh /\ f.doing.skills # {} => f.got = f.doing.skills
==============================================================================

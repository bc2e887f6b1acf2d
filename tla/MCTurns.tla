------------------------------ MODULE MCTurns ------------------------------
(***************************************************************************)
(* Four modules of what a turn may do, each on an instance of its own: which *)
(* abilities a turn gets, what a call of one must pass, the choices under a  *)
(* reply, and when a task is done next.  They share no variable, so one     *)
(* behaviour takes the steps of one of them.                                *)
(***************************************************************************)
EXTENDS Integers, Sequences, FiniteSets

CONSTANTS
  Tool, Skill, Platform, Agents, Messages, Allowed, Choices, Chats, MaxTurns,
  MaxLulls, MaxUses,  \* Turn
  Def, Drafts, Settings, Inputs, Sizes, MaxCalls, MaxReplies,  \* ToolGates
  MaxProposals, MaxTyped, MaxTaps, Buttons,  \* Proposals
  MinActAhead, MinCheckAhead, MaxWakeAhead, LateWake, MaxSets, Actions, Asking,
  MaxTime  \* WakePlan

VARIABLES
  part,  \* the module whose steps are taken; the others stay as they began
  agent, turn, store, recent, turnPast,
  defs, reply, journal, done, sent, bounds,
  elsewhere, state, pick, look, line, step, msg, found, before, taps, removing, typed,
  tapped, heard,
  now, task, flags, st, wakePast

Turns == INSTANCE Turn WITH past <- turnPast
Gates == INSTANCE ToolGates
Choice == INSTANCE Proposals WITH Choices <- Buttons
Wakes == INSTANCE WakePlan WITH past <- wakePast

turnsVars == <<agent, turn, store, recent, turnPast>>
gatesVars == <<defs, reply, journal, done, sent, bounds>>
choicesVars == <<elsewhere, state, pick, look, line, step, msg, found, before, taps,
                 removing, typed, tapped, heard>>
wakesVars == <<now, task, flags, st, wakePast>>
vars == <<part, turnsVars, gatesVars, choicesVars, wakesVars>>

ASSUME TurnsConstants ==
  Turns!TurnConstants /\ Gates!GateConstants /\ Choice!ProposalsConstants /\ Wakes!WakeConstants

(* Turn: a mail capability with a look-up its change needs, and a broker's that asks first. *)
LookUp(app) == [app |-> app, readOnly |-> TRUE, needs |-> {}, with |-> {}, declared |-> TRUE, approves |-> FALSE]
Changing(app, needs, with) ==
  [LookUp(app) EXCEPT !.readOnly = FALSE, !.needs = needs, !.with = with]
MCTool ==
  [inbox   |-> LookUp("mail"),
   find    |-> [LookUp("mail") EXCEPT !.needs = {"inbox"}],
   archive |-> Changing("mail", {"find"}, {}),
   trade   |-> [Changing("broker", {}, {"prices"}) EXCEPT !.approves = TRUE],
   prices  |-> LookUp("broker"),
   alert   |-> Changing("none", {}, {})]
MCSkill == [mail |-> {"inbox", "find", "archive"}, broker |-> {"trade", "prices"}]
MCPlatform == {"alert"}

Usual == [router |-> TRUE, classifier |-> TRUE, gates |-> TRUE, filter |-> TRUE, requirer |-> TRUE,
          handler |-> TRUE, learned |-> {}]
MCAgents ==
  {Usual,
   [Usual EXCEPT !.learned = {"archive"}, !.requirer = FALSE],
   [Usual EXCEPT !.classifier = FALSE, !.gates = FALSE, !.filter = FALSE],
   [Usual EXCEPT !.router = FALSE]}
MCMessages == {[short |-> TRUE, lookUps |-> FALSE], [short |-> FALSE, lookUps |-> TRUE]}
MCChoices == {{}, {"archive"}, {"trade"}}
MCAllowed == {{"trade"}}

(* ToolGates: a broker that can be looked at and traded with, and a chat app, reached through *)
(* two capabilities.                                                                          *)
Look(app, details) ==
  [app |-> app, readOnly |-> TRUE, approves |-> FALSE, signIn |-> FALSE, needsZone |-> FALSE,
   details |-> details, required |-> details, onceFor |-> {}, prepares |-> {}, first |-> {}, firstAny |-> {}]
MCDef ==
  [check |-> Look("broker", {"sym"}),
   trade |-> [Look("broker", {"sym", "price"}) EXCEPT !.readOnly = FALSE, !.approves = TRUE, !.signIn = TRUE,
                !.required = {"sym"}, !.onceFor = {"sym"}, !.prepares = {"size"}],
   post  |-> [Look("chat", {"sym"}) EXCEPT !.readOnly = FALSE, !.needsZone = TRUE, !.firstAny = {"check"}]]

Rule(kind, input, limit, values) ==
  [tool |-> "trade", input |-> input, with |-> "none", kind |-> kind, limit |-> limit, values |-> values]
AtMost2 == Rule("max", "size", 2, {})
OnlyA   == Rule("one_of", "sym", 0, {"A"})
NotB    == Rule("none_of", "sym", 0, {"B"})
FixedA  == Rule("fixed", "sym", 0, {"A"})
UsualB  == Rule("default", "sym", 0, {"B"})
Value4  == [Rule("max_product", "size", 4, {}) EXCEPT !.with = "price"]
AtLeast(n) == Rule("min", "size", n, {})

Wait(same) == [before |-> "trade", first |-> "check", same |-> same]
Cap == [tools |-> {}, apps |-> {"broker", "chat"}, limited |-> {}, allLookUps |-> FALSE, rules |-> {}, prereqs |-> {}]
Pair(rules, c1, c2) == [agentRules |-> rules, caps |-> [c1 |-> c1, c2 |-> c2]]

MCDrafts ==
  {Pair({}, [Cap EXCEPT !.prereqs = {Wait({"sym"})}], Cap),
   Pair({AtMost2, UsualB}, [Cap EXCEPT !.prereqs = {Wait({"sym"})}], Cap),
   Pair({FixedA, AtLeast(1)}, [Cap EXCEPT !.prereqs = {Wait({"sym"})}], Cap),
   Pair({Value4}, [Cap EXCEPT !.rules = {OnlyA}], [Cap EXCEPT !.prereqs = {Wait({})}]),
   Pair({NotB}, [Cap EXCEPT !.tools = {"check"}, !.limited = {"broker"}],
        [Cap EXCEPT !.limited = {"broker"}, !.allLookUps = TRUE, !.tools = {"post"}]),
   Pair({FixedA, OnlyA, [OnlyA EXCEPT !.values = {"B"}]}, Cap, Cap),
   Pair({AtMost2, AtLeast(3)}, Cap, Cap),
   Pair({FixedA}, [Cap EXCEPT !.rules = {[FixedA EXCEPT !.values = {"B"}]}], Cap)}

Attended == [unattended |-> FALSE, allowed |-> {}, flagged |-> {}, asker |-> TRUE, zoneKnown |-> TRUE,
             canAskZone |-> TRUE, connected |-> TRUE, picks |-> <<"c1", "c2">>, known |-> DOMAIN MCDef,
             off |-> {}, running |-> {"broker", "chat"}]
MCSettings ==
  {Attended,
   [Attended EXCEPT !.picks = <<"c2", "c1">>, !.flagged = {"trade", "post", "check"}],
   [Attended EXCEPT !.connected = FALSE, !.zoneKnown = FALSE, !.picks = <<"c1">>],
   [Attended EXCEPT !.unattended = TRUE, !.asker = FALSE, !.allowed = {"trade"}, !.flagged = {"post"}],
   [Attended EXCEPT !.unattended = TRUE, !.asker = FALSE, !.picks = <<"c2">>, !.known = {"trade", "post"}],
   [Attended EXCEPT !.off = {"post"}, !.running = {"broker"}]}

Input(sym, price) == [sym |-> sym, size |-> "none", price |-> price]
MCInputs ==
  [check |-> {Input("A", "none"), Input("a", "none"), Input("B", "none")},
   trade |-> {Input("A", "none"), Input("a", "2t"), Input("B", "2"), Input("none", "1"), Input("B", "bad"),
              [Input("A", "3") EXCEPT !.size = "3"]},
   post  |-> {Input("A", "none")}]
MCSizes == {"1", "3"}

Init ==
  /\ part \in {"turns", "gates", "choices", "wakes"}
  /\ Turns!Init /\ Gates!Init /\ Choice!Init /\ Wakes!Init
  /\ part # "turns" => agent = Usual
  /\ part # "choices" => elsewhere

Next ==
  \/ part = "turns" /\ Turns!Next /\ UNCHANGED <<part, gatesVars, choicesVars, wakesVars>>
  \/ part = "gates" /\ Gates!Next /\ UNCHANGED <<part, turnsVars, choicesVars, wakesVars>>
  \/ part = "choices" /\ Choice!Next /\ UNCHANGED <<part, turnsVars, gatesVars, wakesVars>>
  \/ part = "wakes" /\ Wakes!Next /\ UNCHANGED <<part, turnsVars, gatesVars, choicesVars>>

Spec == Init /\ [][Next]_vars

(* A turn's abilities, and what it follows on (runRoutedTurn, jobTools).      *)
TurnInv == part = "turns" => Turns!TurnInv
(* An unattended turn gets only the changes its person agreed to.            *)
OnlyAgreed == part = "turns" => Turns!OnlyAgreed

(* What a reply may do is what was granted, bound by its rules, once.         *)
GatesInv == part = "gates" => Gates!GatesInv
(* What a person approves is what is sent (prepare.go).                      *)
ApprovedAsSent == part = "gates" => Gates!ApprovedAsSent
(* What waits for a look-up runs after it (prerequisite.go).                 *)
LookedFirst == part = "gates" => Gates!LookedFirst

(* A choice is made once and said once; what is typed is heard once.         *)
ProposalsInv == part = "choices" => Choice!ProposalsInv

(* A wake-up is in sight, and no moment has the job done twice.              *)
WakeInv == part = "wakes" => Wakes!WakeInv
(* The job is done only when it was meant to be done (confirm_moment).       *)
DoneWhenMeant == Wakes!DoneWhenMeant
=============================================================================

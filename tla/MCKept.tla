------------------------------- MODULE MCKept -------------------------------
(***************************************************************************)
(* Three modules of what is stored, each on an instance of its own: jobs     *)
(* made within caps (JobCaps itself: two occurrences for one alert and one   *)
(* for another, all of one person with an agent; the one only leaves a       *)
(* shadow job, and may be stored without asking; the alerts' cap lets one    *)
(* job be made in a tick, the other one job in two), what is learned about   *)
(* a person (two servers with an exchange each, two names of one kind of     *)
(* detail, a field of its own, and an app only one agent works with), and    *)
(* what an agent is defined by (two agents stored, identities of both kinds  *)
(* to be made, two requests of any kind).  They share no variable, so one    *)
(* behaviour takes the steps of one of them, and the variables of the        *)
(* others stay as they began.                                               *)
(***************************************************************************)
EXTENDS JobCaps, TLC

CONSTANTS
  Servers, Exchanges, Server, Apps, Slots, Scope, Kind, Owned, Values, Wordless,
  Invalid, Never, MaxDetails, MaxQuestions, Proposals, MaxEdits,  \* Learning
  Agents, Identities, Skills, Bots, Kinds, Stored, MaxRestarts,  \* Definitions
  o1, o2, o3, pay, mail, ann, e1, e2, s1, s2, p1, p2, f1, a1, g1, g2, i1, i2  \* model values

VARIABLES
  part,  \* the module whose steps are taken; the others stay as they began
  held, declined, learn, edits, learnPast,
  store, identities, coming, skill, host, listeners, req, restarts, defsPast

Learns == INSTANCE Learning WITH past <- learnPast
Defs == INSTANCE Definitions WITH past <- defsPast, Requests <- Workers

learningVars == <<held, declined, learn, edits, learnPast>>
defsVars == <<store, identities, coming, skill, host, listeners, req, restarts,
              defsPast>>
keptVars == <<part, vars, learningVars, defsVars>>

ASSUME KeptConstants == Learns!LearningConstants /\ Defs!DefinitionsConstants

MCAlertOf       == o1 :> pay @@ o2 :> pay @@ o3 :> mail
MCPersonAgentOf == o1 :> ann @@ o2 :> ann @@ o3 :> ann
MCCaps == << [scope |-> "alert", max |-> 1, window |-> 1],
             [scope |-> "personAgent", max |-> 1, window |-> 2] >>
Symmetric == Permutations(Workers)

MCServer    == e1 :> s1 @@ e2 :> s2
MCApps      == e1 :> {"app"} @@ e2 :> {}
MCScope     == p1 :> "personal" @@ p2 :> "personal" @@ f1 :> "personal" @@ a1 :> "app"
MCKind      == p1 :> "town" @@ p2 :> "town" @@ f1 :> "zone" @@ a1 :> "team"
MCProposals == e1 :> 2 @@ e2 :> 1

MCStored == g1 :> {{}} @@ g2 :> {{}}
MCKinds  == {"create", "patch", "rules", "identities", "delete", "newskill", "skill", "unskill"}

(* Jobs wait as they begin while another module takes its steps.             *)
KeptInit ==
  /\ Init
  /\ \/ /\ part = "caps"
        /\ held = 0 /\ declined = 0 /\ learn = 0 /\ edits = 0 /\ learnPast = 0
        /\ store = 0 /\ identities = 0 /\ coming = 0 /\ skill = 0 /\ host = 0 /\ listeners = 0
        /\ req = 0 /\ restarts = 0 /\ defsPast = 0
     \/ /\ part = "learning" /\ Learns!Init
        /\ store = 0 /\ identities = 0 /\ coming = 0 /\ skill = 0 /\ host = 0 /\ listeners = 0
        /\ req = 0 /\ restarts = 0 /\ defsPast = 0
     \/ /\ part = "defs" /\ Defs!Init
        /\ held = 0 /\ declined = 0 /\ learn = 0 /\ edits = 0 /\ learnPast = 0

KeptNext ==
  \/ part = "caps" /\ Next /\ UNCHANGED <<part, learningVars, defsVars>>
  \/ part = "learning" /\ Learns!Next /\ UNCHANGED <<part, vars, defsVars>>
  \/ part = "defs" /\ Defs!Next /\ UNCHANGED <<part, vars, learningVars>>

KeptSpec == KeptInit /\ [][KeptNext]_keptVars

(* Learning: nothing is noted twice of one kind by one agent.                *)
LearningInv == part = "learning" => Learns!LearningInv
(* What the person said Yes and No to stands (proposeChange).                *)
PersonDecides == [][part = "learning" => Learns!DecidesStep]_keptVars
(* Definitions: an identity is one agent's, and the host follows the store.  *)
DefinitionsInv == part = "defs" => Defs!DefinitionsInv
(* Saving one part of a definition leaves the others as they are.            *)
SavesItsPart == [][part = "defs" => Defs!SavesStep]_keptVars
=============================================================================

----------------------------- MODULE Definitions -----------------------------
(***************************************************************************)
(* What creators define and what the running host has of it: agents, their *)
(* rules, chat app accounts (identities) and capabilities (skills) are     *)
(* rows (postgres/agent.go, skill.go, identity.go), changed by requests    *)
(* (api/agent.go, skill.go, identity.go) that load a whole agent, change a *)
(* part of it and save all of it; after a save the request tells the host, *)
(* which registers, reloads or drops its own copy (runtime/host.go).       *)
(*                                                                         *)
(* Each request is a process; its steps are its calls on the store and on  *)
(* the host.  Listeners models the goroutines behind a listener.           *)
(***************************************************************************)
EXTENDS Integers, FiniteSets

CONSTANTS Agents, Identities, Skills, Requests,
          Bots,        \* identities of kind bot: they go with their agent
          Kinds,       \* what is asked
          Stored,      \* agents stored, with the identities they have, when the server starts
          MaxRestarts  \* bound

DefinitionsConstants ==
  /\ Bots \subseteq Identities
  /\ Kinds \subseteq {"create", "patch", "rules", "identities", "delete", "newskill", "skill", "unskill"}
  /\ Stored \in [Agents -> {{}} \cup {{ids} : ids \in SUBSET Identities}]
  /\ MaxRestarts \in Nat

VARIABLES
  store,       \* the agents' rows: [there, text, rules, ids]
  identities,  \* the identities' rows
  coming,      \* identities not made yet
  skill,       \* the skills' rows: [owner, text], the owner as a set
  host,        \* the host's own copies: [there, text, rules, skills]
  listeners,   \* agent and identity of every listener that runs
  req,         \* the requests
  restarts,
  past         \* history: [unsure: agents the host may have wrong, unchecked: identities]

vars == <<store, identities, coming, skill, host, listeners, req, restarts, past>>

\* A text or a set of rules is known by the request that wrote it.
Old == "old"
Text == Requests \cup {Old}
Nowhere == [there |-> FALSE, text |-> Old, rules |-> Old, ids |-> {}]
Absent == [there |-> FALSE, text |-> Old, rules |-> Old, skills |-> {}]
Unasked == [kind |-> "none", step |-> "none", agent |-> {}, skill |-> {}, want |-> {},
            copy |-> Nowhere, late |-> FALSE, had |-> {}]
Row == [there : BOOLEAN, text : Text, rules : Text, ids : SUBSET Identities]

SkillsOf(a) == {[id |-> s, text |-> skill[s].text] : s \in {t \in Skills : a \in skill[t].owner}}
Copied(row, had) == [there |-> TRUE, text |-> row.text, rules |-> row.rules, skills |-> had]

Of(a) == {r \in Requests : req[r].agent = {a}}
Active(r) == req[r].step \notin {"none", "done"}
Writing(r) == req[r].step \in {"loaded", "checked"}
At(r, kinds, step) == req[r].kind \in kinds /\ req[r].step = step
Goes(r, step) == req' = [req EXCEPT ![r].step = step]
\* Whatever others have loaded or looked up may no longer be what is stored.
Overtakes(r, step) ==
  req' = [q \in Requests |-> IF q = r THEN [req[q] EXCEPT !.step = step]
                             ELSE [req[q] EXCEPT !.late = @ \/ Writing(q)]]

(***************************************************************************)
(* The host at boot (postgres/boot.go, runtime/boot.go): all that is stored *)
(***************************************************************************)
Boot(rows, had) ==
  /\ host' = [a \in Agents |-> IF rows[a].there THEN Copied(rows[a], had[a]) ELSE Absent]
  /\ listeners' = {l \in Agents \X Identities : l[2] \in rows[l[1]].ids}

Restart ==
  /\ restarts < MaxRestarts
  /\ restarts' = restarts + 1
  /\ Boot(store, [a \in Agents |-> SkillsOf(a)])
  /\ req' = [r \in Requests |-> IF Active(r) THEN [Unasked EXCEPT !.step = "done"] ELSE req[r]]
  /\ past' = [past EXCEPT !.unsure = {}]
  /\ UNCHANGED <<store, identities, coming, skill>>

(***************************************************************************)
(* The requests                                                            *)
(***************************************************************************)
\* A mistake: the identities are not loaded with it, as ListAgents loads them on their own.
LoadedBare(a) == [store[a] EXCEPT !.ids = {}]
\* GetAgent: the row and its identities.
Loaded(a) == store[a]

\* Another request about the agent is under way: what the host is told may come in either order.
Asked(r, rec, a) ==
  /\ req' = [req EXCEPT ![r] = rec]
  /\ past' = IF \E q \in Of(a) : Active(q) THEN [past EXCEPT !.unsure = @ \cup {a}] ELSE past
  /\ UNCHANGED <<store, identities, coming, skill, host, listeners, restarts>>

\* createAgent: under an id no agent has, with all the body says.
CreateAgent(r, a, ids) ==
  /\ "create" \in Kinds /\ req[r].step = "none"
  /\ ~store[a].there
  /\ Asked(r, [Unasked EXCEPT !.kind = "create", !.step = "loaded", !.agent = {a}, !.want = ids,
                 !.copy = [there |-> TRUE, text |-> r, rules |-> r, ids |-> ids]], a)

\* patchAgent, setAgentRules (with rules that hold), setAgentIdentities: of an agent there is.
ChangeAgent(r, a, kind, want) ==
  /\ kind \in Kinds \cap {"patch", "rules", "identities"} /\ req[r].step = "none"
  /\ store[a].there /\ (want # {} => kind = "identities")
  /\ Asked(r, [Unasked EXCEPT !.kind = kind, !.step = "loaded", !.agent = {a}, !.want = want,
                 !.copy = Loaded(a)], a)

RemoveAgent(r, a) ==
  /\ "delete" \in Kinds /\ req[r].step = "none"
  /\ store[a].there
  /\ Asked(r, [Unasked EXCEPT !.kind = "delete", !.step = "loaded", !.agent = {a}, !.copy = Loaded(a)], a)

SkillAsked(r, kind, a, s) ==
  /\ kind \in Kinds /\ req[r].step = "none"
  /\ Asked(r, [Unasked EXCEPT !.kind = kind, !.step = "loaded", !.agent = {a}, !.skill = {s}], a)
\* createSkill: for an agent there is, under any id; updateSkill and deleteSkill: of the agent that has it.
CreateSkill(r, a, s) == store[a].there /\ SkillAsked(r, "newskill", a, s)
UpdateSkill(r, a, s) == skill[s].owner = {a} /\ SkillAsked(r, "skill", a, s)
RemoveSkill(r, a, s) == skill[s].owner = {a} /\ SkillAsked(r, "unskill", a, s)

\* GetAgentByIdentityID: any of the agents that have it, or none.
Free(a, i) == a \in {b \in Agents : i \in store[b].ids} \/ ~\E b \in Agents : i \in store[b].ids

\* setAgentIdentities looks at each identity wanted: is it there, and not another agent's?
CheckIdentities(r) ==
  /\ At(r, {"identities"}, "loaded")
  /\ \E a \in req[r].agent :
       \/ /\ req[r].want \subseteq identities /\ \A i \in req[r].want : Free(a, i)
          /\ Goes(r, "checked")
       \/ /\ \/ ~(req[r].want \subseteq identities)
             \/ \E i \in req[r].want, b \in Agents \ {a} : i \in store[b].ids
          /\ Goes(r, "done")
  /\ UNCHANGED <<store, identities, coming, skill, host, listeners, restarts, past>>

\* What is saved: all that was loaded, with the part that was asked for.
Patched(r) == [req[r].copy EXCEPT !.text = r]
WithRules(r) == [req[r].copy EXCEPT !.rules = r]
WithIdentities(r) == [req[r].copy EXCEPT !.ids = req[r].want]
Edited(r) ==
  CASE req[r].kind = "patch"      -> Patched(r)
    [] req[r].kind = "rules"      -> WithRules(r)
    [] req[r].kind = "identities" -> WithIdentities(r)
    [] OTHER                      -> req[r].copy

Added(r) == req[r].want \ req[r].copy.ids
Removed(r) == req[r].copy.ids \ req[r].want

\* SaveAgent: inserted, or all of it written over; refused if an identity is no longer there.
SaveAgent(r) ==
  /\ At(r, {"create", "patch", "rules"}, "loaded") \/ At(r, {"identities"}, "checked")
  /\ \E a \in req[r].agent :
       IF Edited(r).ids \subseteq identities
       THEN /\ store' = [store EXCEPT ![a] = Edited(r)]
            /\ Overtakes(r, IF req[r].kind = "identities" /\ Added(r) \cup Removed(r) = {}
                            THEN "done" ELSE "hook")
            /\ past' = [past EXCEPT !.unchecked = @ \cup
                 (IF req[r].kind = "create" \/ req[r].late THEN Edited(r).ids ELSE {})]
       ELSE Goes(r, "done") /\ UNCHANGED <<store, past>>
  /\ UNCHANGED <<identities, coming, skill, host, listeners, restarts>>

\* Identities' rows go, and with them what refers to them.
Without(gone) == [a \in Agents |-> [store[a] EXCEPT !.ids = @ \ gone]]
NoSkill == [owner |-> {}, text |-> Old]

\* DeleteAgent: with its bot identities and its skills.
DeleteAgent(r) ==
  /\ At(r, {"delete"}, "loaded")
  /\ \E a \in req[r].agent :
       /\ store' = [Without(store[a].ids \cap Bots) EXCEPT ![a] = Nowhere]
       /\ identities' = identities \ (store[a].ids \cap Bots)
       /\ skill' = [s \in Skills |-> IF a \in skill[s].owner THEN NoSkill ELSE skill[s]]
  /\ Overtakes(r, "hook")
  /\ UNCHANGED <<coming, host, listeners, restarts, past>>

\* SaveSkill: inserted or written over, whoever had it; refused if the agent is no longer there.
SaveSkill(r) ==
  /\ At(r, {"newskill", "skill"}, "loaded")
  /\ \E a \in req[r].agent, s \in req[r].skill :
       IF store[a].there
       THEN /\ skill' = [skill EXCEPT ![s] = [owner |-> {a}, text |-> r]]
            /\ past' = [past EXCEPT !.unsure = @ \cup (skill[s].owner \ {a})]
            /\ Goes(r, "hook")
       ELSE Goes(r, "done") /\ UNCHANGED <<coming, skill, past>>
  /\ UNCHANGED <<store, identities, coming, host, listeners, restarts>>

DeleteSkill(r) ==
  /\ At(r, {"unskill"}, "loaded")
  /\ \E s \in req[r].skill :
       /\ skill' = [skill EXCEPT ![s] = NoSkill]
       /\ past' = [past EXCEPT !.unsure = @ \cup (skill[s].owner \ req[r].agent)]
  /\ Goes(r, "hook")
  /\ UNCHANGED <<store, identities, coming, host, listeners, restarts>>

\* An identity is made, under an id of its own: a bot's with its token, an OAuth one without.
CreateIdentity(i) ==
  /\ i \in coming
  /\ identities' = identities \cup {i} /\ coming' = coming \ {i}
  /\ UNCHANGED <<store, skill, host, listeners, req, restarts, past>>
CreateBotIdentity(i) == i \in Bots /\ CreateIdentity(i)
CreateOAuthIdentity(i) == i \notin Bots /\ CreateIdentity(i)

\* deleteIdentity: nobody is told.
DeleteIdentity(i) ==
  /\ i \in identities
  /\ identities' = identities \ {i}
  /\ store' = Without({i})
  /\ req' = [q \in Requests |-> [req[q] EXCEPT !.late = @ \/ Writing(q)]]
  /\ UNCHANGED <<coming, skill, host, listeners, restarts, past>>

(***************************************************************************)
(* What the host is told                                                   *)
(***************************************************************************)
Reloading == {"patch", "rules", "newskill", "skill", "unskill"}

\* LoadAgent for the host: first the row, then the skills; either may fail.
ReadRow(r) ==
  /\ At(r, Reloading \cup {"create"}, "hook")
  /\ \E a \in req[r].agent :
       /\ store[a].there
       /\ req' = [req EXCEPT ![r].step = "read", ![r].copy = store[a]]
  /\ UNCHANGED <<store, identities, coming, skill, host, listeners, restarts, past>>
ReadSkills(r) ==
  /\ req[r].step = "read"
  /\ \E a \in req[r].agent : req' = [req EXCEPT ![r].step = "apply", ![r].had = SkillsOf(a)]
  /\ UNCHANGED <<store, identities, coming, skill, host, listeners, restarts, past>>
ReadFails(r) ==
  /\ At(r, Reloading \cup {"create"}, "hook") \/ req[r].step = "read"
  /\ Goes(r, "done")
  /\ past' = [past EXCEPT !.unsure = @ \cup req[r].agent]
  /\ UNCHANGED <<store, identities, coming, skill, host, listeners, restarts>>

\* A mistake: only the skills are taken over.
SkillsOnly(mine, row, had) == [mine EXCEPT !.skills = had]
\* What ReloadAgent takes over: not the rules.
Refreshed(mine, row, had) == [mine EXCEPT !.text = row.text, !.skills = had]

ReloadAgent(r) ==
  /\ At(r, Reloading, "apply")
  /\ \E a \in req[r].agent :
       host' = IF host[a].there
               THEN [host EXCEPT ![a] = Refreshed(host[a], req[r].copy, req[r].had)] ELSE host
  /\ Goes(r, "done")
  /\ UNCHANGED <<store, identities, coming, skill, listeners, restarts, past>>

Register(r) ==
  /\ At(r, {"create"}, "apply")
  /\ \E a \in req[r].agent : host' = [host EXCEPT ![a] = Copied(req[r].copy, req[r].had)]
  /\ req' = [req EXCEPT ![r].step = "start", ![r].want = req[r].copy.ids, ![r].copy = Nowhere]
  /\ UNCHANGED <<store, identities, coming, skill, listeners, restarts, past>>

\* StopIdentityListeners: of the identities taken away, or of all the agent had when it was loaded.
StopIdentityListeners(r) ==
  /\ At(r, {"identities", "delete"}, "hook")
  /\ listeners' = listeners \ (req[r].agent \X Removed(r))
  /\ Goes(r, IF req[r].kind = "delete" THEN "drop" ELSE "start")
  /\ UNCHANGED <<store, identities, coming, skill, host, restarts, past>>

Deregister(r) ==
  /\ req[r].step = "drop"
  /\ \E a \in req[r].agent : host' = [host EXCEPT ![a] = Absent]
  /\ Goes(r, "done")
  /\ UNCHANGED <<store, identities, coming, skill, listeners, restarts, past>>

\* StartListenerForAgent, for each identity added that is still there.
StartListeners(r) ==
  /\ req[r].step = "start"
  /\ \E a \in req[r].agent :
       listeners' = IF host[a].there
                    THEN listeners \cup ({a} \X (Added(r) \cap identities))
                    ELSE listeners
  /\ Goes(r, "done")
  /\ UNCHANGED <<store, identities, coming, skill, host, restarts, past>>

(***************************************************************************)
(* Specification                                                           *)
(***************************************************************************)
Init ==
  /\ store = [a \in Agents |-> IF Stored[a] = {} THEN Nowhere
                ELSE [Nowhere EXCEPT !.there = TRUE, !.ids = UNION Stored[a]]]
  /\ identities = UNION {UNION Stored[a] : a \in Agents} /\ coming = Identities \ identities
  /\ skill = [s \in Skills |-> NoSkill]
  /\ host = [a \in Agents |-> IF store[a].there THEN Copied(store[a], {}) ELSE Absent]
  /\ listeners = {l \in Agents \X Identities : l[2] \in store[l[1]].ids}
  /\ req = [r \in Requests |-> Unasked]
  /\ restarts = 0
  /\ past = [unsure |-> {}, unchecked |-> {i \in identities : \E a, b \in Agents : a # b /\ i \in store[a].ids \cap store[b].ids}]

Ask(r) ==
  \E a \in Agents :
    \/ \E ids \in SUBSET identities : CreateAgent(r, a, ids)
    \/ \E kind \in Kinds, want \in SUBSET Identities : ChangeAgent(r, a, kind, want)
    \/ RemoveAgent(r, a)
    \/ \E s \in Skills : CreateSkill(r, a, s) \/ UpdateSkill(r, a, s) \/ RemoveSkill(r, a, s)
Write(r) == CheckIdentities(r) \/ SaveAgent(r) \/ DeleteAgent(r) \/ SaveSkill(r) \/ DeleteSkill(r)
Tell(r) ==
  \/ ReadRow(r) \/ ReadSkills(r) \/ ReadFails(r) \/ ReloadAgent(r) \/ Register(r)
  \/ StopIdentityListeners(r) \/ Deregister(r) \/ StartListeners(r)

Next ==
  \/ \E r \in Requests : Ask(r) \/ Write(r) \/ Tell(r)
  \/ \E i \in Identities : CreateBotIdentity(i) \/ CreateOAuthIdentity(i) \/ DeleteIdentity(i)
  \/ Restart

Spec == Init /\ [][Next]_vars

(***************************************************************************)
(* Properties                                                              *)
(***************************************************************************)
TypeOK ==
  /\ store \in [Agents -> Row] /\ identities \subseteq Identities \ coming /\ coming \subseteq Identities
  /\ skill \in [Skills -> [owner : SUBSET Agents, text : Text]]
  /\ host \in [Agents -> [there : BOOLEAN, text : Text, rules : Text,
                          skills : SUBSET [id : Skills, text : Text]]]
  /\ listeners \subseteq Agents \X Identities
  /\ \A r \in Requests :
       /\ req[r].copy \in Row /\ req[r].agent \subseteq Agents /\ req[r].want \subseteq Identities
       /\ req[r].step \in {"none", "loaded", "checked", "hook", "read", "apply", "start", "drop", "done"}
  /\ restarts \in 0..MaxRestarts
  /\ past.unsure \subseteq Agents /\ past.unchecked \subseteq Identities

\* "Reject any identity already claimed by a different agent" (setAgentIdentities): it is one agent's,
\* unless it came with a new agent, or something else was saved between the check and the save, or
\* two agents had it when the server started.
OneAgentPerIdentity ==
  \A i \in identities \ past.unchecked : Cardinality({a \in Agents : i \in store[a].ids}) <= 1

\* Nothing stored refers to what is gone.
Kept ==
  /\ \A a \in Agents : store[a].ids \subseteq identities
  /\ \A s \in Skills : \A a \in skill[s].owner : store[a].there

\* Once all that was asked about an agent is answered, one request after the other and nothing
\* failing, the host runs what is stored: its text, its skills, a listener for each identity.
HostFollows ==
  \A a \in Agents \ past.unsure : (\A r \in Of(a) : ~Active(r)) =>
    /\ host[a].there = store[a].there
    /\ store[a].there => host[a].text = store[a].text /\ host[a].skills = SkillsOf(a)
    /\ \A i \in identities : <<a, i>> \in listeners <=> i \in store[a].ids

\* The type of the state, OneAgentPerIdentity, Kept and HostFollows.
DefinitionsInv == TypeOK /\ OneAgentPerIdentity /\ Kept /\ HostFollows

\* "Only fields present in the JSON body are updated" (patchAgent), and the like for rules and
\* identities: a save leaves the rest as it is stored, when nothing was saved since it was loaded.
SavesStep ==
  \A r \in Requests : Writing(r) /\ ~req[r].late /\ req'[r].step = "hook" =>
    \A a \in req[r].agent :
      /\ req[r].kind \in {"patch", "identities"} => store'[a].rules = store[a].rules
      /\ req[r].kind \in {"rules", "identities"} => store'[a].text = store[a].text
      /\ req[r].kind \in {"patch", "rules"} => store'[a].ids = store[a].ids
SavesItsPart == [][SavesStep]_vars

-----------------------------------------------------------------------------
(* What is said of it, and does not hold. *)

\* "Saving reloads the agent, so the rules apply to the next message" (setAgentRules): the reload
\* leaves the host's rules as they were.
RulesApply ==
  \A a \in Agents \ past.unsure : (\A r \in Of(a) : ~Active(r)) /\ host[a].there =>
    host[a].rules = store[a].rules

\* The same three, of requests that overlap.
SavesItsPartAlways ==
  [][\A r \in Requests : Writing(r) /\ req'[r].step = "hook" /\ req[r].kind = "patch" =>
       \A a \in req[r].agent : store'[a].rules = store[a].rules]_vars
OneAgentAlways == \A i \in identities : Cardinality({a \in Agents : i \in store[a].ids}) <= 1
HostFollowsAlways ==
  (\A r \in Requests : ~Active(r)) => \A a \in Agents : host[a].there => host[a].text = store[a].text

\* A deleted agent stays deleted.
StaysDeleted ==
  [][\A a \in Agents, r \in Requests :
       ~store[a].there /\ store'[a].there /\ req[r].agent = {a} /\ Writing(r) /\ req'[r].step = "hook"
         => req[r].kind = "create"]_vars

\* "So the goroutines exit cleanly rather than continuing to poll a disconnected credential"
\* (StopIdentityListeners): also when the identity itself is deleted.
NoneGone == \A l \in listeners : l[2] \in identities
=============================================================================

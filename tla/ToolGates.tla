------------------------------ MODULE ToolGates ------------------------------
(***************************************************************************)
(* What an agent may use in one reply, and everything that stands between  *)
(* a call the model makes and the service that carries it out: the         *)
(* abilities a capability grants, what must run first (domain/             *)
(* prerequisite.go), the values its creator fixed and the limits the       *)
(* creator set (tool_rule.go), the input check (input_contract.go), the    *)
(* time zone, the once-per-reply guard, the two approvals and the sign-in  *)
(* (hydrate.go), and the journal of what ran.                              *)
(*                                                                         *)
(* A creator stores rules and capabilities; a reply binds the abilities of *)
(* the capabilities routing picked and the model then calls them one after *)
(* the other, with any inputs, as often as it likes.  People answer, or    *)
(* do not; services do what they were asked, refuse, fail, or do it and    *)
(* fail to say so.                                                         *)
(***************************************************************************)
EXTENDS Integers, FiniteSets, Sequences

CONSTANTS Def,        \* [abilities -> ToolDefinition]
          Drafts,     \* what a creator may try to store: [agentRules, caps]
          Settings,   \* the circumstances of a reply
          Inputs,     \* [abilities -> what the model may give a call]
          Sizes,      \* sizes an executor may work out
          MaxCalls,   \* bound: calls in one reply
          MaxReplies  \* bound: replies, and times the creator stores something

Tools == DOMAIN Def
Details == {"sym", "size", "price"}
Numeric == {"size", "price"}

\* Values as they arrive: "2t" is the number 2 given as text, "a" is "A" in
\* another case, "bad" text that is no number.  "none" is no value.
Numbers == {"1", "2", "3"}
Num == [v \in Numbers \cup {"1t", "2t", "3t"} |->
          CASE v \in {"1", "1t"} -> 1 [] v \in {"2", "2t"} -> 2 [] v \in {"3", "3t"} -> 3]
IsNum(v) == v \in DOMAIN Num
AsNumber(v) == CASE v = "1t" -> "1" [] v = "2t" -> "2" [] v = "3t" -> "3" [] OTHER -> v
AsText(v) == CASE v = "1" -> "1t" [] v = "2" -> "2t" [] v = "3" -> "3t" [] OTHER -> v
Fold(v) == IF v = "a" THEN "A" ELSE v

\* Abilities are finitely many, and so is what a creator asks to run first; a reply knows abilities
\* of the catalogue and picks capabilities one after the other; what an executor works out is a number.
GateConstants ==
  /\ IsFiniteSet(Tools)
  /\ \A t \in Tools : Def[t].details \subseteq Details /\ Def[t].prepares \subseteq Numeric
  /\ \A d \in Drafts : \A c \in DOMAIN d.caps : IsFiniteSet(d.caps[c].prereqs)
  /\ \A s \in Settings : s.known \subseteq Tools /\ s.picks \in Seq({s.picks[i] : i \in DOMAIN s.picks})

VARIABLES defs,     \* what the creator stored
          reply,    \* the reply and the call it is in
          journal,  \* RunJournal: what ran in this reply, with what it was given
          done,     \* withOneShotGuard: what went through in this reply
          sent,     \* history: what reached a service in this reply
          bounds    \* counters that bound the history

vars == <<defs, reply, journal, done, sent, bounds>>

(***************************************************************************)
(* Values                                                                  *)
(***************************************************************************)
\* sameInput: text whatever its case, numbers as numbers, text against a number never.
SameInput(a, b) ==
  \/ a = b
  \/ a # "none" /\ b # "none" /\ Fold(a) = Fold(b)

\* sameValue: numbers first, whichever way they were given.
SameValue(a, b) == IF IsNum(a) /\ IsNum(b) THEN Num[a] = Num[b] ELSE Fold(a) = Fold(b)
ValueIn(values, v) == \E w \in values : SameValue(w, v)

\* Schema.check: numbers given as text become numbers, and the other way round.
CanCheck(d, v) == d \in Numeric => IsNum(v)
Checked(d, v) == IF d \in Numeric THEN AsNumber(v) ELSE AsText(v)

\* CheckInput
InputOK(t, in) ==
  /\ \A d \in Def[t].details : in[d] # "none" => CanCheck(d, in[d])
  /\ \A d \in Def[t].required : in[d] # "none"
CheckInput(t, in) ==
  [d \in Details |-> IF d \in Def[t].details /\ in[d] # "none" THEN Checked(d, in[d]) ELSE in[d]]

(***************************************************************************)
(* What a creator may store.  A rule: [tool, input, with, kind, limit,     *)
(* values]; a prerequisite: [before, first, same].                         *)
(***************************************************************************)
RuleOK(r) ==
  /\ r.tool \in Tools
  /\ r.input \in Def[r.tool].details \cup Def[r.tool].prepares
  /\ CASE r.kind = "max_product" ->
            /\ r.with \in (Def[r.tool].details \cup Def[r.tool].prepares) \ {r.input}
            /\ {r.input, r.with} \subseteq Numeric
            /\ r.limit > 0
       [] r.kind \in {"max", "min"} -> r.input \in Numeric
       [] r.kind \in {"one_of", "none_of"} ->
            r.values # {} /\ \A v \in r.values : CanCheck(r.input, v)
       [] r.kind \in {"fixed", "default"} ->
            Cardinality(r.values) = 1 /\ \A v \in r.values : CanCheck(r.input, v)

NormalizeRules(rules) ==
  /\ \A r \in rules : RuleOK(r)
  /\ \A r, s \in rules : r # s /\ r.tool = s.tool =>
       /\ r.input = s.input =>
            /\ ~(r.kind \in {"fixed", "default"} /\ s.kind \in {"fixed", "default"})
            /\ ~(r.kind = s.kind /\ r.kind \in {"max", "min"})
            /\ r.kind = "max" /\ s.kind = "min" => s.limit <= r.limit
       /\ r.kind = "max_product" /\ s.kind = "max_product" =>
            {r.input, r.with} # {s.input, s.with}

\* GrantedTools, of a catalogue with the abilities "known" and "off" of them turned off.
Granted(cap, known, off) ==
  {t \in known \ off :
     \/ t \in cap.tools
     \/ /\ Def[t].app \in cap.apps
        /\ Def[t].app \in cap.limited => cap.allLookUps /\ Def[t].readOnly}

NormalizePrerequisites(cap) ==
  LET granted == Granted(cap, Tools, {})
  IN  \A p \in cap.prereqs :
        /\ p.before \in granted /\ p.first \in granted /\ p.before # p.first
        /\ Def[p.first].readOnly
        /\ p.same \subseteq Def[p.before].details \cap Def[p.first].details

CreatorStores ==
  /\ reply.pc = "over"
  /\ bounds.saves < MaxReplies
  /\ \E d \in Drafts :
       /\ NormalizeRules(d.agentRules)
       /\ \A c \in DOMAIN d.caps : NormalizeRules(d.caps[c].rules) /\ NormalizePrerequisites(d.caps[c])
       /\ defs' = d
  /\ bounds' = [bounds EXCEPT !.saves = @ + 1]
  /\ UNCHANGED <<reply, journal, done, sent>>

(***************************************************************************)
(* The abilities of a reply                                                *)
(***************************************************************************)
\* hydrateSkillTools: a named ability that does not exist is an error; one that is
\* turned off, or whose service is not running here, is left out.
HydrateFails(cap, s) == ~(cap.tools \subseteq s.known)
BoundBy(cap, s) ==
  LET runsHere == {t \in s.known \ s.off : Def[t].app \in s.running}
      named    == cap.tools
      whole    == {t \in Tools : /\ Def[t].app \in cap.apps
                                 /\ Def[t].app \in cap.limited => cap.allLookUps /\ Def[t].readOnly}
  IN  runsHere \cap (named \cup whole)

RulesOf(rules, t) == {r \in rules : r.tool = t}

\* HydrateSkillTools and WrapPrerequisites: what one capability holds one ability to.
Copy(d, c, t, s) ==
  LET cap   == d.caps[c]
      has   == BoundBy(cap, s)
      asked == {p \in cap.prereqs : p.before = t}
      own   == {[before |-> t, first |-> f, same |-> {}] : f \in (Def[t].first \cap has) \ {t}}
  IN  [agents |-> RulesOf(d.agentRules, t),
       own    |-> RulesOf(cap.rules, t),
       waits  |-> asked \cup own,
       oneOf  |-> (Def[t].firstAny \cap has) \ {t}]

\* rulesFor: the agent's rules, then the capability's own.
Rules(copy) == copy.agents \cup copy.own

\* guards: what must run first, and the capability's own limits.
Guards(copy) ==
  Cardinality(copy.waits) + Cardinality(copy.oneOf) + (IF copy.own # {} THEN 1 ELSE 0)

\* The picks that grant an ability, and what each holds it to.
Grants(d, s, t) ==
  {i \in DOMAIN s.picks : LET cap == d.caps[s.picks[i]] IN ~HydrateFails(cap, s) /\ t \in BoundBy(cap, s)}
CopyAt(d, s, t, i) == Copy(d, s.picks[i], t, s)

\* routeWithJev: of the same ability through two capabilities, the copy held to more; the
\* earlier of two held to as much.
KeptFirst(d, s, t, i, j) ==
  LET gi == Guards(CopyAt(d, s, t, i))
      gj == Guards(CopyAt(d, s, t, j))
  IN  gi > gj \/ (gi = gj /\ i <= j)
Merge(d, s) ==
  [t \in {u \in Tools : Grants(d, s, u) # {}} |->
     CopyAt(d, s, t, CHOOSE i \in Grants(d, s, t) : \A j \in Grants(d, s, t) : KeptFirst(d, s, t, i, j))]

NoCall == [tool |-> "none", raw |-> "none", input |-> "none", passed |-> {}, approved |-> {}]
Over == [pc |-> "over", with |-> "none", bound |-> <<>>, call |-> NoCall]

BeginReply(s) ==
  /\ reply.pc = "over"
  /\ \A i \in DOMAIN s.picks : s.picks[i] \in DOMAIN defs.caps
  /\ bounds.replies < MaxReplies
  /\ reply' = [pc |-> "model", with |-> s, bound |-> Merge(defs, s), call |-> NoCall]
  /\ journal' = {} /\ done' = {} /\ sent' = <<>>
  /\ bounds' = [bounds EXCEPT !.replies = @ + 1, !.calls = 0]
  /\ UNCHANGED defs

EndReply ==
  /\ reply.pc = "model"
  /\ reply' = Over
  /\ journal' = {} /\ done' = {} /\ sent' = <<>>
  /\ UNCHANGED <<defs, bounds>>

(***************************************************************************)
(* One call, from the outermost gate to the innermost.                     *)
(***************************************************************************)
With == reply.with
Held(t) == reply.bound[t]

\* A mistake: it is enough that the earlier ability ran, for whatever it ran.
HasForAnything(tool, same, in) == \E e \in journal : e.tool = tool
\* RunJournal.Has
Has(tool, same, in) == \E e \in journal : e.tool = tool /\ \A d \in same : SameInput(e.input[d], in[d])

\* WrapPrerequisites: refused until each has run; checked on what the model gave.
MustWait(t, raw) ==
  \/ \E p \in Held(t).waits : ~Has(p.first, p.same, raw)
  \/ /\ Held(t).oneOf # {} /\ ~With.unattended
     /\ ~\E f \in Held(t).oneOf : Has(f, {}, raw)

Only(set) == CHOOSE v \in set : TRUE
Pins(rules, kind, d) ==
  {Checked(d, Only(r.values)) : r \in {q \in rules : q.kind = kind /\ q.input = d}}
FirstOf(S, T, v) == IF S # {} THEN Only(S) ELSE IF T # {} THEN Only(T) ELSE v

\* applyPins, the agent's rules and then the capability's: a fixed value replaces what is there,
\* the agent's too, and a usual one only fills in what is missing.
ApplyPins(copy, in) ==
  [d \in Details |->
     FirstOf(Pins(copy.own, "fixed", d), Pins(copy.agents, "fixed", d),
             IF in[d] # "none" THEN in[d]
             ELSE FirstOf(Pins(copy.agents, "default", d), Pins(copy.own, "default", d), "none"))]

\* breaks and breaksProduct: a limit on two details that lacks one of them is broken.
BreaksRule(r, in) ==
  LET v == in[r.input]
  IN  CASE r.kind = "max"     -> IsNum(v) /\ Num[v] > r.limit
        [] r.kind = "min"     -> IsNum(v) /\ Num[v] < r.limit
        [] r.kind = "one_of"  -> v # "none" /\ ~ValueIn(r.values, v)
        [] r.kind = "none_of" -> v # "none" /\ ValueIn(r.values, v)
        [] r.kind = "max_product" ->
             \/ ~IsNum(v) \/ ~IsNum(in[r.with])
             \/ IsNum(v) /\ IsNum(in[r.with]) /\ Num[v] * Num[in[r.with]] > r.limit
        [] OTHER -> FALSE
Breaks(rules, in) == \E r \in rules : BreaksRule(r, in)

\* withPrepare: an executor may work out what was not given, once it has the account.
Prepared(t, in) ==
  LET open == {d \in Def[t].prepares : in[d] = "none"}
  IN  IF With.connected
      THEN {[d \in Details |-> IF d \in open THEN out[d] ELSE in[d]] : out \in [open -> Sizes]}
      ELSE {in}

\* What the call carries once fixed values, the input check and the executor have had it.
Whole(t, raw) ==
  LET pinned == ApplyPins(Held(t), raw)
  IN  IF InputOK(t, pinned) THEN Prepared(t, CheckInput(t, pinned)) ELSE {}

\* A mistake: a call with any other detail is another change.
OnceKeyOfAll(t, in) == in
OnceKey(t, in) == [d \in Def[t].onceFor |-> AsText(Fold(in[d]))]
AlreadyDone(t, in) == Def[t].approves /\ <<t, OnceKey(t, in)>> \in done

\* AskForTimezone
AsksZone(t) == Def[t].needsZone /\ ~With.zoneKnown /\ With.canAskZone

\* A mistake: an unattended run needs nobody's agreement.
AgreedByNobody(t) == With.unattended
\* agreedInAdvance
Agreed(t) == With.unattended /\ t \in With.allowed

\* The gates a call of t stands before, and the next one after those it passed.
Needed(t) ==
  {g \in {"approve", "own", "signin"} :
     CASE g = "approve" -> Def[t].approves /\ ~Agreed(t)
       [] g = "own"     -> t \in With.flagged /\ ~Def[t].readOnly /\ ~Agreed(t)
       [] g = "signin"  -> Def[t].signIn /\ ~With.connected /\ With.asker}
Gate(t, passed) ==
  LET left == Needed(t) \ passed
  IN  IF "approve" \in left THEN "approve"
      ELSE IF "own" \in left THEN "own"
      ELSE IF "signin" \in left THEN "signin"
      ELSE "send"

Counted == bounds' = [bounds EXCEPT !.calls = @ + 1]
Calls(t) == reply.pc = "model" /\ bounds.calls < MaxCalls /\ t \in DOMAIN reply.bound

\* Turned back to the model: something must run first, the inputs are wrong, a rule is
\* broken, the time zone was asked for, or it went through before.  No service saw it.
TurnedBack(t, raw) ==
  /\ Calls(t)
  /\ \/ MustWait(t, raw)
     \/ Whole(t, raw) = {}
     \/ \E in \in Whole(t, raw) : Breaks(Rules(Held(t)), in) \/ AsksZone(t) \/ AlreadyDone(t, in)
  /\ Counted
  /\ UNCHANGED <<defs, reply, journal, done, sent>>

Reaches(t, raw, in) ==
  /\ Calls(t)
  /\ ~MustWait(t, raw)
  /\ in \in Whole(t, raw)
  /\ ~Breaks(Rules(Held(t)), in)
  /\ ~AsksZone(t)
  /\ ~AlreadyDone(t, in)
  /\ reply' = [reply EXCEPT !.pc = Gate(t, {}),
                            !.call = [tool |-> t, raw |-> raw, input |-> in,
                                      passed |-> {}, approved |-> {}]]
  /\ Counted
  /\ UNCHANGED <<defs, journal, done, sent>>

Back == reply' = [reply EXCEPT !.pc = "model", !.call = NoCall]

\* withApprovalGate and withUserApprovalGate: refused when there is nobody to ask,
\* declined, or not answered; on a yes, on to the next gate.
Approves ==
  /\ reply.pc \in {"approve", "own"}
  /\ With.asker
  /\ LET call   == reply.call
         passed == call.passed \cup {reply.pc}
     IN  reply' = [reply EXCEPT !.pc = Gate(call.tool, passed), !.call.passed = passed,
                                !.call.approved = @ \cup {<<reply.pc, call.input>>}]
  /\ UNCHANGED <<defs, journal, done, sent, bounds>>

Declines ==
  /\ reply.pc \in {"approve", "own"}
  /\ Back
  /\ UNCHANGED <<defs, journal, done, sent, bounds>>

\* withAuthGate: a connection at once, a prompt sent (the request is held back), or none to be had.
SignIn(has) ==
  /\ reply.pc = "signin"
  /\ IF has THEN reply' = [reply EXCEPT !.pc = "send", !.call.passed = @ \cup {"signin"}] ELSE Back
  /\ UNCHANGED <<defs, journal, done, sent, bounds>>

\* What comes back, and what it is taken for.
\*   ok: it did it.  unchanged: "changed": false.  saysFailed: no error, but the result says so.
\*   lost: it did it and the answer was lost.  error: it did not.
Outcomes == {"ok", "unchanged", "saysFailed", "lost", "error"}
OutcomeDone(out) == out \in {"ok", "saysFailed"}        \* OutcomeOf
Note(t, in) == journal \cup {[tool |-> t, input |-> in]}
JournalNotes(out) == OutcomeDone(out) /\ out # "saysFailed"  \* withJournal

Execute(out) ==
  /\ reply.pc = "send"
  /\ LET t == reply.call.tool  in == reply.call.input
     IN  /\ journal' = IF JournalNotes(out) THEN Note(t, in) ELSE journal
         /\ done' = IF Def[t].approves /\ OutcomeDone(out) THEN done \cup {<<t, OnceKey(t, in)>>} ELSE done
         /\ sent' = Append(sent, [tool |-> t, input |-> in, ran |-> (out = "ok"),
                                  approved |-> reply.call.approved])
  /\ Back
  /\ UNCHANGED <<defs, bounds>>

(***************************************************************************)
(* Specification                                                           *)
(***************************************************************************)
Nothing == [agentRules |-> {}, caps |-> <<>>]
Init ==
  /\ defs = Nothing
  /\ reply = Over
  /\ journal = {} /\ done = {} /\ sent = <<>>
  /\ bounds = [calls |-> 0, replies |-> 0, saves |-> 0]

Next ==
  \/ CreatorStores
  \/ \E s \in Settings : BeginReply(s)
  \/ EndReply
  \/ \E t \in Tools : \E raw \in Inputs[t] :
       \/ TurnedBack(t, raw)
       \/ reply.pc = "model" /\ t \in DOMAIN reply.bound /\ \E in \in Whole(t, raw) : Reaches(t, raw, in)
  \/ Approves
  \/ Declines
  \/ \E has \in BOOLEAN : SignIn(has)
  \/ \E out \in Outcomes : Execute(out)

Spec == Init /\ [][Next]_vars

(***************************************************************************)
(* Properties                                                              *)
(***************************************************************************)
\* States are well-formed; a call past the model is one of an ability the reply was offered,
\* the journal holds only what really ran.
WellFormed ==
  /\ reply.pc \in {"over", "model", "approve", "own", "signin", "send"}
  /\ reply.pc \notin {"over", "model"} => reply.call.tool \in DOMAIN reply.bound
  /\ reply.pc = "signin" => With.asker /\ ~With.connected
  /\ Len(sent) <= bounds.calls
  /\ \A e \in journal : \E i \in DOMAIN sent : sent[i].tool = e.tool /\ sent[i].input = e.input /\ sent[i].ran

Sent(i) == sent[i]
Changes(t) == ~Def[t].readOnly

\* What a person approves is what is sent: a change that asks first (by its own definition, or
\* because the person asked to be asked) reaches its service only with the very inputs they
\* approved in this call, executor-prepared values included, or agreed to in advance for an
\* unattended run (hydrate.go, prepare.go: "the approval shows exactly what will be sent").
ApprovedAsSent ==
  \A i \in DOMAIN sent :
    LET t == Sent(i).tool
    IN  ~(With.unattended /\ t \in With.allowed) =>
          /\ Def[t].approves => <<"approve", Sent(i).input>> \in Sent(i).approved
          /\ t \in With.flagged /\ Changes(t) => <<"own", Sent(i).input>> \in Sent(i).approved

\* A rule whose fixed value no rule of the capability replaces.
InForce(copy, r) ==
  r.kind = "fixed" /\ (r \in copy.own \/ ~\E q \in copy.own : q.kind = "fixed" /\ q.input = r.input)

\* Nothing that reaches a service breaks a rule it was bound with, and what a rule in force fixed has
\* the fixed value, whatever the model gave and whatever the executor prepared (tool_rule.go).
RulesKept ==
  \A i \in DOMAIN sent :
    LET copy == Held(Sent(i).tool)
    IN  /\ ~Breaks(Rules(copy), Sent(i).input)
        /\ \A r \in Rules(copy) : InForce(copy, r) => ValueIn(r.values, Sent(i).input[r.input])

\* Prerequisites on details that no rule fixes or fills in and no executor works out.
Free(t, p) ==
  \A d \in p.same :
    /\ d \notin Def[t].prepares
    /\ ~\E r \in Rules(Held(t)) : r.kind \in {"fixed", "default"} /\ r.input = d
RanBefore(i, first, same) ==
  \E j \in 1 .. (i - 1) :
    /\ Sent(j).tool = first /\ Sent(j).ran
    /\ \A d \in same : SameValue(Sent(j).input[d], Sent(i).input[d])

\* An ability that waits for another reaches its service only after that one really ran in this
\* reply, for the same values as are sent, where neither a rule nor an executor fills in those
\* values (prerequisite.go:13-15); and one that acts on what only a look-up gives only after one of
\* its look-ups, except unattended.
LookedFirst ==
  \A i \in DOMAIN sent :
    LET t == Sent(i).tool
    IN  /\ \A p \in Held(t).waits : Free(t, p) => RanBefore(i, p.first, p.same)
        /\ Held(t).oneOf # {} /\ ~With.unattended => \E f \in Held(t).oneOf : RanBefore(i, f, {})

\* In one reply a change that asks first goes through at most once for each thing it acts on,
\* however often and with whatever other inputs the model calls it (hydrate.go, withOneShotGuard).
OncePerThing ==
  \A i, j \in DOMAIN sent :
    i # j /\ Sent(i).tool = Sent(j).tool /\ Def[Sent(i).tool].approves
          /\ Sent(i).ran /\ Sent(j).ran
      => \E d \in Def[Sent(i).tool].onceFor : ~SameValue(Sent(i).input[d], Sent(j).input[d])

Guarded(copy) == copy.own # {} \/ copy.waits # {} \/ copy.oneOf # {}

\* The abilities of a reply: a connection a capability is limited on gives no change the creator did
\* not name, whatever it gained since (hydrate.go, HydrateSkillTools); what is bound is what
\* GrantedTools says is granted wherever every service runs (granted.go); and an ability that some
\* picked capability guards is not offered unguarded (host.go, routeWithJev).
OfferedAsGranted ==
  reply.pc # "over" =>
    /\ \A t \in DOMAIN reply.bound :
         LET by == {With.picks[i] : i \in DOMAIN With.picks}
         IN  /\ \E c \in by : t \in Granted(defs.caps[c], With.known, With.off)
             /\ Changes(t) => \E c \in by : t \in defs.caps[c].tools \/ Def[t].app \notin defs.caps[c].limited
             /\ (\E i \in Grants(defs, With, t) : Guarded(CopyAt(defs, With, t, i))) => Guarded(Held(t))
    /\ \A i \in DOMAIN With.picks :
         LET cap == defs.caps[With.picks[i]]
         IN  (~HydrateFails(cap, With) /\ With.running = {Def[t].app : t \in Tools})
                => Granted(cap, With.known, With.off) \subseteq DOMAIN reply.bound

\* What a reply may do is what its creator granted, bound by the creator's rules and done once
\* (hydrate.go, tool_rule.go, granted.go).
GatesInv == WellFormed /\ RulesKept /\ OncePerThing /\ OfferedAsGranted

(***************************************************************************)
(* Said of this code and not kept (README, Disagreements).                 *)
(***************************************************************************)
\* prerequisite.go:13-15, without the condition: where a rule fixes the value, the wait is
\* checked on what the model gave and the ability runs for what the creator fixed.
LookedFirstAlways ==
  \A i \in DOMAIN sent : \A p \in Held(Sent(i).tool).waits : RanBefore(i, p.first, p.same)

\* tool_rule.go, "fixed: always this value": a capability's fixed value replaces the agent's.
FixedAlways ==
  \A i \in DOMAIN sent : \A r \in Rules(Held(Sent(i).tool)) :
    r.kind = "fixed" => ValueIn(r.values, Sent(i).input[r.input])

\* host.go: "a creator's check first or never more than is never lost to the order the
\* capabilities were picked in".
GuardsNeverLost ==
  reply.pc # "over" =>
    \A t \in DOMAIN reply.bound : \A i \in Grants(defs, With, t) :
      LET copy == CopyAt(defs, With, t, i)
      IN  copy.waits \subseteq Held(t).waits /\ Rules(copy) \subseteq Rules(Held(t))

\* tool_rule.go, NormalizeRules: "Rules that can't both hold are refused."
RulesCanHold ==
  \A t \in Tools :
    LET rules == RulesOf(defs.agentRules, t)
        Pinned(in) == ApplyPins([agents |-> rules, own |-> {}], in)
    IN  \E in \in [Details -> {"none", "1", "2", "3", "A", "B"}] :
          InputOK(t, Pinned(in)) /\ ~Breaks(rules, CheckInput(t, Pinned(in)))

\* One approval is enough for one call.
AskedOnce == \A i \in DOMAIN sent : Cardinality(sent[i].approved) <= 1

\* hydrate.go: "Only a call that really went through uses up the one shot."
OneShotKept ==
  \A k \in done : \E i \in DOMAIN sent : sent[i].tool = k[1] /\ sent[i].ran
==============================================================================
